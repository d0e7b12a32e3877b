----------------------- MODULE CacheHierarchy_proofs -----------------------
(***************************************************************************)
(* The caches of a thread, whatever their configurations: their types, the *)
(* meaning of the dirty bit, write-through, and that the hierarchy is a    *)
(* memory.                                                                 *)
(*                                                                         *)
(* The first part is about one table: what read, write and                 *)
(* handleWritePolicy do to its form, which is IsTable, and to the set of   *)
(* its lines, which is all that the contents of the cache depend on.  The  *)
(* second part is about the methods of the caches, from the memory up, the *)
(* third about what the counters say, however often they wrapped, the last *)
(* about the loads of memory on behalf of no miss, while none wraps.       *)
(***************************************************************************)
EXTENDS CacheHierarchy, SetAccessor_proofs, FiniteSetTheorems

------------------------------------------------------------------------------
(* The table of a cache *)

\* What a cache is asked for: addresses of the program, and tags that the
\* cache above passes as addresses.
Asked == Addresses \cup Instructions \cup LineTags

\* A configuration that one of the caches may have.
IsConfig(c) == IsCacheConfig(c) /\ c.cacheLineSize = LineSize

LEMMA AskedProperties ==
    ASSUME NEW c, IsConfig(c), NEW adr \in Asked
    PROVE  /\ adr \in Nat
           /\ LocTag(c, adr) \in 0..(c.numberOfSets - 1)
           /\ DataTag(c, adr) \in LineTags
           /\ DataTag(c, adr) = Tag(adr)
           /\ LocTag(c, DataTag(c, adr)) = LocTag(c, adr)
           /\ DataTag(c, DataTag(c, adr)) = DataTag(c, adr)
           /\ adr \in LineTags => Tag(adr) = adr
<1>1. \A a : DataTag(c, a) = Tag(a)
  BY DEF DataTag, Tag, IsConfig
<1>2. \A a \in Addresses \cup Instructions :
        Tag(a) \in LineTags /\ Tag(a) \in Nat /\ Tag(Tag(a)) = Tag(a)
  BY <1>1, AddressesAssumption, TagProperties DEF IsConfig, LineTags
<1>3. /\ adr \in Nat
      /\ Tag(adr) \in LineTags
      /\ adr \in LineTags => Tag(adr) = adr
  BY <1>2, AddressesAssumption DEF Asked, LineTags
<1> QED
  BY <1>1, <1>3, TagProperties DEF IsConfig

\* What a list of lines must be to be the set k of a table.
IsSet(c, k, set) ==
    /\ set \in Seq(Lines)
    /\ Len(set) <= c.setSize
    /\ \A i \in 1..Len(set) :
        /\ LocTag(c, set[i].tag) = k
        /\ ~set[i].evacuated
        /\ \A j \in 1..Len(set) : set[i].tag = set[j].tag => i = j

\* The set an address falls in.
LEMMA SetOfTable ==
    ASSUME NEW c, IsConfig(c), NEW table, IsTable(c, table), NEW adr \in Asked
    PROVE  LET k == LocTag(c, adr)
           IN  /\ k \in DOMAIN table
               /\ IsSet(c, k, table[k])
               /\ Len(table[k]) \in Nat
               /\ DOMAIN table[k] = 1..Len(table[k])
               /\ \A i \in DOMAIN table[k] : table[k][i] \in Lines
<1> DEFINE k   == LocTag(c, adr)
           set == table[k]
<1>1. k \in DOMAIN table /\ set \in Seq(Lines)
  BY AskedProperties DEF IsTable
<1>2. /\ Len(set) \in Nat
      /\ DOMAIN set = 1..Len(set)
      /\ \A i \in 1..Len(set) : set[i] \in Lines
  BY <1>1, LenProperties, ElementOfSeq
<1> QED
  BY <1>1, <1>2 DEF IsTable, IsSet

\* The lines of a table: each in the set of its tag, and of each tag one.
LEMMA LinesOfTable ==
    ASSUME NEW c, IsConfig(c), NEW table, IsTable(c, table)
    PROVE  /\ \A line \in LinesOf(table) :
                line \in Lines /\ line.tag \in LineTags /\ ~line.evacuated
           /\ \A one, other \in LinesOf(table) :
                one.tag = other.tag => one = other
           /\ \A adr \in Asked :
                IsCached(c, table, adr)
                    <=> \E line \in LinesOf(table) : line.tag = DataTag(c, adr)
<1>1. ASSUME NEW ltag \in DOMAIN table
      PROVE  DOMAIN table[ltag] = 1..Len(table[ltag]) /\ table[ltag] \in Seq(Lines)
  BY <1>1, LenProperties DEF IsTable
<1>2. ASSUME NEW ltag \in DOMAIN table, NEW i \in DOMAIN table[ltag]
      PROVE  /\ table[ltag][i] \in Lines
             /\ table[ltag][i].tag \in LineTags
             /\ ~table[ltag][i].evacuated
             /\ LocTag(c, table[ltag][i].tag) = ltag
  <2>1. table[ltag][i] \in Lines
    BY <1>1, ElementOfSeq
  <2> QED
    BY <2>1 DEF IsTable, Lines, CacheLine
<1>3. ASSUME NEW line \in LinesOf(table)
      PROVE  \E ltag \in DOMAIN table : \E i \in DOMAIN table[ltag] :
                line = table[ltag][i]
  BY DEF LinesOf, ToSet
<1>4. ASSUME NEW one \in LinesOf(table), NEW other \in LinesOf(table),
             one.tag = other.tag
      PROVE  one = other
  <2>1. PICK k1 \in DOMAIN table : \E i \in DOMAIN table[k1] : one = table[k1][i]
    BY <1>3
  <2>2. PICK k2 \in DOMAIN table : \E i \in DOMAIN table[k2] : other = table[k2][i]
    BY <1>3
  <2>3. PICK i1 \in DOMAIN table[k1] : one = table[k1][i1]
    BY <2>1
  <2>4. PICK i2 \in DOMAIN table[k2] : other = table[k2][i2]
    BY <2>2
  <2>5. k1 = k2
    BY <1>2, <1>4, <2>3, <2>4
  <2> QED
    BY <1>4, <2>3, <2>4, <2>5 DEF IsTable
<1>5. ASSUME NEW adr \in Asked
      PROVE  IsCached(c, table, adr)
                <=> \E line \in LinesOf(table) : line.tag = DataTag(c, adr)
  <2>1. LocTag(c, adr) \in DOMAIN table
    BY SetOfTable
  <2>2. ASSUME IsCached(c, table, adr)
        PROVE  \E line \in LinesOf(table) : line.tag = DataTag(c, adr)
    <3>1. PICK i \in DOMAIN table[LocTag(c, adr)] :
                table[LocTag(c, adr)][i].tag = DataTag(c, adr)
      BY <2>2 DEF IsCached, SetOf
    <3>2. table[LocTag(c, adr)][i] \in LinesOf(table)
      BY <2>1 DEF LinesOf, ToSet
    <3> QED
      BY <3>1, <3>2
  <2>3. ASSUME NEW line \in LinesOf(table), line.tag = DataTag(c, adr)
        PROVE  IsCached(c, table, adr)
    <3>1. PICK ltag \in DOMAIN table : \E i \in DOMAIN table[ltag] : line = table[ltag][i]
      BY <1>3
    <3>2. ltag = LocTag(c, adr)
      BY <1>2, <2>3, <3>1, AskedProperties
    <3> QED
      BY <2>3, <3>1, <3>2 DEF IsCached, SetOf
  <2> QED
    BY <2>2, <2>3
<1>6. \A line \in LinesOf(table) :
        line \in Lines /\ line.tag \in LineTags /\ ~line.evacuated
  BY <1>2, <1>3
<1> QED
  BY <1>4, <1>5, <1>6


------------------------------------------------------------------------------
(* Replacing one set *)

\* Replacing a set of a table keeps the form of the table and replaces the
\* lines of that set.
LEMMA ReplaceSet ==
    ASSUME NEW c, IsConfig(c), NEW table, IsTable(c, table),
           NEW k \in DOMAIN table, NEW new, IsSet(c, k, new)
    PROVE  LET changed == [table EXCEPT ![k] = new]
           IN  /\ IsTable(c, changed)
               /\ changed[k] = new
               /\ LinesOf(changed) =
                    (LinesOf(table) \ ToSet(table[k])) \cup ToSet(new)
<1> DEFINE changed == [table EXCEPT ![k] = new]
<1>1. new \in Seq(Lines) /\ DOMAIN new = 1..Len(new)
  BY LenProperties DEF IsSet
<1>2. table \in [0..(c.numberOfSets - 1) -> Seq(Lines)]
  BY DEF IsTable
<1>3. /\ changed \in [0..(c.numberOfSets - 1) -> Seq(Lines)]
      /\ changed[k] = new
      /\ DOMAIN changed = DOMAIN table
      /\ \A l \in DOMAIN table : l # k => changed[l] = table[l]
  BY <1>1, <1>2
<1> HIDE DEF changed
<1>4. IsTable(c, changed)
  <2>1. ASSUME NEW l \in DOMAIN changed
        PROVE  /\ Len(changed[l]) <= c.setSize
               /\ \A i \in DOMAIN changed[l] :
                    /\ LocTag(c, changed[l][i].tag) = l
                    /\ ~changed[l][i].evacuated
                    /\ \A j \in DOMAIN changed[l] :
                        changed[l][i].tag = changed[l][j].tag => i = j
    <3>1. CASE l = k
      BY <1>1, <1>3, <3>1 DEF IsSet
    <3>2. CASE l # k
      BY <1>3, <3>2 DEF IsTable
    <3> QED
      BY <3>1, <3>2
  <2> QED
    BY <1>3, <2>1 DEF IsTable
<1>5. ASSUME NEW l \in DOMAIN table, l # k, NEW line \in ToSet(table[l])
      PROVE  line \notin ToSet(table[k])
  BY <1>5 DEF IsTable, ToSet
<1>6. LinesOf(changed) = (LinesOf(table) \ ToSet(table[k])) \cup ToSet(new)
  <2>1. ASSUME NEW line \in LinesOf(changed)
        PROVE  line \in (LinesOf(table) \ ToSet(table[k])) \cup ToSet(new)
    <3>1. PICK l \in DOMAIN changed : line \in ToSet(changed[l])
      BY DEF LinesOf
    <3> QED
      BY <1>3, <1>5, <3>1 DEF LinesOf
  <2>2. ASSUME NEW line \in (LinesOf(table) \ ToSet(table[k])) \cup ToSet(new)
        PROVE  line \in LinesOf(changed)
    <3>1. CASE line \in ToSet(new)
      BY <1>3, <3>1 DEF LinesOf
    <3>2. CASE line \in LinesOf(table) \ ToSet(table[k])
      <4>1. PICK l \in DOMAIN table : line \in ToSet(table[l])
        BY <3>2 DEF LinesOf
      <4> QED
        BY <1>3, <3>2, <4>1 DEF LinesOf
    <3> QED
      BY <2>2, <3>1, <3>2
  <2> QED
    BY <2>1, <2>2
<1> QED
  BY <1>3, <1>4, <1>6 DEF changed

\* Taking entry i out of a set and appending a line, which has the tag of that
\* entry or a tag of no line of the set.
LEMMA MovedSet ==
    ASSUME NEW c, NEW k, NEW set, IsSet(c, k, set), NEW i \in 1..Len(set),
           NEW x \in Lines, LocTag(c, x.tag) = k, ~x.evacuated,
           \A j \in 1..Len(set) : set[j].tag = x.tag => j = i
    PROVE  LET new == MoveToEnd(set, i, x)
           IN  /\ IsSet(c, k, new)
               /\ Len(new) \in 1..Len(set)
               /\ new[Len(new)] = x
               /\ ToSet(new) = (ToSet(set) \ {set[i]}) \cup {x}
<1> DEFINE new == Append(RemoveAt(set, i), x)
<1>1. set \in Seq(Lines) /\ Len(set) \in Nat /\ DOMAIN set = 1..Len(set)
  BY LenProperties DEF IsSet
<1>2. ToSet(new) = {set[j] : j \in (1..Len(set)) \ {i}} \cup {x}
  BY <1>1, ReplacedLines
<1>3. new \in Seq(Lines) /\ IsMoved(new, set, i, x)
  BY <1>1, MovedEntries
<1> HIDE DEF new
<1>4. Len(new) = Len(set) /\ new[Len(set)] = x
  BY <1>3 DEF IsMoved
<1>5. Len(set) \in 1..Len(set)
  BY <1>1
<1>6. PICK from \in [1..(Len(set) - 1) -> (1..Len(set)) \ {i}] :
            /\ \A j \in 1..(Len(set) - 1) : new[j] = set[from[j]]
            /\ \A j, l \in 1..(Len(set) - 1) : from[j] = from[l] => j = l
  BY <1>3 DEF IsMoved
<1>7. ASSUME NEW j \in (1..Len(set)) \ {Len(set)}
      PROVE  /\ j \in 1..(Len(set) - 1)
             /\ from[j] \in 1..Len(set)
             /\ from[j] # i
             /\ new[j] = set[from[j]]
  BY <1>3, <1>6 DEF IsMoved
<1>8. ASSUME NEW j \in 1..Len(set)
      PROVE  LocTag(c, new[j].tag) = k /\ ~new[j].evacuated
  <2>1. CASE j = Len(set)
    BY <1>4, <2>1
  <2>2. CASE j # Len(set)
    <3>1. from[j] \in 1..Len(set) /\ new[j] = set[from[j]]
      BY <1>7, <2>2
    <3> QED
      BY <3>1 DEF IsSet
  <2> QED
    BY <2>1, <2>2
<1>9. ASSUME NEW j \in (1..Len(set)) \ {Len(set)}
      PROVE  new[j].tag # x.tag
  BY <1>7
<1>10. ASSUME NEW j \in 1..Len(set), NEW l \in 1..Len(set), new[j].tag = new[l].tag
      PROVE  j = l
  <2>1. CASE j = Len(set) \/ l = Len(set)
    BY <1>4, <1>9, <1>10, <2>1
  <2>2. CASE j # Len(set) /\ l # Len(set)
    <3>1. from[j] = from[l]
      BY <1>7, <1>10, <2>2, ZenonT(60) DEF IsSet
    <3> QED
      BY <1>6, <1>7, <2>2, <3>1
  <2> QED
    BY <2>1, <2>2
<1>11. {set[j] : j \in (1..Len(set)) \ {i}} = ToSet(set) \ {set[i]}
  BY <1>1 DEF ToSet, IsSet
<1> QED
  BY <1>1, <1>2, <1>3, <1>4, <1>5, <1>8, <1>10, <1>11 DEF IsSet, MoveToEnd, new

\* Appending a line with a new tag to a set that is not full.
LEMMA AppendedSet ==
    ASSUME NEW c, IsConfig(c), NEW k, NEW set, IsSet(c, k, set), Len(set) < c.setSize,
           NEW x \in Lines, LocTag(c, x.tag) = k, ~x.evacuated,
           \A j \in 1..Len(set) : set[j].tag # x.tag
    PROVE  /\ IsSet(c, k, Append(set, x))
           /\ ToSet(Append(set, x)) = ToSet(set) \cup {x}
<1> DEFINE new == Append(set, x)
<1>1. set \in Seq(Lines) /\ Len(set) \in Nat /\ c.setSize \in Nat
  BY LenProperties DEF IsSet, IsConfig, IsCacheConfig
<1>2. /\ new \in Seq(Lines)
      /\ Len(new) = Len(set) + 1
      /\ \A j \in 1..Len(set) : new[j] = set[j]
      /\ new[Len(set) + 1] = x
  BY <1>1, AppendProperties
<1>3. ToSet(new) = ToSet(set) \cup {x}
  BY <1>1, AppendedLines
<1> HIDE DEF new
<1>4. \A j \in 1..(Len(set) + 1) : j # Len(set) + 1 => j \in 1..Len(set)
  BY <1>1
<1>5. ASSUME NEW j \in 1..Len(new)
      PROVE  LocTag(c, new[j].tag) = k /\ ~new[j].evacuated
  BY <1>2, <1>4 DEF IsSet
<1>6. ASSUME NEW j \in 1..Len(new), NEW l \in 1..Len(new), new[j].tag = new[l].tag
      PROVE  j = l
  BY <1>2, <1>4, <1>6 DEF IsSet
<1> QED
  BY <1>1, <1>2, <1>3, <1>5, <1>6 DEF IsSet, new

------------------------------------------------------------------------------
(* The operations of SetAccessor *)

\* Where the line of an address is: its entry, and no other one.
LEMMA CachedEntry ==
    ASSUME NEW c, IsConfig(c), NEW table, IsTable(c, table), NEW adr \in Asked,
           IsCached(c, table, adr)
    PROVE  LET set   == table[LocTag(c, adr)]
               entry == EntryOf(set, DataTag(c, adr))
           IN  /\ entry \in 1..Len(set)
               /\ set[entry] \in Lines
               /\ set[entry] \in LinesOf(table)
               /\ set[entry].tag = DataTag(c, adr)
               /\ \A j \in 1..Len(set) : set[j].tag = DataTag(c, adr) => j = entry
<1> DEFINE k     == LocTag(c, adr)
           set   == table[k]
           entry == EntryOf(set, DataTag(c, adr))
<1>1. /\ k \in DOMAIN table
      /\ IsSet(c, k, set)
      /\ DOMAIN set = 1..Len(set)
      /\ \A i \in DOMAIN set : set[i] \in Lines
  BY SetOfTable
<1>2. entry \in DOMAIN set /\ set[entry].tag = DataTag(c, adr)
  BY EntryOfProperties DEF IsCached, SetOf
<1> HIDE DEF entry
<1>3. set[entry] \in LinesOf(table)
  BY <1>1, <1>2 DEF LinesOf, ToSet
<1> QED
  BY <1>1, <1>2, <1>3 DEF IsSet, entry

\* read moves a line within its set.
LEMMA ReadTable ==
    ASSUME NEW c, IsConfig(c), NEW table, IsTable(c, table), NEW adr \in Asked
    PROVE  /\ IsTable(c, Read(c, table, adr))
           /\ LinesOf(Read(c, table, adr)) = LinesOf(table)
<1> DEFINE k     == LocTag(c, adr)
           set   == table[k]
           entry == EntryOf(set, DataTag(c, adr))
           new   == MoveToEnd(set, entry, set[entry])
<1>1. CASE IsCached(c, table, adr)
  <2>1. k \in DOMAIN table /\ IsSet(c, k, set) /\ DOMAIN set = 1..Len(set)
    BY SetOfTable
  <2>2. /\ entry \in 1..Len(set)
        /\ set[entry] \in Lines
        /\ set[entry].tag = DataTag(c, adr)
        /\ \A j \in 1..Len(set) : set[j].tag = DataTag(c, adr) => j = entry
    BY <1>1, CachedEntry
  <2> HIDE DEF entry
  <2>3. LocTag(c, set[entry].tag) = k /\ ~set[entry].evacuated
    BY <2>1, <2>2 DEF IsSet
  <2>4. IsSet(c, k, new) /\ ToSet(new) = (ToSet(set) \ {set[entry]}) \cup {set[entry]}
    BY <2>1, <2>2, <2>3, MovedSet
  <2>5. ToSet(new) = ToSet(set)
    BY <2>1, <2>2, <2>4 DEF ToSet
  <2>6. ToSet(set) \subseteq LinesOf(table)
    BY <2>1 DEF LinesOf
  <2>7. Read(c, table, adr) = [table EXCEPT ![k] = new]
    BY <1>1 DEF Read, SetOf, entry
  <2> HIDE DEF new, k
  <2>8. /\ IsTable(c, [table EXCEPT ![k] = new])
        /\ LinesOf([table EXCEPT ![k] = new]) =
              (LinesOf(table) \ ToSet(table[k])) \cup ToSet(new)
    BY <2>1, <2>4, ReplaceSet
  <2> QED
    BY <2>5, <2>6, <2>7, <2>8
<1>2. CASE ~IsCached(c, table, adr)
  BY <1>2 DEF Read
<1> QED
  BY <1>1, <1>2

\* What write makes of the line it finds.
Rewritten(line, d) == [SetEntryInvalid(line) EXCEPT !.data = d]

LEMMA RewrittenProperties ==
    ASSUME NEW line \in Lines, NEW d \in Data
    PROVE  /\ Rewritten(line, d) \in Lines
           /\ Rewritten(line, d).tag = line.tag
           /\ Rewritten(line, d).data = d
           /\ Rewritten(line, d).invalid
           /\ Rewritten(line, d).evacuated = line.evacuated
BY DEF Rewritten, SetEntryInvalid, Lines, CacheLine

\* x is the last line of the set of adr.
IsLast(c, table, adr, x) ==
    LET set == table[LocTag(c, adr)]
    IN  Len(set) \in DOMAIN set /\ set[Len(set)] = x

\* w is what a write of adr leaves and returns that finds the line old and
\* makes it x.
Rewrites(c, table, adr, old, x, w) ==
    /\ old.tag = DataTag(c, adr)
    /\ w.line = {x}
    /\ IsTable(c, w.table)
    /\ LinesOf(w.table) = (LinesOf(table) \ {old}) \cup {x}
    /\ IsLast(c, w.table, adr, x)

\* A write that hits returns the line, rewritten, as the last one of its set.
LEMMA WriteHit ==
    ASSUME NEW c, IsConfig(c), NEW table, IsTable(c, table), NEW adr \in Asked,
           NEW d \in Data, IsCached(c, table, adr)
    PROVE  \E old \in LinesOf(table) :
                Rewrites(c, table, adr, old, Rewritten(old, d), Write(c, table, adr, d))
<1> DEFINE k     == LocTag(c, adr)
           set   == table[k]
           entry == EntryOf(set, DataTag(c, adr))
           old   == set[entry]
           x     == Rewritten(old, d)
           new   == MoveToEnd(set, entry, x)
           w     == Write(c, table, adr, d)
<1>1. k \in DOMAIN table /\ IsSet(c, k, set) /\ DOMAIN set = 1..Len(set)
  BY SetOfTable
<1>2. /\ entry \in 1..Len(set)
      /\ old \in Lines
      /\ old \in LinesOf(table)
      /\ old.tag = DataTag(c, adr)
      /\ \A j \in 1..Len(set) : set[j].tag = DataTag(c, adr) => j = entry
  BY CachedEntry
<1>3. w.table = [table EXCEPT ![k] = new] /\ w.line = {x}
  BY DEF Write, SetOf, Rewritten
<1> HIDE DEF entry
<1>4. LocTag(c, old.tag) = k /\ ~old.evacuated
  BY <1>1, <1>2 DEF IsSet
<1>5. x \in Lines /\ x.tag = old.tag /\ ~x.evacuated
  BY <1>2, <1>4, RewrittenProperties
<1> HIDE DEF x
<1>6. /\ IsSet(c, k, new)
      /\ Len(new) \in 1..Len(set)
      /\ new[Len(new)] = x
      /\ ToSet(new) = (ToSet(set) \ {old}) \cup {x}
  BY <1>1, <1>2, <1>4, <1>5, MovedSet
<1> HIDE DEF new, k, w
<1>7. /\ IsTable(c, [table EXCEPT ![k] = new])
      /\ [table EXCEPT ![k] = new][k] = new
      /\ LinesOf([table EXCEPT ![k] = new]) =
            (LinesOf(table) \ ToSet(table[k])) \cup ToSet(new)
  BY <1>1, <1>6, ReplaceSet
<1>8. ToSet(set) \subseteq LinesOf(table)
  BY <1>1 DEF LinesOf
<1>9. LinesOf(w.table) = (LinesOf(table) \ {old}) \cup {x}
  <2>1. old \in ToSet(set)
    BY <1>1, <1>2 DEF ToSet
  <2> QED
    BY <1>3, <1>6, <1>7, <1>8, <2>1
<1>10. Len(new) \in DOMAIN new
  <2>1. new \in Seq(Lines)
    BY <1>6 DEF IsSet
  <2>2. DOMAIN new = 1..Len(new) /\ Len(new) \in Nat
    BY <2>1, LenProperties
  <2> QED
    BY <1>6, <2>2
<1> QED
  BY <1>2, <1>3, <1>6, <1>7, <1>9, <1>10 DEF Rewrites, IsLast, w, k, x

\* w is what a write leaves and returns that evicts V, at most one line, and
\* adds the line n.
Evicts(c, table, V, n, w) ==
    /\ V = {} \/ \E v \in V : V = {v}
    /\ w.line = {SetEvacuated(v) : v \in V}
    /\ IsTable(c, w.table)
    /\ LinesOf(w.table) = (LinesOf(table) \ V) \cup {n}

\* A write that misses appends a new line and returns the line it evicts, if
\* the set was full, marked as evacuated.
LEMMA WriteMiss ==
    ASSUME NEW c, IsConfig(c), NEW table, IsTable(c, table), NEW adr \in Asked,
           NEW d \in Data, ~IsCached(c, table, adr)
    PROVE  \E V \in SUBSET LinesOf(table) :
                Evicts(c, table, V, NewCacheLine(DataTag(c, adr), d),
                       Write(c, table, adr, d))
<1> DEFINE k   == LocTag(c, adr)
           set == table[k]
           x   == NewCacheLine(DataTag(c, adr), d)
           w   == Write(c, table, adr, d)
<1>1. /\ k \in DOMAIN table
      /\ IsSet(c, k, set)
      /\ Len(set) \in Nat
      /\ DOMAIN set = 1..Len(set)
  BY SetOfTable
<1>2. /\ x \in Lines
      /\ x.tag = DataTag(c, adr)
      /\ ~x.evacuated
      /\ LocTag(c, x.tag) = k
  BY AskedProperties DEF NewCacheLine, Lines, CacheLine
<1>3. \A j \in 1..Len(set) : set[j].tag # x.tag
  BY <1>1, <1>2 DEF IsCached, SetOf
<1>4. ToSet(set) \subseteq LinesOf(table)
  BY <1>1 DEF LinesOf
<1> HIDE DEF x
<1>5. CASE IsFull(c, set)
  <2> DEFINE new == MoveToEnd(set, 1, x)
  <2>1. 1 \in 1..Len(set)
    BY <1>1, <1>5 DEF IsFull, IsConfig, IsCacheConfig
  <2>2. w.table = [table EXCEPT ![k] = new] /\ w.line = {SetEvacuated(set[1])}
    BY <1>5 DEF Write, SetOf, Victim, MoveToEnd, x
  <2> HIDE DEF w, k
  <2>3. IsSet(c, k, new) /\ ToSet(new) = (ToSet(set) \ {set[1]}) \cup {x}
    BY <1>1, <1>2, <1>3, <2>1, MovedSet
  <2> HIDE DEF new
  <2>4. /\ IsTable(c, [table EXCEPT ![k] = new])
        /\ LinesOf([table EXCEPT ![k] = new]) =
              (LinesOf(table) \ ToSet(table[k])) \cup ToSet(new)
    BY <1>1, <2>3, ReplaceSet
  <2>5. set[1] \in ToSet(set)
    BY <1>1, <2>1 DEF ToSet
  <2>6. LinesOf(w.table) = (LinesOf(table) \ {set[1]}) \cup {x}
    BY <1>4, <2>2, <2>3, <2>4, <2>5
  <2>7. {set[1]} \in SUBSET LinesOf(table)
    BY <1>4, <2>5
  <2>8. /\ IsTable(c, w.table)
        /\ w.line = {SetEvacuated(v) : v \in {set[1]}}
        /\ {set[1]} = {} \/ \E v \in {set[1]} : {set[1]} = {v}
    BY <2>2, <2>4
  <2> QED
    BY <2>6, <2>7, <2>8 DEF Evicts, w, x
<1>6. CASE ~IsFull(c, set)
  <2> DEFINE new == Append(set, x)
  <2>1. Len(set) < c.setSize
    BY <1>1, <1>6 DEF IsFull, IsConfig, IsCacheConfig
  <2>2. w.table = [table EXCEPT ![k] = new] /\ w.line = {}
    BY <1>6 DEF Write, SetOf, x
  <2> HIDE DEF w, k
  <2>3. IsSet(c, k, new) /\ ToSet(new) = ToSet(set) \cup {x}
    BY <1>1, <1>2, <1>3, <2>1, AppendedSet
  <2> HIDE DEF new
  <2>4. /\ IsTable(c, [table EXCEPT ![k] = new])
        /\ LinesOf([table EXCEPT ![k] = new]) =
              (LinesOf(table) \ ToSet(table[k])) \cup ToSet(new)
    BY <1>1, <2>3, ReplaceSet
  <2>5. LinesOf(w.table) = (LinesOf(table) \ {}) \cup {x}
    BY <1>4, <2>2, <2>3, <2>4
  <2>6. {} \in SUBSET LinesOf(table) /\ {SetEvacuated(v) : v \in {}} = {}
    OBVIOUS
  <2>7. IsTable(c, w.table)
    BY <2>2, <2>4
  <2> QED
    BY <2>2, <2>5, <2>6, <2>7 DEF Evicts, w, x
<1> QED
  BY <1>5, <1>6

\* The line handleWritePolicy is given, if it is given one.
LEMMA TheLineOf == ASSUME NEW x PROVE TheLine({x}) = x
BY DEF TheLine

\* settled is the table, its line x marked as valid if it was written through.
Validates(c, table, x, settled) ==
    /\ IsTable(c, settled)
    /\ LinesOf(settled) =
        IF Flushed(c, {x}) = {} THEN LinesOf(table)
        ELSE (LinesOf(table) \ {x}) \cup {SetEntryValid(x)}

\* SET_ENTRY_VALID on the line of the table that was written through.
LEMMA SettledTable ==
    ASSUME NEW c, IsConfig(c), NEW table, IsTable(c, table), NEW adr \in Asked,
           NEW x, IsLast(c, table, adr, x)
    PROVE  Validates(c, table, x, Settled(c, table, {x}))
<1> DEFINE k   == LocTag(c, adr)
           set == table[k]
           n   == Len(set)
           new == ValidateLast(set)
<1>1. /\ k \in DOMAIN table
      /\ IsSet(c, k, set)
      /\ n \in DOMAIN set
      /\ DOMAIN set = 1..n
      /\ set \in Seq(Lines)
      /\ set[n] = x
      /\ x \in Lines
      /\ n \in Nat
  BY SetOfTable DEF IsSet, IsLast
<1>2. LocTag(c, x.tag) = k /\ ~x.evacuated
  BY <1>1 DEF IsSet
<1>3. CASE Flushed(c, {x}) = {}
  BY <1>3 DEF Settled, Validates
<1>4. CASE Flushed(c, {x}) # {}
  <2>1. x \in Flushed(c, {x})
    BY <1>4 DEF Flushed
  <2>2. Settled(c, table, {x}) = [table EXCEPT ![k] = new]
    BY <1>2, <2>1, TheLineOf DEF Settled
  <2>3. /\ SetEntryValid(x) \in Lines
        /\ SetEntryValid(x).tag = x.tag
        /\ SetEntryValid(x).evacuated = x.evacuated
    BY <1>1 DEF SetEntryValid, Lines, CacheLine
  <2>4. new = [set EXCEPT ![n] = SetEntryValid(x)]
    BY <1>1 DEF ValidateLast
  <2> HIDE DEF new, n, k
  <2>5. /\ new \in Seq(Lines)
        /\ Len(new) = n
        /\ \A i \in 1..n : new[i] = IF i = n THEN SetEntryValid(x) ELSE set[i]
    BY <1>1, <2>3, <2>4, ExceptSeq DEF n
  <2>6. IsSet(c, k, new)
    BY <1>1, <1>2, <2>3, <2>5 DEF IsSet
  <2>7. ToSet(new) = (ToSet(set) \ {x}) \cup {SetEntryValid(x)}
    <3>1. DOMAIN new = 1..n
      BY <2>5, LenProperties
    <3>2. \A i \in 1..n : i # n => set[i] # x
      BY <1>1 DEF IsSet, n
    <3> QED
      BY <1>1, <2>5, <3>1, <3>2 DEF ToSet
  <2>8. /\ IsTable(c, [table EXCEPT ![k] = new])
        /\ LinesOf([table EXCEPT ![k] = new]) =
              (LinesOf(table) \ ToSet(set)) \cup ToSet(new)
    BY <1>1, <2>6, ReplaceSet
  <2>9. ToSet(set) \subseteq LinesOf(table) /\ x \in ToSet(set)
    BY <1>1 DEF LinesOf, ToSet
  <2> QED
    BY <1>4, <2>2, <2>7, <2>8, <2>9 DEF Validates
<1> QED
  BY <1>3, <1>4

------------------------------------------------------------------------------
(* A table over the level below *)

\* What a cache shows of each line of memory, over what the level below it
\* shows.
Shown(table, below) ==
    [dtag \in LineTags |->
        LET held == Holding(table, dtag)
        IN  IF held # {} THEN TheLine(held).data ELSE below[dtag]]

\* The lines that are not marked as dirty hold what the level below shows.
Clean(table, below) ==
    \A line \in LinesOf(table) : line.invalid \/ line.data = below[line.tag]

\* What the level below shows once handleWritePolicy stored the line, if any,
\* that it has to.
Below(c, below, out) ==
    IF Flushed(c, out) = {} THEN below
    ELSE [below EXCEPT ![TheLine(out).tag] = TheLine(out).data]

IsLevel(c, table, below) ==
    /\ IsTable(c, table)
    /\ below \in [LineTags -> Data]
    /\ Clean(table, below)

LEMMA ShownLines ==
    ASSUME NEW c, IsConfig(c), NEW table, IsTable(c, table), NEW below
    PROVE  /\ \A line \in LinesOf(table) : Shown(table, below)[line.tag] = line.data
           /\ \A dtag \in LineTags :
                (\A line \in LinesOf(table) : line.tag # dtag)
                    => Shown(table, below)[dtag] = below[dtag]
           /\ below \in [LineTags -> Data] =>
                Shown(table, below) \in [LineTags -> Data]
<1>1. ASSUME NEW line \in LinesOf(table)
      PROVE  Shown(table, below)[line.tag] = line.data
  <2>1. line.tag \in LineTags /\ Holding(table, line.tag) = {line}
    BY LinesOfTable DEF Holding
  <2> QED
    BY <2>1, TheLineOf DEF Shown
<1>2. ASSUME NEW dtag \in LineTags, \A line \in LinesOf(table) : line.tag # dtag
      PROVE  Shown(table, below)[dtag] = below[dtag]
  BY <1>2 DEF Shown, Holding
<1>3. ASSUME below \in [LineTags -> Data], NEW dtag \in LineTags
      PROVE  Shown(table, below)[dtag] \in Data
  <2>1. CASE \E line \in LinesOf(table) : line.tag = dtag
    BY <1>1, <2>1, LinesOfTable DEF Lines, CacheLine
  <2>2. CASE \A line \in LinesOf(table) : line.tag # dtag
    BY <1>2, <1>3, <2>2
  <2> QED
    BY <2>1, <2>2
<1>4. Shown(table, below) = [dtag \in LineTags |-> Shown(table, below)[dtag]]
  BY DEF Shown
<1> QED
  BY <1>1, <1>2, <1>3, <1>4

\* What a table shows depends on its lines only.
LEMMA ShownSameLines ==
    ASSUME NEW one, NEW other, LinesOf(one) = LinesOf(other), NEW below
    PROVE  /\ Shown(one, below) = Shown(other, below)
           /\ Clean(one, below) <=> Clean(other, below)
BY DEF Shown, Holding, Clean

\* What handleWritePolicy does with an evacuated line: it stores a dirty one,
\* and leaves the table alone.
LEMMA Evacuated ==
    ASSUME NEW c, NEW v \in Lines
    PROVE  LET x == SetEvacuated(v)
           IN  /\ x.tag = v.tag /\ x.data = v.data /\ x.invalid = v.invalid /\ x.evacuated
               /\ TheLine({x}) = x
               /\ Flushed(c, {x}) = {} <=> ~v.invalid
               /\ \A table : Settled(c, table, {x}) = table
<1>1. /\ SetEvacuated(v).tag = v.tag
      /\ SetEvacuated(v).data = v.data
      /\ SetEvacuated(v).invalid = v.invalid
      /\ SetEvacuated(v).evacuated
  BY DEF SetEvacuated, Lines, CacheLine
<1>2. Flushed(c, {SetEvacuated(v)}) = {} <=> ~v.invalid
  BY <1>1 DEF Flushed
<1>3. \A line \in Flushed(c, {SetEvacuated(v)}) : line.evacuated
  BY <1>1 DEF Flushed
<1>4. \A table : Settled(c, table, {SetEvacuated(v)}) = table
  BY <1>3 DEF Settled
<1> QED
  BY <1>1, <1>2, <1>4, TheLineOf

LEMMA NothingReturned ==
    ASSUME NEW c
    PROVE  Flushed(c, {}) = {} /\ \A table : Settled(c, table, {}) = table
BY DEF Flushed, Settled

\* after is what the level below shows once a write evicted V and returned out:
\* the data of V, dirty or not, in its place.
ShowsEvicted(c, below, V, out, after) ==
    /\ after \in [LineTags -> Data]
    /\ \A v \in V : after[v.tag] = v.data
    /\ \A dtag \in LineTags :
        (\A v \in V : v.tag # dtag) => after[dtag] = below[dtag]
    /\ \A other : Settled(c, other, out) = other
    /\ Flushed(c, out) # {} =>
        TheLine(out).tag \in LineTags /\ TheLine(out).data \in Data

LEMMA BelowEvacuated ==
    ASSUME NEW c, NEW table, NEW below, IsConfig(c), IsLevel(c, table, below),
           NEW V \in SUBSET LinesOf(table), NEW n, NEW w, Evicts(c, table, V, n, w)
    PROVE  ShowsEvicted(c, below, V, w.line, Below(c, below, w.line))
<1> DEFINE out == w.line
<1>0. out = {SetEvacuated(v) : v \in V} /\ (V = {} \/ \E v \in V : V = {v})
  BY DEF Evicts
<1> HIDE DEF out
<1>1. CASE V = {}
  <2>1. out = {}
    BY <1>0, <1>1
  <2> QED
    BY <1>1, <2>1, NothingReturned DEF Below, IsLevel, ShowsEvicted, out
<1>2. CASE \E v \in V : V = {v}
  <2>1. PICK v \in V : V = {v}
    BY <1>2
  <2> DEFINE x == SetEvacuated(v)
  <2>2. out = {x}
    BY <1>0, <2>1
  <2>3. /\ v \in Lines /\ v.tag \in LineTags /\ v.data \in Data
        /\ v.invalid \/ v.data = below[v.tag]
    BY LinesOfTable DEF IsLevel, Clean, Lines, CacheLine
  <2>4. /\ x.tag = v.tag
        /\ x.data = v.data
        /\ TheLine({x}) = x
        /\ Flushed(c, {x}) = {} <=> ~v.invalid
        /\ \A other : Settled(c, other, {x}) = other
    BY <2>3, Evacuated
  <2> HIDE DEF x
  <2>5. /\ x.tag = v.tag
        /\ x.data = v.data
        /\ TheLine(out) = x
        /\ Flushed(c, out) = {} <=> ~v.invalid
        /\ \A other : Settled(c, other, out) = other
    BY <2>2, <2>4
  <2>6. below \in [LineTags -> Data]
    BY DEF IsLevel
  <2>7. CASE v.invalid
    <3>1. Below(c, below, out) = [below EXCEPT ![v.tag] = v.data]
      BY <2>5, <2>7 DEF Below
    <3> QED
      BY <2>1, <2>3, <2>5, <2>6, <2>7, <3>1 DEF ShowsEvicted, out
  <2>8. CASE ~v.invalid
    <3>1. Below(c, below, out) = below
      BY <2>5, <2>8 DEF Below
    <3> QED
      BY <2>1, <2>3, <2>5, <2>6, <2>8, <3>1 DEF ShowsEvicted, out
  <2> QED
    BY <2>7, <2>8
<1> QED
  BY <1>0, <1>1, <1>2

\* w is what a write of adr leaves and returns that adds its line to the table,
\* without a change in what the two levels together show.
Fills(c, table, below, adr, w) ==
    LET after == Below(c, below, w.line)
    IN  /\ IsLevel(c, w.table, after)
        /\ Shown(w.table, after) = Shown(table, below)
        /\ IsCached(c, w.table, adr)
        /\ \A other : Settled(c, other, w.line) = other
        /\ Flushed(c, w.line) # {} =>
            TheLine(w.line).tag \in LineTags /\ TheLine(w.line).data \in Data

\* A miss that fills the new line with what the level below shows.
LEMMA AllocateLevel ==
    ASSUME NEW c, IsConfig(c), NEW table, NEW below, IsLevel(c, table, below),
           NEW adr \in Asked, ~IsCached(c, table, adr)
    PROVE  Fills(c, table, below, adr, Write(c, table, adr, below[DataTag(c, adr)]))
<1> DEFINE dtag  == DataTag(c, adr)
           w     == Write(c, table, adr, below[dtag])
           after == Below(c, below, w.line)
           n     == NewCacheLine(dtag, below[dtag])
<1>1. IsTable(c, table) /\ below \in [LineTags -> Data] /\ Clean(table, below)
  BY DEF IsLevel
<1>2. dtag \in LineTags /\ below[dtag] \in Data
  BY <1>1, AskedProperties
<1>3. PICK V \in SUBSET LinesOf(table) : Evicts(c, table, V, n, w)
  BY <1>1, <1>2, WriteMiss
<1>4. IsTable(c, w.table) /\ LinesOf(w.table) = (LinesOf(table) \ V) \cup {n}
  BY <1>3 DEF Evicts
<1>5. /\ \A line \in LinesOf(table) : line.tag \in LineTags /\ line.tag # dtag
      /\ \A one, other \in LinesOf(table) : one.tag = other.tag => one = other
  BY <1>1, LinesOfTable
<1>6. n.tag = dtag /\ n.data = below[dtag]
  BY DEF NewCacheLine
<1> HIDE DEF w, n, dtag
<1>7. ShowsEvicted(c, below, V, w.line, after)
  BY <1>3, BelowEvacuated
<1>8. /\ after \in [LineTags -> Data]
      /\ \A v \in V : after[v.tag] = v.data
      /\ \A t \in LineTags : (\A v \in V : v.tag # t) => after[t] = below[t]
      /\ \A other : Settled(c, other, w.line) = other
      /\ Flushed(c, w.line) # {} =>
            TheLine(w.line).tag \in LineTags /\ TheLine(w.line).data \in Data
  BY <1>7 DEF ShowsEvicted
<1> HIDE DEF after
<1>9. after[dtag] = below[dtag]
  BY <1>2, <1>5, <1>8
<1>10. Clean(w.table, after)
  <2> SUFFICES ASSUME NEW line \in LinesOf(w.table)
               PROVE  line.invalid \/ line.data = after[line.tag]
    BY DEF Clean
  <2>1. CASE line = n
    BY <1>6, <1>9, <2>1
  <2>2. CASE line \in LinesOf(table) \ V
    <3>1. after[line.tag] = below[line.tag]
      BY <1>5, <1>8, <2>2
    <3> QED
      BY <1>1, <2>2, <3>1 DEF Clean
  <2> QED
    BY <1>4, <2>1, <2>2
<1>11. ASSUME NEW t \in LineTags
      PROVE  Shown(w.table, after)[t] = Shown(table, below)[t]
  <2>1. CASE \E line \in LinesOf(table) \ V : line.tag = t
    BY <1>1, <1>4, <2>1, ShownLines
  <2>2. CASE \E v \in V : v.tag = t
    <3>1. PICK v \in V : v.tag = t
      BY <2>2
    <3>2. Shown(table, below)[t] = v.data
      BY <1>1, <3>1, ShownLines
    <3>3. \A line \in LinesOf(w.table) : line.tag # t
      BY <1>4, <1>5, <1>6, <3>1
    <3>4. Shown(w.table, after)[t] = after[t]
      BY <1>4, <3>3, ShownLines
    <3> QED
      BY <1>8, <3>1, <3>2, <3>4
  <2>3. CASE (\A line \in LinesOf(table) : line.tag # t) /\ t # dtag
    <3>1. \A line \in LinesOf(w.table) : line.tag # t
      BY <1>4, <1>6, <2>3
    <3>2. after[t] = below[t]
      BY <1>8, <2>3
    <3> QED
      BY <1>1, <1>4, <2>3, <3>1, <3>2, ShownLines
  <2>4. CASE t = dtag
    <3>1. Shown(table, below)[t] = below[t]
      BY <1>1, <1>2, <1>5, <2>4, ShownLines
    <3>2. n \in LinesOf(w.table)
      BY <1>4
    <3>3. Shown(w.table, after)[t] = n.data
      BY <1>4, <1>6, <2>4, <3>2, ShownLines
    <3> QED
      BY <1>6, <2>4, <3>1, <3>3
  <2> QED
    BY <2>1, <2>2, <2>3, <2>4
<1>12. Shown(w.table, after) = Shown(table, below)
  BY <1>11 DEF Shown
<1>13. IsCached(c, w.table, adr)
  <2>1. n \in LinesOf(w.table)
    BY <1>4
  <2> QED
    BY <1>4, <1>6, <2>1, LinesOfTable DEF dtag
<1> QED
  BY <1>4, <1>8, <1>10, <1>12, <1>13 DEF Fills, IsLevel, after, w, dtag

\* A write into a line of the table: the lines show the new data there.
LEMMA RewriteLevel ==
    ASSUME NEW c, IsConfig(c), NEW table, NEW below, IsLevel(c, table, below),
           NEW adr \in Asked, IsCached(c, table, adr), NEW d \in Data
    PROVE  LET w == Write(c, table, adr, d)
           IN  /\ IsLevel(c, w.table, below)
               /\ Shown(w.table, below) =
                    [Shown(table, below) EXCEPT ![DataTag(c, adr)] = d]
<1> DEFINE dtag == DataTag(c, adr)
           w    == Write(c, table, adr, d)
<1>1. IsTable(c, table) /\ below \in [LineTags -> Data] /\ Clean(table, below)
  BY DEF IsLevel
<1>2. PICK old \in LinesOf(table) : Rewrites(c, table, adr, old, Rewritten(old, d), w)
  BY <1>1, WriteHit
<1>3. /\ old.tag = dtag
      /\ IsTable(c, w.table)
      /\ LinesOf(w.table) = (LinesOf(table) \ {old}) \cup {Rewritten(old, d)}
  BY <1>2 DEF Rewrites
<1> DEFINE x == Rewritten(old, d)
<1>4. /\ \A line \in LinesOf(table) : line \in Lines /\ line.tag \in LineTags
      /\ \A one, other \in LinesOf(table) : one.tag = other.tag => one = other
  BY <1>1, LinesOfTable
<1>5. x.tag = dtag /\ x.data = d /\ x.invalid
  BY <1>3, <1>4, RewrittenProperties
<1>6. LinesOf(w.table) = (LinesOf(table) \ {old}) \cup {x}
  BY <1>3
<1> HIDE DEF w, x, dtag
<1>7. Clean(w.table, below)
  BY <1>1, <1>5, <1>6 DEF Clean
<1>8. ASSUME NEW t \in LineTags
      PROVE  Shown(w.table, below)[t] = IF t = dtag THEN d ELSE Shown(table, below)[t]
  <2>1. CASE t = dtag
    BY <1>3, <1>5, <1>6, <2>1, ShownLines
  <2>2. CASE t # dtag /\ \E line \in LinesOf(table) : line.tag = t
    <3>1. PICK line \in LinesOf(table) : line.tag = t
      BY <2>2
    <3>2. line \in LinesOf(w.table)
      BY <1>3, <1>6, <2>2, <3>1
    <3> QED
      BY <1>1, <1>3, <2>2, <3>1, <3>2, ShownLines
  <2>3. CASE t # dtag /\ \A line \in LinesOf(table) : line.tag # t
    <3>1. \A line \in LinesOf(w.table) : line.tag # t
      BY <1>5, <1>6, <2>3
    <3> QED
      BY <1>1, <1>3, <2>3, <3>1, ShownLines
  <2> QED
    BY <2>1, <2>2, <2>3
<1>9. Shown(w.table, below) = [Shown(table, below) EXCEPT ![dtag] = d]
  BY <1>8 DEF Shown
<1> QED
  BY <1>1, <1>3, <1>7, <1>9 DEF IsLevel, w, dtag

\* w is what a write of d to adr leaves and returns that finds its line: what
\* handleWritePolicy makes of it shows d, and with WRITE_THROUGH d is below.
Stores(c, table, below, adr, d, w) ==
    LET dtag    == DataTag(c, adr)
        settled == Settled(c, w.table, w.line)
        after   == Below(c, below, w.line)
    IN  /\ IsLevel(c, settled, after)
        /\ Shown(settled, after) = [Shown(table, below) EXCEPT ![dtag] = d]
        /\ Flushed(c, w.line) # {} =>
            TheLine(w.line).tag = dtag /\ TheLine(w.line).data = d
        /\ c.writePolicy = WRITE_THROUGH =>
            Flushed(c, w.line) # {} /\ after[dtag] = d

LEMMA StoreHitLevel ==
    ASSUME NEW c, IsConfig(c), NEW table, NEW below, IsLevel(c, table, below),
           NEW adr \in Asked, IsCached(c, table, adr), NEW d \in Data
    PROVE  Stores(c, table, below, adr, d, Write(c, table, adr, d))
<1> DEFINE dtag    == DataTag(c, adr)
           w       == Write(c, table, adr, d)
           settled == Settled(c, w.table, w.line)
           after   == Below(c, below, w.line)
<1>1. IsTable(c, table) /\ below \in [LineTags -> Data] /\ dtag \in LineTags
  BY AskedProperties DEF IsLevel
<1>2. PICK old \in LinesOf(table) : Rewrites(c, table, adr, old, Rewritten(old, d), w)
  BY <1>1, WriteHit
<1> DEFINE x == Rewritten(old, d)
<1>3. /\ old.tag = dtag
      /\ w.line = {x}
      /\ IsTable(c, w.table)
      /\ LinesOf(w.table) = (LinesOf(table) \ {old}) \cup {x}
  BY <1>2 DEF Rewrites
<1>4. IsLast(c, w.table, adr, x)
  BY <1>2 DEF Rewrites
<1>5. old \in Lines /\ ~old.evacuated
  BY <1>1, LinesOfTable
<1>6. x \in Lines /\ x.tag = dtag /\ x.data = d /\ x.invalid /\ ~x.evacuated
  BY <1>3, <1>5, RewrittenProperties
<1>7. /\ IsLevel(c, w.table, below)
      /\ Shown(w.table, below) = [Shown(table, below) EXCEPT ![dtag] = d]
  BY RewriteLevel
<1>8. Validates(c, w.table, x, Settled(c, w.table, {x}))
  <2> HIDE DEF w, x
  <2> QED
    BY <1>3, <1>4, SettledTable
<1>9. /\ IsTable(c, settled)
      /\ LinesOf(settled) = IF Flushed(c, {x}) = {} THEN LinesOf(w.table)
                            ELSE (LinesOf(w.table) \ {x}) \cup {SetEntryValid(x)}
  BY <1>3, <1>8 DEF Validates
<1>10. w.line = {x} /\ x \in LinesOf(w.table) /\ TheLine(w.line) = x
  BY <1>3, TheLineOf
<1> HIDE DEF w, x, dtag
<1>11. CASE Flushed(c, {x}) = {}
  <2>1. after = below
    BY <1>10, <1>11 DEF Below
  <2>2. c.writePolicy # WRITE_THROUGH
    BY <1>6, <1>11 DEF Flushed
  <2>3. LinesOf(settled) = LinesOf(w.table)
    BY <1>9, <1>11
  <2> HIDE DEF settled, after
  <2>4. Shown(settled, below) = Shown(w.table, below) /\ Clean(settled, below)
    BY <1>7, <2>3, ShownSameLines DEF IsLevel
  <2> QED
    BY <1>1, <1>7, <1>9, <1>10, <1>11, <2>1, <2>2, <2>4
       DEF Stores, IsLevel, settled, after, w, dtag
<1>12. CASE Flushed(c, {x}) # {}
  <2> DEFINE y == SetEntryValid(x)
  <2>1. after = [below EXCEPT ![dtag] = d]
    BY <1>6, <1>10, <1>12 DEF Below
  <2>2. y.tag = dtag /\ y.data = d
    BY <1>6 DEF SetEntryValid, Lines, CacheLine
  <2>3. LinesOf(settled) = (LinesOf(w.table) \ {x}) \cup {y}
    BY <1>9, <1>12
  <2>4. /\ \A line \in LinesOf(w.table) : line.tag \in LineTags
        /\ \A one, other \in LinesOf(w.table) : one.tag = other.tag => one = other
    BY <1>3, LinesOfTable
  <2> HIDE DEF settled, after, y
  <2>10. IsTable(c, settled) /\ IsTable(c, w.table)
    BY <1>3, <1>9
  <2>5. after \in [LineTags -> Data] /\ after[dtag] = d
    BY <1>1, <2>1
  <2>6. \A line \in LinesOf(w.table) \ {x} : after[line.tag] = below[line.tag]
    BY <1>1, <1>6, <1>10, <2>1, <2>4
  <2>7. Clean(settled, after)
    BY <1>7, <2>2, <2>3, <2>5, <2>6 DEF Clean, IsLevel
  <2>8. ASSUME NEW t \in LineTags
        PROVE  Shown(settled, after)[t] = Shown(w.table, below)[t]
    <3>1. CASE t = dtag
      <4>1. Shown(settled, after)[t] = y.data
        BY <1>9, <2>2, <2>3, <3>1, ShownLines
      <4>2. Shown(w.table, below)[t] = x.data
        BY <1>3, <1>6, <1>10, <3>1, ShownLines
      <4> QED
        BY <1>6, <2>2, <4>1, <4>2
    <3>2. CASE t # dtag /\ \E line \in LinesOf(w.table) : line.tag = t
      <4>1. PICK line \in LinesOf(w.table) : line.tag = t
        BY <3>2
      <4>2. line \in LinesOf(settled)
        BY <1>6, <2>3, <3>2, <4>1
      <4>3. Shown(settled, after)[t] = line.data
        BY <2>10, <4>1, <4>2, ShownLines
      <4>4. Shown(w.table, below)[t] = line.data
        BY <2>10, <4>1, ShownLines
      <4> QED
        BY <4>3, <4>4
    <3>3. CASE t # dtag /\ \A line \in LinesOf(w.table) : line.tag # t
      <4>1. \A line \in LinesOf(settled) : line.tag # t
        BY <2>2, <2>3, <3>3
      <4>2. after[t] = below[t]
        BY <1>1, <2>1, <3>3
      <4>3. Shown(settled, after)[t] = after[t]
        BY <2>10, <4>1, ShownLines
      <4>4. Shown(w.table, below)[t] = below[t]
        BY <2>10, <3>3, ShownLines
      <4> QED
        BY <4>2, <4>3, <4>4
    <3> QED
      BY <3>1, <3>2, <3>3
  <2>9. Shown(settled, after) = Shown(w.table, below)
    BY <2>8 DEF Shown
  <2> QED
    BY <1>6, <1>7, <1>9, <1>10, <1>12, <2>5, <2>7, <2>9
       DEF Stores, IsLevel, settled, after, w, dtag
<1> QED
  BY <1>11, <1>12

------------------------------------------------------------------------------
(* The L2 cache over the memory *)

L2Counters ==
    {"cleanLinesEvacuatedByDemand", "dirtyLinesEvacuatedByDemand",
     "cleanLinesEvacuatedByPrefetcher", "dirtyLinesEvacuatedByPrefetcher",
     "loadRequest", "loadRequestHit", "prefetchRequest", "prefetchRequestMiss"}

\* The fields of an L2 cache other than its lines.
IsL2(l2cache) ==
    /\ DOMAIN l2cache = {"config", "table"} \cup L2Counters
    /\ IsConfig(l2cache.config)
    /\ \A field \in L2Counters : l2cache[field] \in Counter

IsMem(mem) == mem \in [data : [LineTags -> Data], loadCount : Counter,
                       storeCount : Counter, prefetchCount : Counter]

IsCaches(s) == DOMAIN s = {"l1d", "l1i", "l2", "mm"}

\* The L2 cache and the memory are well formed, and what L2 does not mark as
\* dirty is in memory.
L2OK(s) ==
    /\ IsCaches(s)
    /\ IsL2(s.l2)
    /\ IsMem(s.mm)
    /\ IsLevel(s.l2.config, s.l2.table, s.mm.data)

\* What the L1 caches get to see.
L2Shows(s) == Shown(s.l2.table, s.mm.data)

LEMMA CountType ==
    ASSUME NEW n \in Counter, NEW condition
    PROVE  Count(condition, n) \in Counter
BY CounterMaxAssumption DEF Count, Increment, Counter

\* An L2 cache that counted a request and got a new table.
Requested(l2cache, hit, prefetch, newTable) ==
    [CountL2Request(l2cache, hit, prefetch) EXCEPT !.table = newTable]

LEMMA RequestedType ==
    ASSUME NEW l2cache, IsL2(l2cache), NEW hit, NEW prefetch, NEW newTable
    PROVE  LET counted == Requested(l2cache, hit, prefetch, newTable)
           IN  /\ IsL2(counted)
               /\ counted.config = l2cache.config
               /\ counted.table = newTable
BY CountType DEF IsL2, L2Counters, CountL2Request, Requested

LEMMA CountL2EvictionType ==
    ASSUME NEW l2cache, IsL2(l2cache), NEW out, NEW prefetch
    PROVE  LET counted == CountL2Eviction(l2cache, out, prefetch)
           IN  /\ IsL2(counted)
               /\ counted.config = l2cache.config
               /\ counted.table = l2cache.table
BY CountType DEF IsL2, L2Counters, CountL2Eviction

LEMMA MemType ==
    ASSUME NEW mem, IsMem(mem)
    PROVE  /\ \A prefetch : /\ IsMem(MemLoad(mem, prefetch))
                            /\ MemLoad(mem, prefetch).data = mem.data
           /\ IsMem(L2Fetch(mem)) /\ L2Fetch(mem).data = mem.data
           /\ \A dtag \in LineTags, d \in Data :
                /\ IsMem(MemStore(mem, dtag, d))
                /\ MemStore(mem, dtag, d).data = [mem.data EXCEPT ![dtag] = d]
BY CountType DEF IsMem, MemLoad, MemStore, L2Fetch

\* The caches after a request that only L2 and the memory saw.
OnlyBelow(s, t) ==
    /\ t.l1d = s.l1d
    /\ t.l1i = s.l1i
    /\ t.l2.config = s.l2.config

LEMMA L2Handled ==
    ASSUME NEW s, IsCaches(s), IsL2(s.l2), IsMem(s.mm), NEW out,
           Flushed(s.l2.config, out) # {} =>
                TheLine(out).tag \in LineTags /\ TheLine(out).data \in Data
    PROVE  LET t == L2HandleWritePolicy(s, out)
           IN  /\ IsCaches(t)
               /\ OnlyBelow(s, t)
               /\ IsL2(t.l2)
               /\ IsMem(t.mm)
               /\ t.l2.table = Settled(s.l2.config, s.l2.table, out)
               /\ t.mm.data = Below(s.l2.config, s.mm.data, out)
<1> DEFINE t == L2HandleWritePolicy(s, out)
           settled == Settled(s.l2.config, s.l2.table, out)
<1>1. /\ DOMAIN t = {"l1d", "l1i", "l2", "mm"}
      /\ t.l1d = s.l1d
      /\ t.l1i = s.l1i
      /\ t.l2 = [s.l2 EXCEPT !.table = settled]
      /\ t.mm = IF Flushed(s.l2.config, out) = {} THEN s.mm
                ELSE MemStore(s.mm, TheLine(out).tag, TheLine(out).data)
  BY DEF L2HandleWritePolicy, IsCaches
<1>2. IsL2(t.l2) /\ t.l2.config = s.l2.config /\ t.l2.table = settled
  BY <1>1 DEF IsL2, L2Counters
<1>3. IsMem(t.mm) /\ t.mm.data = Below(s.l2.config, s.mm.data, out)
  BY <1>1, MemType DEF Below
<1> QED
  BY <1>1, <1>2, <1>3 DEF IsCaches, OnlyBelow

\* L2Cache::load changes nothing of what the L1 caches get to see.
LEMMA L2LoadStep ==
    ASSUME NEW s, L2OK(s), NEW adr \in Asked, NEW prefetch
    PROVE  LET t == L2Load(s, adr, prefetch)
           IN  /\ L2OK(t)
               /\ OnlyBelow(s, t)
               /\ L2Shows(t) = L2Shows(s)
<1> DEFINE c     == s.l2.config
           hit   == InL2(s, adr)
           read  == Read(c, s.l2.table, adr)
           write == Write(c, read, adr, L2Data(s, adr))
           out   == IF hit THEN {} ELSE write.line
           newTable == IF hit THEN read ELSE write.table
           counted == Requested(s.l2, hit, prefetch, newTable)
           u     == [s EXCEPT !.l2 = CountL2Eviction(counted, out, prefetch),
                              !.mm = IF hit THEN @ ELSE MemLoad(@, prefetch)]
           t     == L2HandleWritePolicy(u, out)
<1>1. L2Load(s, adr, prefetch) = t
  BY DEF L2Load, Requested
<1>2. IsConfig(c) /\ IsTable(c, s.l2.table) /\ IsLevel(c, s.l2.table, s.mm.data)
  BY DEF L2OK, IsL2, IsLevel
<1>3. /\ IsL2(CountL2Eviction(counted, out, prefetch))
      /\ CountL2Eviction(counted, out, prefetch).config = c
      /\ CountL2Eviction(counted, out, prefetch).table = newTable
  <2>1. IsL2(s.l2)
    BY DEF L2OK
  <2> HIDE DEF hit, out, newTable
  <2>2. IsL2(counted) /\ counted.config = c /\ counted.table = newTable
    BY <2>1, RequestedType
  <2> HIDE DEF counted, c
  <2> QED
    BY <2>2, CountL2EvictionType
<1>4. /\ IsCaches(u)
      /\ u.l1d = s.l1d
      /\ u.l1i = s.l1i
      /\ u.l2 = CountL2Eviction(counted, out, prefetch)
      /\ u.mm = IF hit THEN s.mm ELSE MemLoad(s.mm, prefetch)
  BY DEF L2OK, IsCaches
<1>5. IsMem(u.mm) /\ u.mm.data = s.mm.data
  BY <1>4, MemType DEF L2OK
<1>6. /\ IsLevel(c, newTable, Below(c, s.mm.data, out))
      /\ Shown(newTable, Below(c, s.mm.data, out)) = L2Shows(s)
      /\ Settled(c, newTable, out) = newTable
      /\ Flushed(c, out) # {} =>
            TheLine(out).tag \in LineTags /\ TheLine(out).data \in Data
  <2>1. CASE hit
    <3>1. IsTable(c, read) /\ LinesOf(read) = LinesOf(s.l2.table)
      BY <1>2, ReadTable
    <3>2. /\ Shown(read, s.mm.data) = Shown(s.l2.table, s.mm.data)
          /\ Clean(read, s.mm.data)
      BY <1>2, <3>1, ShownSameLines DEF IsLevel
    <3>3. out = {} /\ newTable = read
      BY <2>1
    <3>4. Below(c, s.mm.data, out) = s.mm.data
      BY <3>3, NothingReturned DEF Below
    <3> QED
      BY <1>2, <3>1, <3>2, <3>3, <3>4, NothingReturned DEF IsLevel, L2Shows
  <2>2. CASE ~hit
    <3>1. read = s.l2.table /\ L2Data(s, adr) = s.mm.data[DataTag(c, adr)]
      BY <2>2 DEF Read, InL2, L2Data
    <3>2. ~IsCached(c, s.l2.table, adr)
      BY <2>2 DEF InL2
    <3>3. out = write.line /\ newTable = write.table
      BY <2>2
    <3>4. Fills(c, s.l2.table, s.mm.data, adr, write)
      BY <1>2, <3>1, <3>2, AllocateLevel
    <3> QED
      BY <3>3, <3>4 DEF Fills, L2Shows
  <2> QED
    BY <2>1, <2>2
<1> HIDE DEF c, hit, out, newTable, counted, u
<1>7. /\ IsCaches(t)
      /\ OnlyBelow(u, t)
      /\ IsL2(t.l2)
      /\ IsMem(t.mm)
      /\ t.l2.table = Settled(u.l2.config, u.l2.table, out)
      /\ t.mm.data = Below(u.l2.config, u.mm.data, out)
  BY <1>3, <1>4, <1>5, <1>6, L2Handled
<1> HIDE DEF t
<1>8. t.l2.table = newTable /\ t.mm.data = Below(c, s.mm.data, out) /\ t.l2.config = c
  BY <1>3, <1>4, <1>5, <1>6, <1>7 DEF OnlyBelow
<1> QED
  BY <1>1, <1>4, <1>6, <1>7, <1>8 DEF L2OK, OnlyBelow, L2Shows, c

\* L2Cache::store changes the line that is stored in, and no other.
LEMMA L2StoreStep ==
    ASSUME NEW s, L2OK(s), NEW adr \in Asked, NEW d \in Data
    PROVE  LET t == L2Store(s, adr, d)
           IN  /\ L2OK(t)
               /\ OnlyBelow(s, t)
               /\ L2Shows(t) = [L2Shows(s) EXCEPT ![DataTag(s.l2.config, adr)] = d]
<1> DEFINE c     == s.l2.config
           hit   == InL2(s, adr)
           read  == Read(c, s.l2.table, adr)
           alloc == Write(c, read, adr, L2Data(s, adr))
           write == Write(c, IF hit THEN read ELSE alloc.table, adr, d)
           out   == IF hit THEN write.line ELSE alloc.line
           after == Below(c, s.mm.data, out)
           counted == [s.l2 EXCEPT !.table = write.table]
           u     == [s EXCEPT !.l2 = CountL2Eviction([@ EXCEPT !.table = write.table],
                                                     out, FALSE),
                              !.mm = IF hit THEN @ ELSE L2Fetch(@)]
           t     == L2HandleWritePolicy(u, out)
           stored == [L2Shows(s) EXCEPT ![DataTag(c, adr)] = d]
<1>1. L2Store(s, adr, d) = t
  BY DEF L2Store
<1>2. /\ IsConfig(c) /\ IsTable(c, s.l2.table) /\ IsLevel(c, s.l2.table, s.mm.data)
      /\ IsL2(s.l2)
  BY DEF L2OK, IsL2, IsLevel
<1>3. /\ IsL2(CountL2Eviction(counted, out, FALSE))
      /\ CountL2Eviction(counted, out, FALSE).config = c
      /\ CountL2Eviction(counted, out, FALSE).table = write.table
  <2> HIDE DEF out, write
  <2>1. IsL2(counted) /\ counted.config = c /\ counted.table = write.table
    BY <1>2 DEF IsL2, L2Counters
  <2> HIDE DEF counted, c
  <2> QED
    BY <2>1, CountL2EvictionType
<1>4. /\ IsCaches(u)
      /\ u.l1d = s.l1d
      /\ u.l1i = s.l1i
      /\ u.l2 = CountL2Eviction(counted, out, FALSE)
      /\ u.mm = IF hit THEN s.mm ELSE L2Fetch(s.mm)
  BY DEF L2OK, IsCaches
<1>5. IsMem(u.mm) /\ u.mm.data = s.mm.data
  BY <1>4, MemType DEF L2OK
<1>6. /\ IsLevel(c, Settled(c, write.table, out), after)
      /\ Shown(Settled(c, write.table, out), after) = stored
      /\ Flushed(c, out) # {} =>
            TheLine(out).tag \in LineTags /\ TheLine(out).data \in Data
  <2>1. CASE hit
    <3>1. IsTable(c, read) /\ LinesOf(read) = LinesOf(s.l2.table)
      BY <1>2, ReadTable
    <3>2. /\ Shown(read, s.mm.data) = L2Shows(s)
          /\ IsLevel(c, read, s.mm.data)
      BY <1>2, <3>1, ShownSameLines DEF IsLevel, L2Shows
    <3>3. IsCached(c, read, adr)
      BY <1>2, <2>1, <3>1, LinesOfTable DEF InL2
    <3>4. write = Write(c, read, adr, d) /\ out = write.line
      BY <2>1
    <3> HIDE DEF read, alloc, write, out, c
    <3>5. Stores(c, read, s.mm.data, adr, d, write)
      BY <1>2, <3>2, <3>3, <3>4, StoreHitLevel
    <3>6. DataTag(c, adr) \in LineTags
      BY <1>2, AskedProperties
    <3> QED
      BY <3>2, <3>4, <3>5, <3>6 DEF Stores
  <2>2. CASE ~hit
    <3>1. read = s.l2.table /\ L2Data(s, adr) = s.mm.data[DataTag(c, adr)]
      BY <2>2 DEF Read, InL2, L2Data
    <3>2. ~IsCached(c, s.l2.table, adr)
      BY <2>2 DEF InL2
    <3>3. write = Write(c, alloc.table, adr, d) /\ out = alloc.line
      BY <2>2
    <3>4. Fills(c, s.l2.table, s.mm.data, adr, alloc)
      BY <1>2, <3>1, <3>2, AllocateLevel
    <3>5. /\ IsLevel(c, alloc.table, after)
          /\ Shown(alloc.table, after) = L2Shows(s)
          /\ IsCached(c, alloc.table, adr)
          /\ Settled(c, write.table, out) = write.table
      BY <3>3, <3>4, SMTT(30) DEF Fills, L2Shows
    <3> HIDE DEF alloc, after, read, out, c
    <3>6. /\ IsLevel(c, write.table, after)
          /\ Shown(write.table, after) = [Shown(alloc.table, after) EXCEPT ![DataTag(c, adr)] = d]
      BY <1>2, <3>3, <3>5, RewriteLevel
    <3> QED
      BY <3>3, <3>4, <3>5, <3>6 DEF Fills
  <2> QED
    BY <2>1, <2>2
<1> HIDE DEF c, hit, out, write, counted, u, after, stored
<1>7. /\ IsCaches(t)
      /\ OnlyBelow(u, t)
      /\ IsL2(t.l2)
      /\ IsMem(t.mm)
      /\ t.l2.table = Settled(u.l2.config, u.l2.table, out)
      /\ t.mm.data = Below(u.l2.config, u.mm.data, out)
  BY <1>3, <1>4, <1>5, <1>6, L2Handled
<1> HIDE DEF t
<1>8. t.l2.table = Settled(c, write.table, out) /\ t.mm.data = after /\ t.l2.config = c
  BY <1>3, <1>4, <1>5, <1>7 DEF OnlyBelow, after
<1> QED
  BY <1>1, <1>4, <1>6, <1>7, <1>8 DEF L2OK, OnlyBelow, L2Shows, c, stored

\* A table that has the line of an address holds what it shows of it.
LEMMA DataInShown ==
    ASSUME NEW c, IsConfig(c), NEW table, IsTable(c, table), NEW below,
           NEW adr \in Asked, IsCached(c, table, adr)
    PROVE  DataIn(c, table, adr) = Shown(table, below)[Tag(adr)]
<1> DEFINE set  == table[LocTag(c, adr)]
           line == set[EntryOf(set, DataTag(c, adr))]
<1>1. line \in LinesOf(table) /\ line.tag = DataTag(c, adr)
  BY CachedEntry
<1>2. DataIn(c, table, adr) = line.data
  BY DEF DataIn, SetOf
<1> HIDE DEF line
<1>3. DataTag(c, adr) = Tag(adr)
  BY AskedProperties
<1> QED
  BY <1>1, <1>2, <1>3, ShownLines

LEMMA NotCachedShown ==
    ASSUME NEW c, IsConfig(c), NEW table, IsTable(c, table), NEW below,
           NEW adr \in Asked, ~IsCached(c, table, adr)
    PROVE  Shown(table, below)[Tag(adr)] = below[Tag(adr)]
<1>1. DataTag(c, adr) = Tag(adr) /\ Tag(adr) \in LineTags
  BY AskedProperties
<1>2. \A line \in LinesOf(table) : line.tag # Tag(adr)
  BY <1>1, LinesOfTable
<1> QED
  BY <1>1, <1>2, ShownLines

\* What a load brings from L2 is what L2 shows of the line.
LEMMA L2DataShown ==
    ASSUME NEW s, L2OK(s), NEW adr \in Asked
    PROVE  L2Data(s, adr) = L2Shows(s)[Tag(adr)] /\ L2Data(s, adr) \in Data
<1>1. IsConfig(s.l2.config) /\ IsTable(s.l2.config, s.l2.table)
  BY DEF L2OK, IsL2, IsLevel
<1>2. DataTag(s.l2.config, adr) = Tag(adr) /\ Tag(adr) \in LineTags
  BY <1>1, AskedProperties
<1>3. L2Data(s, adr) = L2Shows(s)[Tag(adr)]
  <2>1. CASE InL2(s, adr)
    BY <1>1, <2>1, DataInShown DEF L2Data, InL2, L2Shows
  <2>2. CASE ~InL2(s, adr)
    BY <1>1, <1>2, <2>2, NotCachedShown DEF L2Data, InL2, L2Shows
  <2> QED
    BY <2>1, <2>2
<1>4. L2Shows(s) \in [LineTags -> Data]
  BY <1>1, ShownLines DEF L2Shows, L2OK, IsLevel
<1> QED
  BY <1>2, <1>3, <1>4

------------------------------------------------------------------------------
(* The L1 data cache over the L2 cache *)

L1DCounters ==
    {"loadAccess", "loadHit", "storeAccess", "storeHit", "prefetchAccess",
     "prefetchHit", "loadedCachelines", "modifiedLinesEvacuated", "writebacksToL2"}

\* The fields of an L1 data cache other than its lines.
IsL1D(cache) ==
    /\ DOMAIN cache = {"config", "table", "recentlyLoadedLines"} \cup L1DCounters
    /\ IsConfig(cache.config)
    /\ \A field \in L1DCounters : cache[field] \in Counter
    /\ cache.recentlyLoadedLines \in Seq(Addresses)
    /\ Len(cache.recentlyLoadedLines) <= HistoryMax

\* The data cache is well formed, and what it does not mark as dirty is what
\* L2 shows.
L1DOK(s) ==
    /\ IsL1D(s.l1d)
    /\ IsLevel(s.l1d.config, s.l1d.table, L2Shows(s))

\* What the program gets to see.
L1DShows(s) == Shown(s.l1d.table, L2Shows(s))

\* The caches after a request to the data cache.
OnlyL1DAndBelow(s, t) ==
    /\ t.l1i = s.l1i
    /\ t.l1d.config = s.l1d.config
    /\ t.l2.config = s.l2.config

LEMMA HistoryType ==
    ASSUME NEW list \in Seq(Addresses), Len(list) <= HistoryMax, NEW adr \in Addresses
    PROVE  /\ AddAccess(list, HistoryMax, adr) \in Seq(Addresses)
           /\ Len(AddAccess(list, HistoryMax, adr)) <= HistoryMax
<1>1. Len(list) \in Nat /\ HistoryMax \in Nat \ {0}
  BY LenProperties, HistoryMaxAssumption
<1>2. CASE Len(list) >= HistoryMax
  <2>1. list # << >>
    BY <1>1, <1>2, EmptySeq
  <2>2. Tail(list) \in Seq(Addresses) /\ Len(Tail(list)) = Len(list) - 1
    BY <2>1, HeadTailProperties
  <2>3. /\ Append(Tail(list), adr) \in Seq(Addresses)
        /\ Len(Append(Tail(list), adr)) = Len(Tail(list)) + 1
    BY <2>2, AppendProperties
  <2>4. AddAccess(list, HistoryMax, adr) = Append(Tail(list), adr)
    BY <1>2 DEF AddAccess
  <2> HIDE DEF AddAccess
  <2> QED
    BY <1>1, <1>2, <2>2, <2>3, <2>4
<1>3. CASE ~(Len(list) >= HistoryMax)
  <2>1. Append(list, adr) \in Seq(Addresses) /\ Len(Append(list, adr)) = Len(list) + 1
    BY AppendProperties
  <2>2. AddAccess(list, HistoryMax, adr) = Append(list, adr)
    BY <1>3 DEF AddAccess
  <2> QED
    BY <1>1, <1>3, <2>1, <2>2
<1> QED
  BY <1>2, <1>3

\* L1DCache::handleWritePolicy: the line goes into L2, whatever that does there.
LEMMA L1DHandled ==
    ASSUME NEW s, L2OK(s), IsL1D(s.l1d), NEW out,
           Flushed(s.l1d.config, out) # {} =>
                TheLine(out).tag \in LineTags /\ TheLine(out).data \in Data
    PROVE  LET t == L1DHandleWritePolicy(s, out)
           IN  /\ L2OK(t)
               /\ IsL1D(t.l1d)
               /\ OnlyL1DAndBelow(s, t)
               /\ t.l1d.table = Settled(s.l1d.config, s.l1d.table, out)
               /\ L2Shows(t) = Below(s.l1d.config, L2Shows(s), out)
<1> DEFINE c == s.l1d.config
           stored == Flushed(c, out) # {}
           settled ==
            [s EXCEPT
                !.l1d.table = Settled(s.l1d.config, @, out),
                !.l1d.writebacksToL2 =
                    Count(stored /\ s.l1d.config.writePolicy = WRITE_BACK, @)]
           t == L1DHandleWritePolicy(s, out)
<1>1. IsCaches(settled) /\ settled.l1i = s.l1i /\ settled.l2 = s.l2 /\ settled.mm = s.mm
  BY DEF L2OK, IsCaches
<1>2. /\ IsL1D(settled.l1d)
      /\ settled.l1d.config = c
      /\ settled.l1d.table = Settled(c, s.l1d.table, out)
  BY CountType DEF IsL1D, L1DCounters, L2OK, IsCaches
<1>3. t = IF stored THEN L2Store(settled, TheLine(out).tag, TheLine(out).data)
                    ELSE settled
  BY DEF L1DHandleWritePolicy
<1> HIDE DEF settled, t
<1>4. L2OK(settled) /\ L2Shows(settled) = L2Shows(s)
  BY <1>1 DEF L2OK, L2Shows
<1>5. CASE stored
  <2>1. TheLine(out).tag \in Asked /\ TheLine(out).data \in Data
    BY <1>5 DEF Asked
  <2>2. /\ L2OK(t)
        /\ OnlyBelow(settled, t)
        /\ L2Shows(t) = [L2Shows(s) EXCEPT
                            ![DataTag(s.l2.config, TheLine(out).tag)] = TheLine(out).data]
    BY <1>1, <1>3, <1>4, <1>5, <2>1, L2StoreStep
  <2>3. DataTag(s.l2.config, TheLine(out).tag) = TheLine(out).tag
    BY <1>5, <2>1, AskedProperties DEF L2OK, IsL2
  <2> QED
    BY <1>1, <1>2, <1>5, <2>2, <2>3 DEF OnlyBelow, OnlyL1DAndBelow, Below, t
<1>6. CASE ~stored
  BY <1>1, <1>2, <1>3, <1>4, <1>6 DEF OnlyL1DAndBelow, Below, t
<1> QED
  BY <1>5, <1>6

\* How load and store of the data cache end: with the state b of the levels
\* below, the data cache that counted and what write returned.
Ending(b, cache, out, stale) ==
    CountModified(L1DHandleWritePolicy([b EXCEPT !.l1d = cache], out), out, stale)

LEMMA EndingStep ==
    ASSUME NEW b, L2OK(b), NEW cache, IsL1D(cache), NEW out, NEW stale,
           Flushed(cache.config, out) # {} =>
                TheLine(out).tag \in LineTags /\ TheLine(out).data \in Data,
           IsLevel(cache.config, Settled(cache.config, cache.table, out),
                   Below(cache.config, L2Shows(b), out))
    PROVE  LET t == Ending(b, cache, out, stale)
           IN  /\ L2OK(t)
               /\ L1DOK(t)
               /\ t.l1i = b.l1i
               /\ t.l1d.config = cache.config
               /\ t.l2.config = b.l2.config
               /\ L2Shows(t) = Below(cache.config, L2Shows(b), out)
               /\ L1DShows(t) = Shown(Settled(cache.config, cache.table, out),
                                      Below(cache.config, L2Shows(b), out))
<1> DEFINE u == [b EXCEPT !.l1d = cache]
           h == L1DHandleWritePolicy(u, out)
           t == CountModified(h, out, stale)
<1>1. IsCaches(u) /\ u.l1d = cache /\ u.l1i = b.l1i /\ u.l2 = b.l2 /\ u.mm = b.mm
  BY DEF L2OK, IsCaches
<1> HIDE DEF u
<1>2. L2OK(u) /\ L2Shows(u) = L2Shows(b)
  BY <1>1 DEF L2OK, L2Shows
<1>3. /\ L2OK(h)
      /\ IsL1D(h.l1d)
      /\ OnlyL1DAndBelow(u, h)
      /\ h.l1d.table = Settled(u.l1d.config, u.l1d.table, out)
      /\ L2Shows(h) = Below(u.l1d.config, L2Shows(u), out)
  BY <1>1, <1>2, L1DHandled
<1> HIDE DEF h
<1>4. /\ IsCaches(t) /\ t.l1i = h.l1i /\ t.l2 = h.l2 /\ t.mm = h.mm
      /\ IsL1D(t.l1d)
      /\ t.l1d.config = h.l1d.config
      /\ t.l1d.table = h.l1d.table
  BY <1>3, CountType DEF CountModified, L2OK, IsCaches, IsL1D, L1DCounters
<1> HIDE DEF t
<1>5. L2OK(t) /\ L2Shows(t) = L2Shows(h)
  BY <1>3, <1>4 DEF L2OK, L2Shows
<1>6. /\ t.l1i = b.l1i
      /\ t.l1d.config = cache.config
      /\ t.l2.config = b.l2.config
      /\ t.l1d.table = Settled(cache.config, cache.table, out)
      /\ L2Shows(t) = Below(cache.config, L2Shows(b), out)
  BY <1>1, <1>2, <1>3, <1>4, <1>5 DEF OnlyL1DAndBelow
<1>7. Ending(b, cache, out, stale) = t
  BY DEF Ending, t, h, u
<1> QED
  BY <1>4, <1>5, <1>6, <1>7 DEF L1DOK, L1DShows

\* The data cache after the counters of load.
LoadCounted(cache, hit, prefetch, adr, newTable) ==
    [cache EXCEPT
        !.table            = newTable,
        !.recentlyLoadedLines =
            IF hit \/ prefetch THEN @ ELSE AddAccess(@, HistoryMax, adr),
        !.prefetchAccess   = Count(prefetch, @),
        !.loadAccess       = Count(~prefetch, @),
        !.prefetchHit      = Count(hit /\ prefetch, @),
        !.loadHit          = Count(hit /\ ~prefetch, @),
        !.loadedCachelines = Count(~hit, @)]

LEMMA LoadCountedType ==
    ASSUME NEW cache, IsL1D(cache), NEW hit, NEW prefetch, NEW adr \in Addresses,
           NEW newTable
    PROVE  LET counted == LoadCounted(cache, hit, prefetch, adr, newTable)
           IN  /\ IsL1D(counted)
               /\ counted.config = cache.config
               /\ counted.table = newTable
<1> DEFINE counted == LoadCounted(cache, hit, prefetch, adr, newTable)
<1>1. /\ DOMAIN counted = DOMAIN cache
      /\ counted.config = cache.config
      /\ counted.table = newTable
      /\ \A field \in L1DCounters : counted[field] \in Counter
  BY CountType DEF IsL1D, L1DCounters, LoadCounted
<1>2. counted.recentlyLoadedLines =
        IF hit \/ prefetch THEN cache.recentlyLoadedLines
        ELSE AddAccess(cache.recentlyLoadedLines, HistoryMax, adr)
  BY DEF IsL1D, LoadCounted
<1> HIDE DEF counted
<1>3. /\ counted.recentlyLoadedLines \in Seq(Addresses)
      /\ Len(counted.recentlyLoadedLines) <= HistoryMax
  BY <1>2, HistoryType DEF IsL1D
<1> QED
  BY <1>1, <1>3 DEF IsL1D, counted

\* L1DCache::load changes nothing of what the program gets to see.
LEMMA L1DLoadStep ==
    ASSUME NEW s, L2OK(s), L1DOK(s), NEW adr \in Addresses, NEW prefetch, NEW stale
    PROVE  LET t == L1DLoad(s, adr, prefetch, stale)
           IN  /\ L2OK(t)
               /\ L1DOK(t)
               /\ OnlyL1DAndBelow(s, t)
               /\ L1DShows(t) = L1DShows(s)
<1> DEFINE c     == s.l1d.config
           hit   == InL1D(s, adr)
           read  == Read(c, s.l1d.table, adr)
           write == Write(c, read, adr, L2Data(s, adr))
           out   == IF hit THEN {} ELSE write.line
           b     == IF hit THEN s ELSE L2Load(s, adr, prefetch)
           newTable == IF hit THEN read ELSE write.table
           counted  == LoadCounted(s.l1d, hit, prefetch, adr, newTable)
           t     == Ending(b, counted, out, stale)
           after == Below(c, L2Shows(b), out)
<1>1. L1DLoad(s, adr, prefetch, stale) = t
  BY DEF L1DLoad, LoadCounted, Ending
<1>2. /\ IsConfig(c) /\ IsTable(c, s.l1d.table)
      /\ IsLevel(c, s.l1d.table, L2Shows(s))
      /\ adr \in Asked
      /\ DataTag(c, adr) = Tag(adr)
      /\ IsL1D(s.l1d)
  BY AskedProperties DEF L1DOK, IsL1D, IsLevel, Asked
<1>3. /\ L2OK(b)
      /\ b.l1d = s.l1d /\ b.l1i = s.l1i /\ b.l2.config = s.l2.config
      /\ L2Shows(b) = L2Shows(s)
  BY <1>2, L2LoadStep DEF OnlyBelow
<1>4. /\ IsLevel(c, Settled(c, newTable, out), after)
      /\ Shown(Settled(c, newTable, out), after) = L1DShows(s)
      /\ Flushed(c, out) # {} =>
            TheLine(out).tag \in LineTags /\ TheLine(out).data \in Data
  <2> HIDE DEF b
  <2>1. CASE hit
    <3>1. IsTable(c, read) /\ LinesOf(read) = LinesOf(s.l1d.table)
      BY <1>2, ReadTable
    <3>2. /\ Shown(read, L2Shows(s)) = Shown(s.l1d.table, L2Shows(s))
          /\ Clean(read, L2Shows(s))
      BY <1>2, <3>1, ShownSameLines DEF IsLevel
    <3>3. out = {} /\ newTable = read
      BY <2>1
    <3>4. after = L2Shows(s) /\ Settled(c, newTable, out) = read
      BY <1>3, <3>3, NothingReturned DEF Below
    <3>5. Flushed(c, out) = {}
      BY <3>3, NothingReturned
    <3> QED
      BY <1>2, <3>1, <3>2, <3>4, <3>5 DEF IsLevel, L1DShows
  <2>2. CASE ~hit
    <3>1. read = s.l1d.table /\ L2Data(s, adr) = L2Shows(s)[DataTag(c, adr)]
      BY <1>2, <2>2, L2DataShown DEF Read, InL1D
    <3>2. ~IsCached(c, s.l1d.table, adr)
      BY <2>2 DEF InL1D
    <3>3. out = write.line /\ newTable = write.table
      BY <2>2
    <3>4. Fills(c, s.l1d.table, L2Shows(s), adr, write)
      BY <1>2, <3>1, <3>2, AllocateLevel
    <3>5. after = Below(c, L2Shows(s), write.line)
      BY <1>3, <3>3
    <3> HIDE DEF out, newTable, after, write, c
    <3> QED
      BY <3>3, <3>4, <3>5 DEF Fills, L1DShows
  <2> QED
    BY <2>1, <2>2
<1> HIDE DEF c, hit, out, newTable, b, after
<1>5. IsL1D(counted) /\ counted.config = c /\ counted.table = newTable
  BY <1>2, LoadCountedType DEF c
<1> HIDE DEF counted
<1>6. /\ IsLevel(counted.config, Settled(counted.config, counted.table, out),
                 Below(counted.config, L2Shows(b), out))
      /\ Flushed(counted.config, out) # {} =>
            TheLine(out).tag \in LineTags /\ TheLine(out).data \in Data
  BY <1>4, <1>5 DEF after
<1>7. /\ L2OK(t)
      /\ L1DOK(t)
      /\ t.l1i = b.l1i
      /\ t.l1d.config = counted.config
      /\ t.l2.config = b.l2.config
      /\ L1DShows(t) = Shown(Settled(counted.config, counted.table, out),
                             Below(counted.config, L2Shows(b), out))
  BY <1>3, <1>5, <1>6, EndingStep
<1> HIDE DEF t
<1> QED
  BY <1>1, <1>3, <1>4, <1>5, <1>7 DEF OnlyL1DAndBelow, c, after

\* The data cache after the counters of store.
StoreCounted(cache, hit, newTable) ==
    [cache EXCEPT
        !.table            = newTable,
        !.storeAccess      = Count(TRUE, @),
        !.storeHit         = Count(hit, @),
        !.loadedCachelines = Count(~hit, @)]

LEMMA StoreCountedType ==
    ASSUME NEW cache, IsL1D(cache), NEW hit, NEW newTable
    PROVE  LET counted == StoreCounted(cache, hit, newTable)
           IN  /\ IsL1D(counted)
               /\ counted.config = cache.config
               /\ counted.table = newTable
BY CountType DEF IsL1D, L1DCounters, StoreCounted

\* L1DCache::store changes the line that is stored in, and no other; with
\* WRITE_THROUGH a store that hits changes it in L2.
LEMMA L1DStoreStep ==
    ASSUME NEW s, L2OK(s), L1DOK(s), NEW adr \in Addresses, NEW d \in Data, NEW stale
    PROVE  LET t == L1DStore(s, adr, d, stale)
           IN  /\ L2OK(t)
               /\ L1DOK(t)
               /\ OnlyL1DAndBelow(s, t)
               /\ L1DShows(t) = [L1DShows(s) EXCEPT ![Tag(adr)] = d]
               /\ InL1D(s, adr) /\ s.l1d.config.writePolicy = WRITE_THROUGH =>
                    L2Shows(t)[Tag(adr)] = d
<1> DEFINE c     == s.l1d.config
           hit   == InL1D(s, adr)
           read  == Read(c, s.l1d.table, adr)
           alloc == Write(c, read, adr, L2Data(s, adr))
           write == Write(c, IF hit THEN read ELSE alloc.table, adr, d)
           out   == IF hit THEN write.line ELSE alloc.line
           b     == IF hit THEN s ELSE L2Load(s, adr, FALSE)
           counted == StoreCounted(s.l1d, hit, write.table)
           t     == Ending(b, counted, out, stale)
           after == Below(c, L2Shows(b), out)
           stored == [L1DShows(s) EXCEPT ![Tag(adr)] = d]
<1>1. L1DStore(s, adr, d, stale) = t
  BY DEF L1DStore, StoreCounted, Ending
<1>2. /\ IsConfig(c) /\ IsTable(c, s.l1d.table)
      /\ IsLevel(c, s.l1d.table, L2Shows(s))
      /\ adr \in Asked
      /\ DataTag(c, adr) = Tag(adr)
      /\ Tag(adr) \in LineTags
      /\ IsL1D(s.l1d)
  BY AskedProperties DEF L1DOK, IsL1D, IsLevel, Asked
<1>3. /\ L2OK(b)
      /\ b.l1d = s.l1d /\ b.l1i = s.l1i /\ b.l2.config = s.l2.config
      /\ L2Shows(b) = L2Shows(s)
  BY <1>2, L2LoadStep, Zenon DEF OnlyBelow
<1>4. /\ IsLevel(c, Settled(c, write.table, out), after)
      /\ Shown(Settled(c, write.table, out), after) = stored
      /\ Flushed(c, out) # {} =>
            TheLine(out).tag \in LineTags /\ TheLine(out).data \in Data
      /\ hit /\ c.writePolicy = WRITE_THROUGH => after[Tag(adr)] = d
  <2> HIDE DEF b
  <2>1. CASE hit
    <3>1. IsTable(c, read) /\ LinesOf(read) = LinesOf(s.l1d.table)
      BY <1>2, ReadTable
    <3>2. /\ Shown(read, L2Shows(s)) = L1DShows(s)
          /\ IsLevel(c, read, L2Shows(s))
      BY <1>2, <3>1, ShownSameLines DEF IsLevel, L1DShows
    <3>3. IsCached(c, read, adr)
      BY <1>2, <2>1, <3>1, LinesOfTable DEF InL1D
    <3>4. write = Write(c, read, adr, d) /\ out = write.line
      BY <2>1
    <3> HIDE DEF read, alloc, write, out, c
    <3>5. Stores(c, read, L2Shows(s), adr, d, write)
      BY <1>2, <3>2, <3>3, <3>4, StoreHitLevel
    <3> QED
      BY <1>2, <1>3, <3>2, <3>4, <3>5 DEF Stores
  <2>2. CASE ~hit
    <3>1. read = s.l1d.table /\ L2Data(s, adr) = L2Shows(s)[DataTag(c, adr)]
      BY <1>2, <2>2, L2DataShown DEF Read, InL1D
    <3>2. ~IsCached(c, s.l1d.table, adr)
      BY <2>2 DEF InL1D
    <3>3. write = Write(c, alloc.table, adr, d) /\ out = alloc.line
      BY <2>2
    <3>4. Fills(c, s.l1d.table, L2Shows(s), adr, alloc)
      BY <1>2, <3>1, <3>2, AllocateLevel
    <3>5. /\ IsLevel(c, alloc.table, after)
          /\ Shown(alloc.table, after) = L1DShows(s)
          /\ IsCached(c, alloc.table, adr)
          /\ Settled(c, write.table, out) = write.table
      BY <1>3, <3>3, <3>4 DEF Fills, L1DShows
    <3> HIDE DEF alloc, after, read, out, c
    <3>6. /\ IsLevel(c, write.table, after)
          /\ Shown(write.table, after) = [Shown(alloc.table, after) EXCEPT ![DataTag(c, adr)] = d]
      BY <1>2, <3>3, <3>5, RewriteLevel
    <3> QED
      BY <1>2, <2>2, <3>3, <3>4, <3>5, <3>6 DEF Fills
  <2> QED
    BY <2>1, <2>2
<1> HIDE DEF c, hit, out, write, b, after, stored
<1>5. IsL1D(counted) /\ counted.config = c /\ counted.table = write.table
  BY <1>2, StoreCountedType DEF c
<1> HIDE DEF counted
<1>6. /\ IsLevel(counted.config, Settled(counted.config, counted.table, out),
                 Below(counted.config, L2Shows(b), out))
      /\ Flushed(counted.config, out) # {} =>
            TheLine(out).tag \in LineTags /\ TheLine(out).data \in Data
  BY <1>4, <1>5 DEF after
<1>7. /\ L2OK(t)
      /\ L1DOK(t)
      /\ t.l1i = b.l1i
      /\ t.l1d.config = counted.config
      /\ t.l2.config = b.l2.config
      /\ L2Shows(t) = Below(counted.config, L2Shows(b), out)
      /\ L1DShows(t) = Shown(Settled(counted.config, counted.table, out),
                             Below(counted.config, L2Shows(b), out))
  BY <1>3, <1>5, <1>6, EndingStep
<1> HIDE DEF t
<1> QED
  BY <1>1, <1>3, <1>4, <1>5, <1>7 DEF OnlyL1DAndBelow, c, after, hit, stored

------------------------------------------------------------------------------
(* The L1 instruction cache over the L2 cache *)

L1ICounters == {"loadAccess", "loadHit"}

IsL1I(cache) ==
    /\ DOMAIN cache = {"config", "table"} \cup L1ICounters
    /\ IsConfig(cache.config)
    /\ \A field \in L1ICounters : cache[field] \in Counter

\* The instruction cache is well formed, and none of its lines is dirty: it is
\* never asked to store.
L1IOK(s) ==
    /\ IsL1I(s.l1i)
    /\ IsTable(s.l1i.config, s.l1i.table)
    /\ \A line \in LinesOf(s.l1i.table) : ~line.invalid

\* An instruction cache that counted a load and got a new table.
FetchCounted(cache, hit, newTable) ==
    [cache EXCEPT !.table      = newTable,
                  !.loadAccess = Count(TRUE, @),
                  !.loadHit    = Count(hit, @)]

\* L1ICache::load stores nothing: L2 sees a load or no request at all.
LEMMA L1ILoadStep ==
    ASSUME NEW s, L2OK(s), L1IOK(s), NEW ip \in Instructions
    PROVE  LET t == L1ILoad(s, ip)
           IN  /\ L2OK(t)
               /\ L1IOK(t)
               /\ t.l1d = s.l1d
               /\ t.l1i.config = s.l1i.config
               /\ t.l2.config = s.l2.config
               /\ L2Shows(t) = L2Shows(s)
<1> DEFINE c     == s.l1i.config
           hit   == InL1I(s, ip)
           read  == Read(c, s.l1i.table, ip)
           write == Write(c, read, ip, InitData)
           out   == IF hit THEN {} ELSE write.line
           b     == IF hit THEN s ELSE L2Load(s, ip, FALSE)
           newTable == IF hit THEN read ELSE write.table
           counted == FetchCounted(s.l1i, hit, newTable)
           u     == [b EXCEPT !.l1i = counted]
           t     == L1IHandleWritePolicy(u, out)
<1>1. L1ILoad(s, ip) = t
  BY DEF L1ILoad, FetchCounted
<1>2. /\ IsConfig(c) /\ IsTable(c, s.l1i.table)
      /\ \A line \in LinesOf(s.l1i.table) : ~line.invalid
      /\ ip \in Asked
      /\ IsL1I(s.l1i)
  BY DEF L1IOK, IsL1I, Asked
<1>3. /\ L2OK(b)
      /\ b.l1d = s.l1d /\ b.l1i = s.l1i /\ b.l2.config = s.l2.config
      /\ L2Shows(b) = L2Shows(s)
  BY <1>2, L2LoadStep, Zenon DEF OnlyBelow
<1>4. /\ IsTable(c, newTable)
      /\ \A line \in LinesOf(newTable) : ~line.invalid
      /\ Flushed(c, out) = {}
      /\ Settled(c, newTable, out) = newTable
  <2>1. CASE hit
    <3>1. IsTable(c, read) /\ LinesOf(read) = LinesOf(s.l1i.table)
      BY <1>2, ReadTable
    <3> QED
      BY <1>2, <2>1, <3>1, NothingReturned
  <2>2. CASE ~hit
    <3> DEFINE n == NewCacheLine(DataTag(c, ip), InitData)
    <3>1. read = s.l1i.table /\ ~IsCached(c, s.l1i.table, ip)
      BY <2>2 DEF Read, InL1I
    <3>2. out = write.line /\ newTable = write.table
      BY <2>2
    <3>3. PICK V \in SUBSET LinesOf(s.l1i.table) : Evicts(c, s.l1i.table, V, n, write)
      BY <1>2, <3>1, WriteMiss, InitDataAssumption
    <3>4. ~n.invalid
      BY DEF NewCacheLine
    <3> HIDE DEF n, write, out, newTable, c
    <3>5. IsTable(c, newTable) /\ \A line \in LinesOf(newTable) : ~line.invalid
      BY <1>2, <3>2, <3>3, <3>4 DEF Evicts
    <3>6. CASE V = {}
      <4>1. out = {}
        BY <3>2, <3>3, <3>6 DEF Evicts
      <4> QED
        BY <3>5, <4>1, NothingReturned
    <3>7. CASE \E v \in V : V = {v}
      <4>1. PICK v \in V : V = {v}
        BY <3>7
      <4>2. out = {SetEvacuated(v)}
        BY <3>2, <3>3, <4>1 DEF Evicts
      <4>3. v \in Lines /\ ~v.invalid
        BY <1>2, LinesOfTable
      <4> QED
        BY <3>5, <4>2, <4>3, Evacuated
    <3> QED
      BY <3>3, <3>6, <3>7 DEF Evicts
  <2> QED
    BY <2>1, <2>2
<1> HIDE DEF c, hit, out, newTable, b
<1>5. IsL1I(counted) /\ counted.config = c /\ counted.table = newTable
  BY <1>2, CountType DEF IsL1I, L1ICounters, FetchCounted, c
<1> HIDE DEF counted
<1>6. IsCaches(u) /\ u.l1d = b.l1d /\ u.l1i = counted /\ u.l2 = b.l2 /\ u.mm = b.mm
  BY <1>3 DEF L2OK, IsCaches
<1> HIDE DEF u
<1>7. t = [u EXCEPT !.l1i.table = newTable]
  BY <1>4, <1>5, <1>6 DEF L1IHandleWritePolicy
<1> HIDE DEF t
<1>8. /\ IsCaches(t) /\ t.l1d = s.l1d /\ t.l2 = b.l2 /\ t.mm = b.mm
      /\ IsL1I(t.l1i) /\ t.l1i.config = c /\ t.l1i.table = newTable
  BY <1>3, <1>5, <1>6, <1>7 DEF IsCaches, IsL1I, L1ICounters
<1>9. L2OK(t) /\ L2Shows(t) = L2Shows(s)
  BY <1>3, <1>8 DEF L2OK, L2Shows
<1> QED
  BY <1>1, <1>3, <1>4, <1>8, <1>9 DEF L1IOK, c

------------------------------------------------------------------------------
(* Requests *)

Configs(s) == [l1d |-> s.l1d.config, l1i |-> s.l1i.config, l2 |-> s.l2.config]

Sound(s) ==
    /\ L2OK(s)
    /\ L1DOK(s)
    /\ L1IOK(s)
    /\ Configs(s) \in Hierarchies

LEMMA SoundDataRequest ==
    ASSUME NEW s, Sound(s), NEW adr \in Addresses, NEW prefetch, NEW stale,
           NEW d \in Data
    PROVE  /\ Sound(L1DLoad(s, adr, prefetch, stale))
           /\ Sound(L1DStore(s, adr, d, stale))
<1>1. ASSUME NEW t, L2OK(t), L1DOK(t), OnlyL1DAndBelow(s, t)
      PROVE  Sound(t)
  <2>1. t.l1i = s.l1i /\ Configs(t) = Configs(s)
    BY <1>1 DEF OnlyL1DAndBelow, Configs
  <2> QED
    BY <1>1, <2>1 DEF Sound, L1IOK
<1>2. Sound(L1DLoad(s, adr, prefetch, stale))
  <2> DEFINE t == L1DLoad(s, adr, prefetch, stale)
  <2>1. L2OK(t) /\ L1DOK(t) /\ OnlyL1DAndBelow(s, t)
    BY L1DLoadStep DEF Sound
  <2> QED
    BY <1>1, <2>1
<1>3. Sound(L1DStore(s, adr, d, stale))
  <2> DEFINE t == L1DStore(s, adr, d, stale)
  <2>1. L2OK(t) /\ L1DOK(t) /\ OnlyL1DAndBelow(s, t)
    BY L1DStoreStep DEF Sound
  <2> QED
    BY <1>1, <2>1
<1> QED
  BY <1>2, <1>3

LEMMA SoundFetch ==
    ASSUME NEW s, Sound(s), NEW ip \in Instructions
    PROVE  /\ Sound(L1ILoad(s, ip))
           /\ L1DShows(L1ILoad(s, ip)) = L1DShows(s)
<1> DEFINE t == L1ILoad(s, ip)
<1>1. /\ L2OK(t)
      /\ L1IOK(t)
      /\ t.l1d = s.l1d
      /\ t.l1i.config = s.l1i.config
      /\ t.l2.config = s.l2.config
      /\ L2Shows(t) = L2Shows(s)
  BY L1ILoadStep DEF Sound
<1> HIDE DEF t
<1>2. Configs(t) = Configs(s)
  BY <1>1 DEF Configs
<1>3. L1DOK(t) /\ L1DShows(t) = L1DShows(s)
  BY <1>1 DEF Sound, L1DOK, L1DShows
<1> QED
  BY <1>1, <1>2, <1>3 DEF Sound, t

\* The levels of the caches are 1 and 2, and every configuration is one of the
\* accessor's.
LEMMA ConfigsProperties ==
    ASSUME NEW configs \in Hierarchies
    PROVE  /\ IsConfig(configs.l1d) /\ configs.l1d.cacheLevel = 1
           /\ IsConfig(configs.l1i) /\ configs.l1i.cacheLevel = 1
           /\ IsConfig(configs.l2) /\ configs.l2.cacheLevel = 2
BY HierarchiesAssumption DEF IsConfig

\* What a request returns, and that L1HIT is returned by hits alone.
LEMMA Results ==
    ASSUME NEW s, Sound(s), NEW adr, NEW prefetch
    PROVE  /\ L1DLoadResult(s, adr, prefetch) \in CacheOperationResult
           /\ L1DLoadResult(s, adr, prefetch) = L1HIT => InL1D(s, adr)
           /\ L1ILoadResult(s, adr) \in CacheOperationResult
<1>1. s.l1d.config.cacheLevel = 1 /\ s.l1i.config.cacheLevel = 1 /\ s.l2.config.cacheLevel = 2
  BY ConfigsProperties DEF Sound, Configs
<1>2. L2LoadResult(s, adr, prefetch) \in {0, 2, 4}
  BY <1>1 DEF L2LoadResult, MemLoadResult, MISS, PREFETCH_MISS
<1>3. L2LoadResult(s, adr, FALSE) \in {0, 2, 4}
  BY <1>1 DEF L2LoadResult, MemLoadResult, MISS, PREFETCH_MISS
<1>4. {0, 1, 2, 4} \subseteq CacheOperationResult
  BY DEF CacheOperationResult
<1>5. /\ L1DLoadResult(s, adr, prefetch) \in {0, 1, 2, 4}
      /\ L1DLoadResult(s, adr, prefetch) = 1 => InL1D(s, adr)
  <2>1. CASE InL1D(s, adr)
    BY <1>1, <2>1 DEF L1DLoadResult
  <2>2. CASE ~InL1D(s, adr)
    <3>1. L1DLoadResult(s, adr, prefetch) = L2LoadResult(s, adr, prefetch)
      BY <2>2 DEF L1DLoadResult
    <3> QED
      BY <1>2, <3>1
  <2> QED
    BY <2>1, <2>2
<1>6. L1ILoadResult(s, adr) \in {0, 1, 2, 4}
  BY <1>1, <1>3 DEF L1ILoadResult
<1> QED
  BY <1>4, <1>5, <1>6 DEF L1HIT

\* What a load brings to the processor is what the caches show.
LEMMA L1DDataShown ==
    ASSUME NEW s, Sound(s), NEW adr \in Addresses
    PROVE  /\ L1DData(s, adr) = L1DShows(s)[Tag(adr)]
           /\ Tag(adr) \in LineTags
           /\ L1DShows(s) \in [LineTags -> Data]
           /\ L1DData(s, adr) \in Data
<1>1. /\ IsConfig(s.l1d.config) /\ IsTable(s.l1d.config, s.l1d.table)
      /\ L2Shows(s) \in [LineTags -> Data]
      /\ L2OK(s)
      /\ adr \in Asked
  BY DEF Sound, L1DOK, IsL1D, IsLevel, Asked
<1>2. Tag(adr) \in LineTags
  BY DEF LineTags
<1>3. L1DData(s, adr) = L1DShows(s)[Tag(adr)]
  <2>1. CASE InL1D(s, adr)
    BY <1>1, <2>1, DataInShown DEF L1DData, InL1D, L1DShows
  <2>2. CASE ~InL1D(s, adr)
    BY <1>1, <2>2, NotCachedShown, L2DataShown DEF L1DData, InL1D, L1DShows
  <2> QED
    BY <2>1, <2>2
<1>4. L1DShows(s) \in [LineTags -> Data]
  BY <1>1, ShownLines DEF L1DShows
<1> QED
  BY <1>2, <1>3, <1>4

------------------------------------------------------------------------------
(* The inductive invariant *)

\* What a request that hit in the data cache had to find or leave.
WrittenThrough(s, r) ==
    /\ s.l1d.config.writePolicy = WRITE_THROUGH
    /\ r.request = "store"
    /\ r.res = L1HIT
    => L2Shows(s)[r.line] = L1DShows(s)[r.line]

Inv ==
    /\ Sound(Caches)
    /\ result \subseteq [request : Requests, line : LineTags,
                         res : CacheOperationResult]
    /\ passed \subseteq Data
    /\ \A r \in result : WrittenThrough(Caches, r)

\* The definitions the properties use are those of the proofs.
LEMMA ShownIsContents ==
    /\ L1DShows(Caches) = Contents
    /\ L1DShows(Caches') = Contents'
    /\ \A dtag \in LineTags : L2Shows(Caches)[dtag] = BelowL1D(dtag)
<1>1. \A dtag \in LineTags : L2Shows(Caches)[dtag] = BelowL1D(dtag)
  BY DEF L2Shows, Caches, Shown, BelowL1D
<1>2. \A dtag \in LineTags : L2Shows(Caches')[dtag] = BelowL1D(dtag)'
  BY DEF L2Shows, Caches, Shown, BelowL1D
<1>3. L1DShows(Caches) = Contents
  BY <1>1 DEF L1DShows, Caches, Shown, Contents
<1>4. L1DShows(Caches') = Contents'
  BY <1>2 DEF L1DShows, Caches, Shown, Contents
<1> QED
  BY <1>1, <1>3, <1>4

\* A step that leaves the caches in the state t.
LEMMA BecomeProperties ==
    ASSUME NEW t, Sound(t), Become(t)
    PROVE  /\ Sound(Caches')
           /\ Configs(Caches') = Configs(t)
           /\ L1DShows(Caches') = L1DShows(t)
           /\ L2Shows(Caches') = L2Shows(t)
<1> DEFINE s == Caches'
<1>1. /\ IsCaches(s)
      /\ s.l1d = t.l1d /\ s.l1i = t.l1i /\ s.l2 = t.l2 /\ s.mm = t.mm
  BY DEF Become, Caches, IsCaches
<1> HIDE DEF s
<1>2. L2OK(s) /\ L2Shows(s) = L2Shows(t)
  BY <1>1 DEF Sound, L2OK, L2Shows
<1>3. L1DOK(s) /\ L1DShows(s) = L1DShows(t) /\ L1IOK(s) /\ Configs(s) = Configs(t)
  BY <1>1, <1>2 DEF Sound, L1DOK, L1DShows, L1IOK, Configs
<1> QED
  BY <1>2, <1>3 DEF Sound, s

LEMMA EmptyTableProperties ==
    ASSUME NEW c, IsConfig(c)
    PROVE  /\ IsTable(c, EmptyTable(c))
           /\ LinesOf(EmptyTable(c)) = {}
           /\ \A below \in [LineTags -> Data] :
                /\ Shown(EmptyTable(c), below) = below
                /\ IsLevel(c, EmptyTable(c), below)
<1> DEFINE table == EmptyTable(c)
<1>1. << >> \in Seq(Lines) /\ Len(<< >>) = 0 /\ DOMAIN << >> = {}
  BY EmptySeq
<1>2. /\ table \in [0..(c.numberOfSets - 1) -> Seq(Lines)]
      /\ \A ltag \in DOMAIN table : table[ltag] = << >>
  BY <1>1 DEF EmptyTable
<1>3. 0 <= c.setSize
  BY DEF IsConfig, IsCacheConfig
<1> HIDE DEF table
<1>4. IsTable(c, table)
  BY <1>1, <1>2, <1>3 DEF IsTable
<1>5. LinesOf(table) = {}
  BY <1>1, <1>2 DEF LinesOf, ToSet
<1>6. ASSUME NEW below \in [LineTags -> Data]
      PROVE  Shown(table, below) = below /\ IsLevel(c, table, below)
  BY <1>4, <1>5 DEF Shown, Holding, IsLevel, Clean
<1> QED
  BY <1>4, <1>5, <1>6 DEF table

\* A new hierarchy.
LEMMA InitSound ==
    ASSUME Init
    PROVE  Sound(Caches) /\ L1DShows(Caches) = [dtag \in LineTags |-> InitData]
<1>1. PICK configs \in Hierarchies :
        /\ l1d = NewL1DCache(configs.l1d)
        /\ l1i = NewL1ICache(configs.l1i)
        /\ l2 = NewL2Cache(configs.l2)
  BY DEF Init
<1>2. IsConfig(configs.l1d) /\ IsConfig(configs.l1i) /\ IsConfig(configs.l2)
  BY ConfigsProperties
<1>3. mm = NewMainMem(LineTags)
  BY DEF Init
<1> DEFINE memory == [dtag \in LineTags |-> InitData]
<1>4. 0 \in Counter
  BY CounterMaxAssumption DEF Counter
<1>5. memory \in [LineTags -> Data] /\ IsMem(mm) /\ mm.data = memory
  BY <1>3, <1>4, InitDataAssumption DEF NewMainMem, IsMem
<1>6. /\ IsL2(l2)
      /\ l2.config = configs.l2
      /\ l2.table = EmptyTable(configs.l2)
  BY <1>1, <1>2, <1>4 DEF NewL2Cache, IsL2, L2Counters
<1>7. /\ IsL1D(l1d)
      /\ l1d.config = configs.l1d
      /\ l1d.table = EmptyTable(configs.l1d)
  <2>1. << >> \in Seq(Addresses) /\ Len(<< >>) <= HistoryMax
    BY EmptySeq, HistoryMaxAssumption
  <2> QED
    BY <1>1, <1>2, <1>4, <2>1 DEF NewL1DCache, IsL1D, L1DCounters
<1>8. /\ IsL1I(l1i)
      /\ l1i.config = configs.l1i
      /\ l1i.table = EmptyTable(configs.l1i)
  BY <1>1, <1>2, <1>4 DEF NewL1ICache, IsL1I, L1ICounters
<1> HIDE DEF memory
<1>9. /\ IsCaches(Caches)
      /\ Caches.l1d = l1d /\ Caches.l1i = l1i /\ Caches.l2 = l2 /\ Caches.mm = mm
  BY DEF Caches, IsCaches
<1>10. L2Shows(Caches) = memory /\ L2OK(Caches)
  BY <1>2, <1>5, <1>6, <1>9, EmptyTableProperties DEF L2Shows, L2OK
<1>11. L1DShows(Caches) = memory /\ L1DOK(Caches)
  BY <1>2, <1>5, <1>7, <1>9, <1>10, EmptyTableProperties DEF L1DShows, L1DOK
<1>12. L1IOK(Caches)
  BY <1>2, <1>8, <1>9, EmptyTableProperties DEF L1IOK
<1>13. Configs(Caches) \in Hierarchies
  <2>1. configs = [l1d |-> configs.l1d, l1i |-> configs.l1i, l2 |-> configs.l2]
    BY HierarchiesAssumption
  <2> QED
    BY <1>6, <1>7, <1>8, <1>9, <2>1 DEF Configs
<1> QED
  BY <1>10, <1>11, <1>12, <1>13 DEF Sound, memory

\* What a request leaves, whichever it is.
LEMMA AfterRequest ==
    ASSUME Inv, NEW t, Sound(t), Become(t), NEW request \in Requests,
           NEW adr, Tag(adr) \in LineTags, NEW res \in CacheOperationResult,
           Returns(request, adr, res),
           passed' \subseteq Data,
           WrittenThrough(t, [request |-> request, line |-> Tag(adr), res |-> res])
    PROVE  Inv'
<1> DEFINE r == [request |-> request, line |-> Tag(adr), res |-> res]
<1>1. /\ Sound(Caches')
      /\ Configs(Caches') = Configs(t)
      /\ L1DShows(Caches') = L1DShows(t)
      /\ L2Shows(Caches') = L2Shows(t)
  BY BecomeProperties
<1>2. result' = {r}
  BY DEF Returns
<1>3. r \in [request : Requests, line : LineTags, res : CacheOperationResult]
  OBVIOUS
<1>4. Caches'.l1d.config = t.l1d.config
  BY <1>1 DEF Configs
<1> HIDE DEF r
<1>5. WrittenThrough(Caches', r)
  BY <1>1, <1>4 DEF WrittenThrough, r
<1> QED
  BY <1>1, <1>2, <1>3, <1>5 DEF Inv

\* The steps of the specification, with what each does to what the program
\* sees.
LEMMA LoadStep ==
    ASSUME Inv, NEW adr \in Addresses, NEW stale, Load(adr, stale)
    PROVE  /\ Inv'
           /\ L1DShows(Caches') = L1DShows(Caches)
           /\ passed' = {L1DShows(Caches)[Tag(adr)]}
           /\ LastRequest' = {<<"load", Tag(adr)>>}
<1> DEFINE t   == L1DLoad(Caches, adr, FALSE, stale)
           res == L1DLoadResult(Caches, adr, FALSE)
<1>1. Become(t) /\ Returns("load", adr, res) /\ passed' = {L1DData(Caches, adr)}
  BY DEF Load
<1>2. Sound(Caches) /\ InitData \in Data
  BY InitDataAssumption DEF Inv
<1>3. Sound(t) /\ L1DShows(t) = L1DShows(Caches)
  <2>1. L2OK(Caches) /\ L1DOK(Caches)
    BY <1>2 DEF Sound
  <2>2. L1DShows(t) = L1DShows(Caches)
    BY <2>1, L1DLoadStep, ZenonT(60)
  <2>3. Sound(t)
    BY <1>2, SoundDataRequest, Zenon
  <2> QED
    BY <2>2, <2>3
<1>4. res \in CacheOperationResult
  BY <1>2, Results, Zenon
<1>5. /\ L1DData(Caches, adr) = L1DShows(Caches)[Tag(adr)]
      /\ Tag(adr) \in LineTags
      /\ L1DData(Caches, adr) \in Data
  BY <1>2, L1DDataShown
<1> HIDE DEF t, res
<1>6. "load" \in Requests
  BY DEF Requests
<1>7. WrittenThrough(t, [request |-> "load", line |-> Tag(adr), res |-> res])
  BY DEF WrittenThrough
<1>8. passed' \subseteq Data
  BY <1>1, <1>5
<1>9. Inv'
  BY <1>1, <1>3, <1>4, <1>5, <1>6, <1>7, <1>8, AfterRequest
<1>10. L1DShows(Caches') = L1DShows(t)
  BY <1>1, <1>3, BecomeProperties
<1>11. LastRequest' = {<<"load", Tag(adr)>>}
  BY <1>1, SMT DEF LastRequest, Returns
<1> QED
  BY <1>1, <1>3, <1>5, <1>9, <1>10, <1>11

LEMMA RunPrefetcherStep ==
    ASSUME Inv, NEW adr \in Addresses, NEW stale, RunPrefetcher(adr, stale)
    PROVE  /\ Inv'
           /\ L1DShows(Caches') = L1DShows(Caches)
           /\ passed' = {}
           /\ LastRequest' = {<<"prefetch", Tag(adr)>>}
<1> DEFINE t   == L1DLoad(Caches, adr, TRUE, stale)
           res == L1DLoadResult(Caches, adr, TRUE)
<1>1. Become(t) /\ Returns("prefetch", adr, res) /\ passed' = {}
  BY DEF RunPrefetcher
<1>2. Sound(Caches) /\ InitData \in Data
  BY InitDataAssumption DEF Inv
<1>3. Sound(t) /\ L1DShows(t) = L1DShows(Caches)
  <2>1. L2OK(Caches) /\ L1DOK(Caches)
    BY <1>2 DEF Sound
  <2>2. L1DShows(t) = L1DShows(Caches)
    BY <2>1, L1DLoadStep, ZenonT(60)
  <2>3. Sound(t)
    BY <1>2, SoundDataRequest, Zenon
  <2> QED
    BY <2>2, <2>3
<1>4. res \in CacheOperationResult
  BY <1>2, Results, Zenon
<1>5. Tag(adr) \in LineTags
  BY <1>2, L1DDataShown
<1> HIDE DEF t, res
<1>6. "prefetch" \in Requests
  BY DEF Requests
<1>7. WrittenThrough(t, [request |-> "prefetch", line |-> Tag(adr), res |-> res])
  BY DEF WrittenThrough
<1>8. passed' \subseteq Data
  BY <1>1
<1>9. Inv'
  BY <1>1, <1>3, <1>4, <1>5, <1>6, <1>7, <1>8, AfterRequest
<1>10. L1DShows(Caches') = L1DShows(t)
  BY <1>1, <1>3, BecomeProperties
<1>11. LastRequest' = {<<"prefetch", Tag(adr)>>}
  BY <1>1, SMT DEF LastRequest, Returns
<1> QED
  BY <1>1, <1>3, <1>9, <1>10, <1>11

LEMMA StoreStep ==
    ASSUME Inv, NEW adr \in Addresses, NEW d \in Data, NEW stale, Store(adr, d, stale)
    PROVE  /\ Inv'
           /\ L1DShows(Caches') = [L1DShows(Caches) EXCEPT ![Tag(adr)] = d]
           /\ passed' = {d}
           /\ LastRequest' = {<<"store", Tag(adr)>>}
<1> DEFINE t   == L1DStore(Caches, adr, d, stale)
           res == L1DLoadResult(Caches, adr, FALSE)
           r   == [request |-> "store", line |-> Tag(adr), res |-> res]
<1>1. Become(t) /\ Returns("store", adr, res) /\ passed' = {d}
  BY DEF Store
<1>2. Sound(Caches)
  BY DEF Inv
<1>3. /\ Sound(t)
      /\ OnlyL1DAndBelow(Caches, t)
      /\ L1DShows(t) = [L1DShows(Caches) EXCEPT ![Tag(adr)] = d]
      /\ InL1D(Caches, adr) /\ Caches.l1d.config.writePolicy = WRITE_THROUGH =>
            L2Shows(t)[Tag(adr)] = d
  <2>1. L2OK(Caches) /\ L1DOK(Caches)
    BY <1>2 DEF Sound
  <2> QED
    BY <1>2, <2>1, SoundDataRequest, L1DStoreStep
<1>4. res \in CacheOperationResult /\ (res = L1HIT => InL1D(Caches, adr))
  BY <1>2, Results, Zenon
<1>5. Tag(adr) \in LineTags /\ L1DShows(Caches) \in [LineTags -> Data]
  BY <1>2, L1DDataShown
<1> HIDE DEF t, res
<1>6. "store" \in Requests
  BY DEF Requests
<1>7. WrittenThrough(t, r)
  BY <1>3, <1>4, <1>5 DEF WrittenThrough, OnlyL1DAndBelow
<1>8. passed' \subseteq Data
  BY <1>1
<1>9. Inv'
  BY <1>1, <1>3, <1>4, <1>5, <1>6, <1>7, <1>8, AfterRequest
<1>10. L1DShows(Caches') = L1DShows(t)
  BY <1>1, <1>3, BecomeProperties
<1>11. LastRequest' = {<<"store", Tag(adr)>>}
  BY <1>1, SMT DEF LastRequest, Returns
<1> QED
  BY <1>1, <1>3, <1>9, <1>10, <1>11

LEMMA FetchStep ==
    ASSUME Inv, NEW ip \in Instructions, Fetch(ip)
    PROVE  /\ Inv'
           /\ L1DShows(Caches') = L1DShows(Caches)
           /\ passed' = {}
           /\ LastRequest' = {<<"fetch", Tag(ip)>>}
<1> DEFINE t   == L1ILoad(Caches, ip)
           res == L1ILoadResult(Caches, ip)
<1>1. Become(t) /\ Returns("fetch", ip, res) /\ passed' = {}
  BY DEF Fetch
<1>2. Sound(Caches)
  BY DEF Inv
<1>3. Sound(t) /\ L1DShows(t) = L1DShows(Caches)
  BY <1>2, SoundFetch
<1>4. res \in CacheOperationResult
  BY <1>2, Results, Zenon
<1>5. Tag(ip) \in LineTags
  BY DEF LineTags
<1> HIDE DEF t, res
<1>6. "fetch" \in Requests
  BY DEF Requests
<1>7. WrittenThrough(t, [request |-> "fetch", line |-> Tag(ip), res |-> res])
  BY DEF WrittenThrough
<1>8. passed' \subseteq Data
  BY <1>1
<1>9. Inv'
  BY <1>1, <1>3, <1>4, <1>5, <1>6, <1>7, <1>8, AfterRequest
<1>10. L1DShows(Caches') = L1DShows(t)
  BY <1>1, <1>3, BecomeProperties
<1>11. LastRequest' = {<<"fetch", Tag(ip)>>}
  BY <1>1, SMT DEF LastRequest, Returns
<1> QED
  BY <1>1, <1>3, <1>9, <1>10, <1>11

LEMMA InitInv == Init => Inv
<1> SUFFICES ASSUME Init PROVE Inv
  OBVIOUS
<1>1. result = {} /\ passed = {}
  BY DEF Init
<1> QED
  BY <1>1, InitSound DEF Inv

LEMMA NextInv == Inv /\ [Next]_vars => Inv'
<1> SUFFICES ASSUME Inv, [Next]_vars PROVE Inv'
  OBVIOUS
<1>1. CASE \E adr \in Addresses, stale \in FreedFlags : Load(adr, stale)
  BY <1>1, LoadStep
<1>2. CASE \E adr \in Addresses, stale \in FreedFlags, d \in Data : Store(adr, d, stale)
  BY <1>2, StoreStep
<1>3. CASE \E adr \in Addresses, stale \in FreedFlags : RunPrefetcher(adr, stale)
  BY <1>3, RunPrefetcherStep
<1>4. CASE \E ip \in Instructions : Fetch(ip)
  BY <1>4, FetchStep
<1>5. CASE UNCHANGED vars
  BY <1>5 DEF vars, Inv, Caches
<1> QED
  BY <1>1, <1>2, <1>3, <1>4, <1>5 DEF Next

LEMMA SpecInv == Spec => []Inv
BY InitInv, NextInv, PTL DEF Spec

------------------------------------------------------------------------------
(* The theorems *)

LEMMA InvImpliesTypeOK == Inv => TypeOK
<1> SUFFICES ASSUME Inv PROVE TypeOK
  OBVIOUS
<1>1. /\ Caches.l1d = l1d /\ Caches.l1i = l1i /\ Caches.l2 = l2 /\ Caches.mm = mm
  BY DEF Caches
<1>2. /\ IsL1D(l1d) /\ IsTable(l1d.config, l1d.table)
      /\ IsL1I(l1i) /\ IsTable(l1i.config, l1i.table)
      /\ IsL2(l2) /\ IsTable(l2.config, l2.table)
      /\ IsMem(mm)
      /\ [l1d |-> l1d.config, l1i |-> l1i.config, l2 |-> l2.config] \in Hierarchies
  BY <1>1 DEF Inv, Sound, L1DOK, L1IOK, L2OK, IsLevel, Configs
<1>3. \A field \in DOMAIN l1d \ {"config", "table", "recentlyLoadedLines"} :
        l1d[field] \in Counter
  BY <1>2 DEF IsL1D
<1>4. \A field \in DOMAIN l1i \ {"config", "table"} : l1i[field] \in Counter
  BY <1>2 DEF IsL1I
<1>5. \A field \in DOMAIN l2 \ {"config", "table"} : l2[field] \in Counter
  BY <1>2 DEF IsL2
<1>6. /\ l1d.recentlyLoadedLines \in Seq(Addresses)
      /\ Len(l1d.recentlyLoadedLines) <= HistoryMax
  BY <1>2 DEF IsL1D
<1> QED
  BY <1>2, <1>3, <1>4, <1>5, <1>6 DEF Inv, TypeOK, IsMem

LEMMA InvImpliesCleanLinesMatch == Inv => CleanLinesMatch
<1> SUFFICES ASSUME Inv PROVE CleanLinesMatch
  OBVIOUS
<1>1. /\ IsConfig(l1d.config) /\ IsLevel(l1d.config, l1d.table, L2Shows(Caches))
      /\ IsConfig(l2.config) /\ IsLevel(l2.config, l2.table, mm.data)
  BY DEF Inv, Sound, L1DOK, IsL1D, L2OK, IsL2, Caches
<1>2. \A line \in LinesOf(l1d.table) :
        line.invalid \/ line.data = BelowL1D(line.tag)
  BY <1>1, ShownIsContents, LinesOfTable DEF IsLevel, Clean
<1>3. \A line \in LinesOf(l2.table) :
        line.invalid \/ line.data = mm.data[line.tag]
  BY <1>1 DEF IsLevel, Clean
<1> QED
  BY <1>2, <1>3 DEF CleanLinesMatch

LEMMA InvImpliesStoreHitsAreWrittenThrough == Inv => StoreHitsAreWrittenThrough
<1> SUFFICES ASSUME Inv, NEW r \in result,
                    l1d.config.writePolicy = WRITE_THROUGH,
                    r.request = "store", r.res = L1HIT
             PROVE  BelowL1D(r.line) = Contents[r.line]
  BY DEF StoreHitsAreWrittenThrough
<1>1. r.line \in LineTags /\ WrittenThrough(Caches, r)
  BY DEF Inv
<1>2. Caches.l1d.config.writePolicy = WRITE_THROUGH
  BY DEF Caches
<1>3. L2Shows(Caches)[r.line] = L1DShows(Caches)[r.line]
  BY <1>1, <1>2 DEF WrittenThrough
<1> QED
  BY <1>1, <1>3, ShownIsContents

\* Every table stays well formed, whatever is requested: each line in the set
\* of its address, once, never more than setSize of them, never an evacuated
\* one; every counter and every result is in its range.
THEOREM HierarchyTypeCorrect == Spec => []TypeOK
BY SpecInv, InvImpliesTypeOK, PTL

\* What a cache does not mark as dirty may be dropped: the level below has it.
\* This is what the three handleWritePolicy methods rely on when they delete an
\* evacuated line that is not INVALID_ENTRY.
THEOREM DirtyBitIsSound == Spec => []CleanLinesMatch
BY SpecInv, InvImpliesCleanLinesMatch, PTL

\* Under WRITE_THROUGH a store that hits has reached L2 when it returns.
THEOREM WriteThroughReachesL2 == Spec => []StoreHitsAreWrittenThrough
BY SpecInv, InvImpliesStoreHitsAreWrittenThrough, PTL

\* The three caches over memory are a memory: a request to load returns what
\* was last stored in its line, a request to store leaves its data there, and
\* no other request, and no store to another line, changes what a line holds,
\* whatever is evicted, written back, prefetched or fetched in between.
THEOREM HierarchyImplementsMemory == Spec => ImplementsMemory
<1>1. Init => Memory!Init
  <2> SUFFICES ASSUME Init PROVE Memory!Init
    OBVIOUS
  <2>1. LastRequest = {} /\ passed = {}
    BY SMT DEF Init, LastRequest
  <2> QED
    BY <2>1, InitSound, ShownIsContents DEF Memory!Init
<1>2. Inv /\ [Next]_vars => [Memory!Next]_<<Contents, LastRequest, passed>>
  <2> SUFFICES ASSUME Inv, [Next]_vars
               PROVE  Memory!Next \/ UNCHANGED <<Contents, LastRequest, passed>>
    OBVIOUS
  <2>1. L1DShows(Caches) = Contents
    BY ShownIsContents
  <2>2. L1DShows(Caches') = Contents'
    BY ShownIsContents
  <2>3. ASSUME NEW adr \in Addresses, NEW stale, Load(adr, stale)
        PROVE  Memory!Next
    <3>1. Tag(adr) \in LineTags
      BY DEF LineTags
    <3>2. Memory!Load(Tag(adr))
      BY <2>1, <2>2, <2>3, LoadStep DEF Memory!Load
    <3> QED
      BY <3>1, <3>2 DEF Memory!Next
  <2>4. ASSUME NEW adr \in Addresses, NEW d \in Data, NEW stale, Store(adr, d, stale)
        PROVE  Memory!Next
    <3>1. Tag(adr) \in LineTags
      BY DEF LineTags
    <3>2. Memory!Store(Tag(adr), d)
      BY <2>1, <2>2, <2>4, StoreStep DEF Memory!Store
    <3> QED
      BY <3>1, <3>2 DEF Memory!Next
  <2>5. ASSUME NEW adr \in Addresses, NEW stale, RunPrefetcher(adr, stale)
        PROVE  Memory!Next
    <3>1. Tag(adr) \in LineTags
      BY DEF LineTags
    <3>2. Memory!Other("prefetch", Tag(adr))
      BY <2>1, <2>2, <2>5, RunPrefetcherStep DEF Memory!Other
    <3> QED
      BY <3>1, <3>2 DEF Memory!Next
  <2>6. ASSUME NEW ip \in Instructions, Fetch(ip)
        PROVE  Memory!Next
    <3>1. Tag(ip) \in LineTags
      BY DEF LineTags
    <3>2. Memory!Other("fetch", Tag(ip))
      BY <2>1, <2>2, <2>6, FetchStep DEF Memory!Other
    <3> QED
      BY <3>1, <3>2 DEF Memory!Next
  <2>7. CASE UNCHANGED vars
    <3>1. UNCHANGED Contents
      BY <2>1, <2>2, <2>7 DEF vars, Caches
    <3>2. UNCHANGED <<LastRequest, passed>>
      BY <2>7, SMT DEF vars, LastRequest
    <3> QED
      BY <3>1, <3>2
  <2>8. CASE Next
    BY <2>3, <2>4, <2>5, <2>6, <2>8 DEF Next
  <2> QED
    BY <2>7, <2>8
<1> QED
  BY <1>1, <1>2, SpecInv, PTL DEF Spec, ImplementsMemory, Memory!Spec

------------------------------------------------------------------------------
(***************************************************************************)
(* What the counters of the caches say, however often they wrapped: sums   *)
(* of counters are compared up to multiples of CounterMax + 1.             *)
(***************************************************************************)

\* a and b are equal for counters that wrap.
Congruent(a, b) == \E k \in Int : a = b + k * (CounterMax + 1)

Bit(condition) == IF condition THEN 1 ELSE 0

LEMMA CongruentRefl ==
    ASSUME NEW a \in Int
    PROVE  Congruent(a, a)
<1>1. a = a + 0 * (CounterMax + 1)
  BY CounterMaxAssumption
<1> QED
  BY <1>1 DEF Congruent

LEMMA CongruentSums ==
    ASSUME NEW a \in Int, NEW b \in Int, NEW c \in Int, NEW d \in Int,
           Congruent(a, b), Congruent(c, d)
    PROVE  Congruent(a + c, b + d) /\ Congruent(a - c, b - d)
<1> DEFINE m == CounterMax + 1
<1>1. PICK k \in Int : a = b + k * m
  BY DEF Congruent
<1>2. PICK l \in Int : c = d + l * m
  BY DEF Congruent
<1>3. m \in Nat
  BY CounterMaxAssumption
<1> HIDE DEF m
<1>4. a + c = (b + d) + (k + l) * m /\ a - c = (b - d) + (k - l) * m
  BY <1>1, <1>2, <1>3
<1>5. k + l \in Int /\ k - l \in Int
  OBVIOUS
<1> QED
  BY <1>4, <1>5 DEF Congruent, m

LEMMA CongruentTrans ==
    ASSUME NEW a \in Int, NEW b \in Int, NEW c \in Int,
           Congruent(a, b), Congruent(b, c)
    PROVE  Congruent(a, c)
<1> DEFINE m == CounterMax + 1
<1>1. PICK k \in Int : a = b + k * m
  BY DEF Congruent
<1>2. PICK l \in Int : b = c + l * m
  BY DEF Congruent
<1>3. m \in Nat
  BY CounterMaxAssumption
<1> HIDE DEF m
<1>4. a = c + (l + k) * m /\ l + k \in Int
  BY <1>1, <1>2, <1>3
<1> QED
  BY <1>4 DEF Congruent, m

LEMMA CongruentSym ==
    ASSUME NEW a \in Int, NEW b \in Int, Congruent(a, b)
    PROVE  Congruent(b, a)
<1> DEFINE m == CounterMax + 1
<1>1. PICK k \in Int : a = b + k * m
  BY DEF Congruent
<1>2. m \in Nat
  BY CounterMaxAssumption
<1> HIDE DEF m
<1>3. b = a + (-k) * m /\ -k \in Int
  BY <1>1, <1>2
<1> QED
  BY <1>3 DEF Congruent, m

LEMMA CongruentModulo ==
    /\ \A a, b \in Int : Congruent(a, b) => Modulo(a) = Modulo(b)
    /\ \A n \in Counter, a \in Int : Congruent(n, a) => n = Modulo(a)
<1> DEFINE m == CounterMax + 1
<1>1. m \in Nat \ {0} /\ Counter = 0..(m - 1)
  BY CounterMaxAssumption DEF Counter
<1> HIDE DEF m
<1>2. ASSUME NEW a \in Int, NEW b \in Int, Congruent(a, b)
      PROVE  Modulo(a) = Modulo(b)
  <2>1. PICK k \in Int : a = b + k * m
    BY <1>2 DEF Congruent, m
  <2> QED
    BY <1>1, <2>1, RemainderOfSum DEF Modulo, m
<1>3. ASSUME NEW n \in Counter
      PROVE  n \in Int /\ Modulo(n) = n
  <2>1. n % m = n
    BY <1>1
  <2> QED
    BY <1>1, <2>1 DEF Modulo, m
<1> QED
  BY <1>2, <1>3

\* What Count does to a counter.
LEMMA CountCongruent ==
    ASSUME NEW n \in Counter, NEW condition
    PROVE  /\ n \in Int /\ Count(condition, n) \in Int
           /\ Bit(condition) \in Int
           /\ Congruent(Count(condition, n), n + Bit(condition))
<1>1. n \in Int /\ Count(condition, n) \in Int /\ Bit(condition) \in Int
  BY CountType, CounterMaxAssumption DEF Counter, Bit
<1>2. CASE condition /\ n = CounterMax
  <2>1. Count(condition, n) = 0 /\ Bit(condition) = 1
    BY <1>2 DEF Count, Increment, Bit
  <2>2. 0 = (n + 1) + (-1) * (CounterMax + 1)
    BY <1>2, CounterMaxAssumption
  <2> QED
    BY <1>1, <2>1, <2>2 DEF Congruent
<1>3. CASE condition /\ n # CounterMax
  <2>1. Count(condition, n) = n + 1 /\ Bit(condition) = 1
    BY <1>3 DEF Count, Increment, Bit
  <2> QED
    BY <1>1, <2>1, CongruentRefl
<1>4. CASE ~condition
  <2>1. Count(condition, n) = n /\ Bit(condition) = 0
    BY <1>4 DEF Count, Bit
  <2> QED
    BY <1>1, <2>1, CongruentRefl
<1> QED
  BY <1>1, <1>2, <1>3, <1>4

------------------------------------------------------------------------------
(* The lines a table has after a write *)

Evicted(out) == \E line \in out : line.evacuated

EvictedDirty(out) == \E line \in out : line.evacuated /\ line.invalid

AtMostOne(out) == out = {} \/ \E x : out = {x}

\* after is a table into which n lines were put, and that gave up out.
Grows(table, after, out, n) ==
    /\ AtMostOne(out)
    /\ IsFiniteSet(TagsOf(table)) =>
        /\ IsFiniteSet(TagsOf(after))
        /\ Cardinality(TagsOf(after)) + Bit(Evicted(out))
            = Cardinality(TagsOf(table)) + n

LEMMA TagsOfLines ==
    ASSUME NEW table, NEW other, LinesOf(table) = LinesOf(other)
    PROVE  TagsOf(table) = TagsOf(other)
BY DEF TagsOf

LEMMA RewriteTags ==
    ASSUME NEW c, IsConfig(c), NEW table, IsTable(c, table), NEW adr \in Asked,
           IsCached(c, table, adr), NEW d \in Data
    PROVE  LET w == Write(c, table, adr, d)
           IN  /\ TagsOf(w.table) = TagsOf(table)
               /\ TagsOf(Settled(c, w.table, w.line)) = TagsOf(table)
               /\ AtMostOne(w.line)
               /\ ~Evicted(w.line)
<1> DEFINE w == Write(c, table, adr, d)
<1>1. PICK old \in LinesOf(table) : Rewrites(c, table, adr, old, Rewritten(old, d), w)
  BY WriteHit
<1> DEFINE x == Rewritten(old, d)
<1>2. old \in Lines /\ ~old.evacuated
  BY LinesOfTable
<1>3. x.tag = old.tag /\ ~x.evacuated /\ SetEntryValid(x).tag = old.tag
  BY <1>2 DEF Rewritten, SetEntryInvalid, SetEntryValid, Lines, CacheLine
<1> HIDE DEF w, x
<1>4. /\ w.line = {x}
      /\ IsTable(c, w.table)
      /\ LinesOf(w.table) = (LinesOf(table) \ {old}) \cup {x}
      /\ IsLast(c, w.table, adr, x)
  BY <1>1 DEF Rewrites, x
<1>5. Validates(c, w.table, x, Settled(c, w.table, {x}))
  <2> DEFINE after == w.table
  <2>1. IsTable(c, after) /\ IsLast(c, after, adr, x)
    BY <1>4
  <2> HIDE DEF after
  <2>2. Validates(c, after, x, Settled(c, after, {x}))
    BY <2>1, SettledTable
  <2> QED
    BY <2>2 DEF after
<1>6. TagsOf(w.table) = TagsOf(table)
  BY <1>3, <1>4 DEF TagsOf
<1>7. TagsOf(Settled(c, w.table, {x})) = TagsOf(w.table)
  <2>1. CASE Flushed(c, {x}) = {}
    BY <1>5, <2>1, TagsOfLines DEF Validates
  <2>2. CASE Flushed(c, {x}) # {}
    <3>1. LinesOf(Settled(c, w.table, {x})) = (LinesOf(w.table) \ {x}) \cup {SetEntryValid(x)}
      BY <1>5, <2>2 DEF Validates
    <3>2. x \in LinesOf(w.table)
      BY <1>4
    <3> QED
      BY <1>3, <3>1, <3>2 DEF TagsOf
  <2> QED
    BY <2>1, <2>2
<1> QED
  BY <1>3, <1>4, <1>6, <1>7 DEF AtMostOne, Evicted, w

LEMMA OneMore ==
    ASSUME NEW S, IsFiniteSet(S), NEW x, x \notin S, NEW T, T = S \cup {x}
    PROVE  IsFiniteSet(T) /\ Cardinality(T) = Cardinality(S) + 1
<1>1. IsFiniteSet(S \cup {x}) /\ Cardinality(S \cup {x}) = Cardinality(S) + 1
  BY FS_AddElement
<1> QED
  BY <1>1

LEMMA AllocateTags ==
    ASSUME NEW c, IsConfig(c), NEW table, IsTable(c, table), NEW adr \in Asked,
           ~IsCached(c, table, adr), NEW d \in Data
    PROVE  LET w == Write(c, table, adr, d)
           IN  Grows(table, w.table, w.line, 1)
<1> DEFINE w == Write(c, table, adr, d)
           n == NewCacheLine(DataTag(c, adr), d)
<1>1. PICK V \in SUBSET LinesOf(table) : Evicts(c, table, V, n, w)
  BY WriteMiss
<1>2. n.tag = DataTag(c, adr)
  BY DEF NewCacheLine
<1> HIDE DEF w, n
<1>3. /\ \A line \in LinesOf(table) : line \in Lines /\ line.tag # n.tag
      /\ \A one, other \in LinesOf(table) : one.tag = other.tag => one = other
  BY <1>2, LinesOfTable
<1>4. LinesOf(w.table) = (LinesOf(table) \ V) \cup {n}
  BY <1>1 DEF Evicts
<1>5. n.tag \notin TagsOf(table)
  BY <1>3 DEF TagsOf
<1>6. CASE V = {}
  <2>1. w.line = {} /\ Bit(Evicted(w.line)) = 0
    BY <1>1, <1>6 DEF Evicts, Evicted, Bit
  <2>2. TagsOf(w.table) = TagsOf(table) \cup {n.tag}
    BY <1>4, <1>6 DEF TagsOf
  <2> HIDE DEF Grows
  <2>3. ASSUME IsFiniteSet(TagsOf(table))
        PROVE  /\ IsFiniteSet(TagsOf(w.table))
               /\ Cardinality(TagsOf(w.table)) + Bit(Evicted(w.line))
                    = Cardinality(TagsOf(table)) + 1
    <3>1. /\ IsFiniteSet(TagsOf(w.table))
          /\ Cardinality(TagsOf(w.table)) = Cardinality(TagsOf(table)) + 1
      BY <1>5, <2>2, <2>3, OneMore
    <3>2. Cardinality(TagsOf(table)) \in Nat
      BY <2>3, FS_CardinalityType
    <3> QED
      BY <2>1, <3>1, <3>2
  <2>4. AtMostOne(w.line)
    BY <2>1 DEF AtMostOne
  <2>5. Grows(table, w.table, w.line, 1)
    BY <2>3, <2>4 DEF Grows
  <2> QED
    BY <2>5 DEF w
<1>7. CASE \E v \in V : V = {v}
  <2>1. PICK v \in V : V = {v}
    BY <1>7
  <2>2. w.line = {SetEvacuated(v)}
    BY <1>1, <2>1 DEF Evicts
  <2>3. v \in LinesOf(table) /\ v \in Lines
    BY <1>3, <2>1
  <2>4. SetEvacuated(v).evacuated
    BY <2>3, Evacuated
  <2>5. Bit(Evicted(w.line)) = 1
    BY <2>2, <2>4 DEF Evicted, Bit
  <2>6. TagsOf(w.table) = (TagsOf(table) \ {v.tag}) \cup {n.tag}
    BY <1>3, <1>4, <2>1, <2>3 DEF TagsOf
  <2>7. v.tag \in TagsOf(table)
    BY <2>3 DEF TagsOf
  <2>8. ASSUME IsFiniteSet(TagsOf(table))
        PROVE  /\ IsFiniteSet(TagsOf(w.table))
               /\ Cardinality(TagsOf(w.table)) + Bit(Evicted(w.line))
                    = Cardinality(TagsOf(table)) + 1
    <3> DEFINE kept == TagsOf(table) \ {v.tag}
    <3>1. IsFiniteSet(kept) /\ Cardinality(kept) = Cardinality(TagsOf(table)) - 1
      BY <2>7, <2>8, FS_RemoveElement
    <3>2. n.tag \notin kept /\ TagsOf(w.table) = kept \cup {n.tag}
      BY <1>5, <2>6
    <3> HIDE DEF kept
    <3>3. /\ IsFiniteSet(TagsOf(w.table))
          /\ Cardinality(TagsOf(w.table)) = Cardinality(kept) + 1
      BY <3>1, <3>2, OneMore
    <3>4. Cardinality(TagsOf(table)) \in Nat /\ Cardinality(kept) \in Nat
      BY <2>8, <3>1, FS_CardinalityType
    <3> QED
      BY <2>5, <3>1, <3>3, <3>4
  <2> QED
    BY <2>2, <2>8 DEF Grows, AtMostOne, w
<1>8. V = {} \/ \E v \in V : V = {v}
  BY <1>1 DEF Evicts
<1> QED
  BY <1>6, <1>7, <1>8

------------------------------------------------------------------------------
(* L2 and memory: what was asked, evicted and written back *)

Evictions(l2cache) ==
    l2cache.cleanLinesEvacuatedByDemand + l2cache.dirtyLinesEvacuatedByDemand
    + l2cache.cleanLinesEvacuatedByPrefetcher + l2cache.dirtyLinesEvacuatedByPrefetcher

DirtyEvictions(l2cache) ==
    l2cache.dirtyLinesEvacuatedByDemand + l2cache.dirtyLinesEvacuatedByPrefetcher

LEMMA L2CountersAreNumbers ==
    ASSUME NEW l2cache, IsL2(l2cache)
    PROVE  /\ Evictions(l2cache) \in Int
           /\ DirtyEvictions(l2cache) \in Int
           /\ \A field \in L2Counters : l2cache[field] \in Counter
           /\ \A field \in L2Counters : l2cache[field] \in Int
BY CounterMaxAssumption DEF IsL2, L2Counters, Counter, Evictions, DirtyEvictions

\* Each eviction is counted by one of the four counters.
LEMMA EvictionIsCounted ==
    ASSUME NEW l2cache, IsL2(l2cache), NEW out, AtMostOne(out), NEW prefetch
    PROVE  LET counted == CountL2Eviction(l2cache, out, prefetch)
           IN  /\ Congruent(Evictions(counted), Evictions(l2cache) + Bit(Evicted(out)))
               /\ Congruent(DirtyEvictions(counted),
                            DirtyEvictions(l2cache) + Bit(EvictedDirty(out)))
               /\ counted.loadRequest = l2cache.loadRequest
               /\ counted.prefetchRequest = l2cache.prefetchRequest
<1> DEFINE counted == CountL2Eviction(l2cache, out, prefetch)
           dirty == \E line \in out : line.evacuated /\ line.invalid
           clean == \E line \in out : line.evacuated /\ ~line.invalid
           dP == l2cache.dirtyLinesEvacuatedByPrefetcher
           dD == l2cache.dirtyLinesEvacuatedByDemand
           cP == l2cache.cleanLinesEvacuatedByPrefetcher
           cD == l2cache.cleanLinesEvacuatedByDemand
<1>1. /\ counted.dirtyLinesEvacuatedByPrefetcher = Count(dirty /\ prefetch, dP)
      /\ counted.dirtyLinesEvacuatedByDemand = Count(dirty /\ ~prefetch, dD)
      /\ counted.cleanLinesEvacuatedByPrefetcher = Count(clean /\ prefetch, cP)
      /\ counted.cleanLinesEvacuatedByDemand = Count(clean /\ ~prefetch, cD)
      /\ counted.loadRequest = l2cache.loadRequest
      /\ counted.prefetchRequest = l2cache.prefetchRequest
  BY DEF IsL2, L2Counters, CountL2Eviction
<1>2. dP \in Counter /\ dD \in Counter /\ cP \in Counter /\ cD \in Counter
  BY DEF IsL2, L2Counters
<1>3. ~(dirty /\ clean) /\ (Evicted(out) <=> dirty \/ clean) /\ (EvictedDirty(out) <=> dirty)
  BY DEF AtMostOne, Evicted, EvictedDirty
<1>4. Evictions(counted) = counted.cleanLinesEvacuatedByDemand + counted.dirtyLinesEvacuatedByDemand
        + counted.cleanLinesEvacuatedByPrefetcher + counted.dirtyLinesEvacuatedByPrefetcher
  BY DEF Evictions
<1>5. Evictions(l2cache) = cD + dD + cP + dP /\ DirtyEvictions(l2cache) = dD + dP
  BY DEF Evictions, DirtyEvictions
<1>6. DirtyEvictions(counted) = counted.dirtyLinesEvacuatedByDemand
        + counted.dirtyLinesEvacuatedByPrefetcher
  BY DEF DirtyEvictions
<1> DEFINE dPn == Count(dirty /\ prefetch, dP)
           dDn == Count(dirty /\ ~prefetch, dD)
           cPn == Count(clean /\ prefetch, cP)
           cDn == Count(clean /\ ~prefetch, cD)
           dPb == Bit(dirty /\ prefetch)
           dDb == Bit(dirty /\ ~prefetch)
           cPb == Bit(clean /\ prefetch)
           cDb == Bit(clean /\ ~prefetch)
<1>7. /\ Bit(EvictedDirty(out)) = dDb + dPb
      /\ Bit(Evicted(out)) = cDb + dDb + cPb + dPb
  BY <1>3 DEF Bit
<1> HIDE DEF counted, dirty, clean, dP, dD, cP, cD
<1>8. /\ dP \in Int /\ dPn \in Int /\ dPb \in Int /\ Congruent(dPn, dP + dPb)
      /\ dD \in Int /\ dDn \in Int /\ dDb \in Int /\ Congruent(dDn, dD + dDb)
      /\ cP \in Int /\ cPn \in Int /\ cPb \in Int /\ Congruent(cPn, cP + cPb)
      /\ cD \in Int /\ cDn \in Int /\ cDb \in Int /\ Congruent(cDn, cD + cDb)
  BY <1>2, CountCongruent
<1> HIDE DEF dPn, dDn, cPn, cDn, dPb, dDb, cPb, cDb
<1>9. Congruent(dDn + dPn, (dD + dDb) + (dP + dPb))
  BY <1>8, CongruentSums
<1>10. Congruent(cDn + dDn, (cD + cDb) + (dD + dDb))
  BY <1>8, CongruentSums
<1>11. Congruent((cDn + dDn) + cPn, ((cD + cDb) + (dD + dDb)) + (cP + cPb))
  BY <1>8, <1>10, CongruentSums
<1>12. Congruent(((cDn + dDn) + cPn) + dPn, (((cD + cDb) + (dD + dDb)) + (cP + cPb)) + (dP + dPb))
  BY <1>8, <1>11, CongruentSums
<1>13. (dD + dDb) + (dP + dPb) = (dD + dP) + (dDb + dPb)
  BY <1>8
<1>14. (((cD + cDb) + (dD + dDb)) + (cP + cPb)) + (dP + dPb)
        = (cD + dD + cP + dP) + (cDb + dDb + cPb + dPb)
  BY <1>8
<1>15. DirtyEvictions(counted) = dDn + dPn /\ Evictions(counted) = ((cDn + dDn) + cPn) + dPn
  BY <1>1, <1>4, <1>6 DEF dPn, dDn, cPn, cDn
<1> QED
  BY <1>1, <1>5, <1>7, <1>9, <1>12, <1>13, <1>14, <1>15 DEF counted

\* Every line that was asked of memory is in the table or was evicted.
Traffic(s) ==
    /\ IsFiniteSet(TagsOf(s.l2.table))
    /\ Congruent(s.mm.loadCount + s.mm.prefetchCount,
                 Cardinality(TagsOf(s.l2.table)) + Evictions(s.l2))

\* With WRITE_BACK, memory saw one store for each dirty line that was evicted.
Writebacks(s) ==
    s.l2.config.writePolicy = WRITE_BACK =>
        Congruent(s.mm.storeCount, DirtyEvictions(s.l2))

\* t is what s becomes when L2 asks n lines of memory, and out leaves it.
Exchanges(s, t, out, n) ==
    /\ t.l2.config = s.l2.config
    /\ Congruent(Evictions(t.l2), Evictions(s.l2) + Bit(Evicted(out)))
    /\ Congruent(DirtyEvictions(t.l2), DirtyEvictions(s.l2) + Bit(EvictedDirty(out)))
    /\ Congruent(t.mm.loadCount + t.mm.prefetchCount,
                 (s.mm.loadCount + s.mm.prefetchCount) + n)
    /\ t.mm.storeCount = Count(Flushed(s.l2.config, out) # {}, s.mm.storeCount)
    /\ Grows(s.l2.table, t.l2.table, out, n)

LEMMA MemCountersAreNumbers ==
    ASSUME NEW mem, IsMem(mem)
    PROVE  /\ mem.loadCount \in Counter /\ mem.prefetchCount \in Counter
           /\ mem.storeCount \in Counter
           /\ mem.loadCount \in Int /\ mem.prefetchCount \in Int
           /\ mem.storeCount \in Int
BY CounterMaxAssumption DEF IsMem, Counter

LEMMA ExchangesBalance ==
    ASSUME NEW s, IsL2(s.l2), IsMem(s.mm), NEW t, IsL2(t.l2), IsMem(t.mm),
           NEW out, NEW n \in Int, Exchanges(s, t, out, n)
    PROVE  /\ Traffic(s) => Traffic(t)
           /\ Writebacks(s) => Writebacks(t)
<1> DEFINE as == s.mm.loadCount + s.mm.prefetchCount
           at == t.mm.loadCount + t.mm.prefetchCount
           es == Evictions(s.l2)
           et == Evictions(t.l2)
           ds == DirtyEvictions(s.l2)
           dt == DirtyEvictions(t.l2)
           cs == Cardinality(TagsOf(s.l2.table))
           ct == Cardinality(TagsOf(t.l2.table))
           e  == Bit(Evicted(out))
           d  == Bit(EvictedDirty(out))
<1>1. /\ as \in Int /\ at \in Int /\ es \in Int /\ et \in Int /\ ds \in Int /\ dt \in Int
      /\ e \in Int /\ d \in Int
  BY MemCountersAreNumbers, L2CountersAreNumbers DEF Bit
<1>2. ASSUME Traffic(s)
      PROVE  Traffic(t)
  <2>1. IsFiniteSet(TagsOf(s.l2.table)) /\ Congruent(as, cs + es)
    BY <1>2 DEF Traffic
  <2>2. IsFiniteSet(TagsOf(t.l2.table)) /\ ct + e = cs + n
    BY <2>1 DEF Exchanges, Grows
  <2>3. cs \in Int /\ ct \in Int
    BY <2>1, <2>2, FS_CardinalityType
  <2>4. Congruent(at, as + n) /\ Congruent(et, es + e)
    BY DEF Exchanges
  <2> HIDE DEF as, at, es, et, cs, ct, e
  <2> DEFINE asked == as + n
             held  == cs + es
             sum   == held + n
  <2>5. /\ held \in Int /\ asked \in Int /\ sum \in Int
        /\ Congruent(n, n)
    <3>1. held \in Int
      BY <1>1, <2>3
    <3>2. asked \in Int /\ sum \in Int
      BY <1>1, <3>1
    <3>3. Congruent(n, n)
      BY CongruentRefl
    <3> QED
      BY <3>1, <3>2, <3>3
  <2>6. Congruent(as, held) /\ Congruent(at, asked)
    BY <2>1, <2>4
  <2>7. Congruent(ct + et, ct + (es + e))
    BY <1>1, <2>3, <2>4, CongruentRefl, CongruentSums
  <2>8. sum = ct + (es + e)
    BY <1>1, <2>2, <2>3
  <2> HIDE DEF held
  <2>9. Congruent(asked, sum)
    BY <1>1, <2>5, <2>6, CongruentSums
  <2>10. ct + et \in Int
    BY <1>1, <2>3
  <2> HIDE DEF asked, sum
  <2>11. Congruent(sum, ct + et)
    BY <2>5, <2>7, <2>8, <2>10, CongruentSym
  <2>12. Congruent(at, sum)
    BY <1>1, <2>5, <2>6, <2>9, CongruentTrans
  <2>13. Congruent(at, ct + et)
    BY <1>1, <2>5, <2>10, <2>11, <2>12, CongruentTrans
  <2> QED
    BY <2>2, <2>13 DEF Traffic, at, ct, et
<1>3. ASSUME Writebacks(s), t.l2.config.writePolicy = WRITE_BACK
      PROVE  Congruent(t.mm.storeCount, dt)
  <2>1. s.l2.config.writePolicy = WRITE_BACK
    BY <1>3 DEF Exchanges
  <2>2. Flushed(s.l2.config, out) # {} <=> EvictedDirty(out)
    BY <2>1 DEF Flushed, EvictedDirty, WRITE_BACK, WRITE_THROUGH
  <2>3. t.mm.storeCount = Count(Flushed(s.l2.config, out) # {}, s.mm.storeCount)
    BY DEF Exchanges
  <2>4. Bit(Flushed(s.l2.config, out) # {}) = d
    BY <2>2 DEF Bit
  <2>5. s.mm.storeCount \in Counter /\ s.mm.storeCount \in Int /\ t.mm.storeCount \in Int
    BY MemCountersAreNumbers
  <2>6. Congruent(t.mm.storeCount, s.mm.storeCount + d)
    <3> DEFINE condition == Flushed(s.l2.config, out) # {}
    <3> HIDE DEF condition
    <3>1. Congruent(Count(condition, s.mm.storeCount), s.mm.storeCount + Bit(condition))
      BY <2>5, CountCongruent
    <3> QED
      BY <2>3, <2>4, <3>1 DEF condition
  <2>7. Congruent(s.mm.storeCount, ds) /\ Congruent(dt, ds + d)
    BY <1>3, <2>1 DEF Writebacks, Exchanges
  <2> HIDE DEF ds, dt, d
  <2>8. Congruent(s.mm.storeCount + d, ds + d)
    BY <1>1, <2>5, <2>7, CongruentRefl, CongruentSums
  <2>9. Congruent(ds + d, dt)
    BY <1>1, <2>7, CongruentSym
  <2>10. Congruent(t.mm.storeCount, ds + d)
    BY <1>1, <2>5, <2>6, <2>8, CongruentTrans
  <2> QED
    BY <1>1, <2>5, <2>9, <2>10, CongruentTrans
<1> QED
  BY <1>2, <1>3 DEF Writebacks

Loads(mem) == mem.loadCount + mem.prefetchCount

LEMMA MemLoadCounts ==
    ASSUME NEW mem, IsMem(mem), NEW prefetch
    PROVE  LET asked == MemLoad(mem, prefetch)
           IN  /\ Congruent(Loads(asked), Loads(mem) + 1)
               /\ asked.storeCount = mem.storeCount
<1> DEFINE asked == MemLoad(mem, prefetch)
           l  == mem.loadCount
           p  == mem.prefetchCount
           ln == Count(~prefetch, l)
           pn == Count(prefetch, p)
           lb == Bit(~prefetch)
           pb == Bit(prefetch)
<1>1. /\ asked.loadCount = ln
      /\ asked.prefetchCount = pn
      /\ asked.storeCount = mem.storeCount
  BY DEF MemLoad, IsMem
<1>2. l \in Counter /\ p \in Counter
  BY DEF IsMem
<1>3. lb + pb = 1
  BY DEF Bit
<1>4. Loads(asked) = asked.loadCount + asked.prefetchCount /\ Loads(mem) = l + p
  BY DEF Loads
<1> HIDE DEF asked, l, p
<1>5. /\ l \in Int /\ ln \in Int /\ lb \in Int /\ Congruent(ln, l + lb)
      /\ p \in Int /\ pn \in Int /\ pb \in Int /\ Congruent(pn, p + pb)
  BY <1>2, CountCongruent
<1> HIDE DEF ln, pn, lb, pb
<1>6. Congruent(ln + pn, (l + lb) + (p + pb))
  BY <1>5, CongruentSums
<1>7. (l + lb) + (p + pb) = (l + p) + 1
  BY <1>3, <1>5
<1> QED
  BY <1>1, <1>4, <1>6, <1>7 DEF asked

LEMMA L2FetchCounts ==
    ASSUME NEW mem, IsMem(mem)
    PROVE  LET asked == L2Fetch(mem)
           IN  /\ Congruent(Loads(asked), Loads(mem) + 1)
               /\ asked.storeCount = mem.storeCount
BY MemLoadCounts, Zenon DEF L2Fetch

\* L2Cache::handleWritePolicy leaves the counters of L2 alone; memory counts
\* the line that is flushed.
LEMMA L2HandledCounters ==
    ASSUME NEW s, IsCaches(s), IsL2(s.l2), IsMem(s.mm), NEW out
    PROVE  LET t == L2HandleWritePolicy(s, out)
           IN  /\ t.l2 = [s.l2 EXCEPT !.table = Settled(s.l2.config, s.l2.table, out)]
               /\ Loads(t.mm) = Loads(s.mm)
               /\ t.mm.storeCount = Count(Flushed(s.l2.config, out) # {}, s.mm.storeCount)
<1> DEFINE t == L2HandleWritePolicy(s, out)
<1>1. /\ t.l2 = [s.l2 EXCEPT !.table = Settled(s.l2.config, s.l2.table, out)]
      /\ t.mm = IF Flushed(s.l2.config, out) = {} THEN s.mm
                ELSE MemStore(s.mm, TheLine(out).tag, TheLine(out).data)
  BY DEF L2HandleWritePolicy, IsCaches
<1>2. /\ MemStore(s.mm, TheLine(out).tag, TheLine(out).data).loadCount = s.mm.loadCount
      /\ MemStore(s.mm, TheLine(out).tag, TheLine(out).data).prefetchCount = s.mm.prefetchCount
      /\ MemStore(s.mm, TheLine(out).tag, TheLine(out).data).storeCount
            = Count(TRUE, s.mm.storeCount)
  BY DEF MemStore, IsMem
<1> HIDE DEF t
<1>3. CASE Flushed(s.l2.config, out) = {}
  <2>1. Count(Flushed(s.l2.config, out) # {}, s.mm.storeCount) = s.mm.storeCount
    BY <1>3 DEF Count
  <2> QED
    BY <1>1, <1>3, <2>1 DEF t
<1>4. CASE Flushed(s.l2.config, out) # {}
  <2>1. Count(Flushed(s.l2.config, out) # {}, s.mm.storeCount) = Count(TRUE, s.mm.storeCount)
    BY <1>4 DEF Count
  <2>2. t.mm = MemStore(s.mm, TheLine(out).tag, TheLine(out).data)
    BY <1>1, <1>4
  <2> QED
    BY <1>1, <1>2, <2>1, <2>2 DEF t, Loads
<1> QED
  BY <1>3, <1>4

\* How load and store of L2 end: with the L2 cache that counted the request,
\* what write returned and the memory that was asked.
L2Ending(s, counted, out, prefetch, asked) ==
    L2HandleWritePolicy([s EXCEPT !.l2 = CountL2Eviction(counted, out, prefetch),
                                  !.mm = asked], out)

LEMMA L2Exchanges ==
    ASSUME NEW s, L2OK(s), NEW counted, IsL2(counted),
           NEW out, NEW prefetch, NEW asked, IsMem(asked), NEW n \in Int,
           counted.config = s.l2.config,
           Evictions(counted) = Evictions(s.l2),
           DirtyEvictions(counted) = DirtyEvictions(s.l2),
           Congruent(Loads(asked), Loads(s.mm) + n),
           asked.storeCount = s.mm.storeCount,
           Grows(s.l2.table, Settled(s.l2.config, counted.table, out), out, n)
    PROVE  LET t == L2Ending(s, counted, out, prefetch, asked)
           IN  /\ Exchanges(s, t, out, n)
               /\ t.l2.loadRequest = counted.loadRequest
               /\ t.l2.prefetchRequest = counted.prefetchRequest
<1> DEFINE evicted == CountL2Eviction(counted, out, prefetch)
           u == [s EXCEPT !.l2 = evicted, !.mm = asked]
           t == L2HandleWritePolicy(u, out)
<1>1. IsL2(evicted) /\ evicted.config = s.l2.config /\ evicted.table = counted.table
  BY CountL2EvictionType
<1>2. /\ Congruent(Evictions(evicted), Evictions(counted) + Bit(Evicted(out)))
      /\ Congruent(DirtyEvictions(evicted), DirtyEvictions(counted) + Bit(EvictedDirty(out)))
      /\ evicted.loadRequest = counted.loadRequest
      /\ evicted.prefetchRequest = counted.prefetchRequest
  BY EvictionIsCounted DEF Grows
<1> HIDE DEF evicted
<1>3. IsCaches(u) /\ u.l2 = evicted /\ u.mm = asked
  BY DEF L2OK, IsCaches
<1> HIDE DEF u
<1>4. /\ t.l2 = [u.l2 EXCEPT !.table = Settled(u.l2.config, u.l2.table, out)]
      /\ Loads(t.mm) = Loads(u.mm)
      /\ t.mm.storeCount = Count(Flushed(u.l2.config, out) # {}, u.mm.storeCount)
  BY <1>1, <1>3, L2HandledCounters
<1> HIDE DEF t
<1>5. /\ t.l2.config = s.l2.config
      /\ t.l2.table = Settled(s.l2.config, counted.table, out)
      /\ t.l2.loadRequest = counted.loadRequest
      /\ t.l2.prefetchRequest = counted.prefetchRequest
      /\ Evictions(t.l2) = Evictions(evicted)
      /\ DirtyEvictions(t.l2) = DirtyEvictions(evicted)
  BY <1>1, <1>2, <1>3, <1>4 DEF IsL2, L2Counters, Evictions, DirtyEvictions
<1>6. /\ Congruent(Loads(t.mm), Loads(s.mm) + n)
      /\ t.mm.storeCount = Count(Flushed(s.l2.config, out) # {}, s.mm.storeCount)
  BY <1>1, <1>3, <1>4
<1>7. /\ Congruent(Evictions(t.l2), Evictions(s.l2) + Bit(Evicted(out)))
      /\ Congruent(DirtyEvictions(t.l2), DirtyEvictions(s.l2) + Bit(EvictedDirty(out)))
  BY <1>2, <1>5
<1>8. Grows(s.l2.table, t.l2.table, out, n)
  BY <1>5
<1>9. Congruent(t.mm.loadCount + t.mm.prefetchCount,
                (s.mm.loadCount + s.mm.prefetchCount) + n)
  BY <1>6 DEF Loads
<1>10. Exchanges(s, t, out, n)
  BY <1>5, <1>6, <1>7, <1>8, <1>9 DEF Exchanges
<1> QED
  BY <1>5, <1>10 DEF L2Ending, t, u, evicted

LEMMA RequestedCounts ==
    ASSUME NEW l2cache, IsL2(l2cache), NEW hit, NEW prefetch, NEW newTable
    PROVE  LET counted == Requested(l2cache, hit, prefetch, newTable)
           IN  /\ Evictions(counted) = Evictions(l2cache)
               /\ DirtyEvictions(counted) = DirtyEvictions(l2cache)
               /\ counted.loadRequest = Count(~prefetch, l2cache.loadRequest)
               /\ counted.prefetchRequest = Count(prefetch, l2cache.prefetchRequest)
BY DEF IsL2, L2Counters, CountL2Request, Requested, Evictions, DirtyEvictions

LEMMA L2LoadCounts ==
    ASSUME NEW s, L2OK(s), NEW adr \in Asked, NEW prefetch
    PROVE  LET t == L2Load(s, adr, prefetch)
           IN  /\ Traffic(s) => Traffic(t)
               /\ Writebacks(s) => Writebacks(t)
               /\ t.l2.loadRequest = Count(~prefetch, s.l2.loadRequest)
               /\ t.l2.prefetchRequest = Count(prefetch, s.l2.prefetchRequest)
<1> DEFINE c     == s.l2.config
           hit   == InL2(s, adr)
           read  == Read(c, s.l2.table, adr)
           write == Write(c, read, adr, L2Data(s, adr))
           out   == IF hit THEN {} ELSE write.line
           newTable == IF hit THEN read ELSE write.table
           counted == Requested(s.l2, hit, prefetch, newTable)
           asked == IF hit THEN s.mm ELSE MemLoad(s.mm, prefetch)
           n     == IF hit THEN 0 ELSE 1
           t     == L2Ending(s, counted, out, prefetch, asked)
<1>1. L2Load(s, adr, prefetch) = t
  BY DEF L2Load, Requested, L2Ending
<1>2. /\ IsConfig(c) /\ IsTable(c, s.l2.table) /\ IsLevel(c, s.l2.table, s.mm.data)
      /\ IsL2(s.l2) /\ IsMem(s.mm)
  BY DEF L2OK, IsL2, IsLevel
<1>3. /\ IsMem(asked) /\ n \in Int
      /\ Congruent(Loads(asked), Loads(s.mm) + n)
      /\ asked.storeCount = s.mm.storeCount
  <2>1. CASE hit
    <3>1. Loads(s.mm) \in Int /\ Loads(s.mm) + 0 = Loads(s.mm)
      BY <1>2, MemCountersAreNumbers DEF Loads
    <3>2. asked = s.mm /\ n = 0
      BY <2>1
    <3> QED
      BY <1>2, <3>1, <3>2, CongruentRefl
  <2>2. CASE ~hit
    <3>1. asked = MemLoad(s.mm, prefetch) /\ n = 1
      BY <2>2
    <3>2. IsMem(MemLoad(s.mm, prefetch))
      BY <1>2, MemType
    <3>3. /\ Congruent(Loads(MemLoad(s.mm, prefetch)), Loads(s.mm) + 1)
          /\ MemLoad(s.mm, prefetch).storeCount = s.mm.storeCount
      BY <1>2, MemLoadCounts
    <3> QED
      BY <3>1, <3>2, <3>3
  <2> QED
    BY <2>1, <2>2
<1>4. Grows(s.l2.table, Settled(c, newTable, out), out, n)
  <2>1. CASE hit
    <3>1. TagsOf(read) = TagsOf(s.l2.table)
      BY <1>2, ReadTable, TagsOfLines
    <3>2. out = {} /\ newTable = read /\ n = 0
      BY <2>1
    <3>3. Settled(c, read, {}) = read
      BY NothingReturned
    <3>4. Bit(Evicted({})) = 0
      BY DEF Bit, Evicted
    <3> QED
      BY <3>1, <3>2, <3>3, <3>4 DEF AtMostOne, Grows
  <2>2. CASE ~hit
    <3>1. read = s.l2.table /\ L2Data(s, adr) = s.mm.data[DataTag(c, adr)]
      BY <2>2 DEF Read, InL2, L2Data
    <3>2. ~IsCached(c, s.l2.table, adr)
      BY <2>2 DEF InL2
    <3>3. out = write.line /\ newTable = write.table /\ n = 1
      BY <2>2
    <3>4. Fills(c, s.l2.table, s.mm.data, adr, write)
      BY <1>2, <3>1, <3>2, AllocateLevel
    <3>5. L2Data(s, adr) \in Data
      BY L2DataShown
    <3>6. Grows(s.l2.table, write.table, write.line, 1)
      BY <1>2, <3>1, <3>2, <3>5, AllocateTags
    <3> HIDE DEF write, out, newTable, n, c
    <3>7. Settled(c, write.table, write.line) = write.table
      BY <3>4 DEF Fills
    <3> QED
      BY <3>3, <3>6, <3>7
  <2> QED
    BY <2>1, <2>2
<1> HIDE DEF hit, out, newTable, asked, n
<1>5. IsL2(counted) /\ counted.config = c /\ counted.table = newTable
  BY <1>2, RequestedType
<1>6. /\ Evictions(counted) = Evictions(s.l2)
      /\ DirtyEvictions(counted) = DirtyEvictions(s.l2)
      /\ counted.loadRequest = Count(~prefetch, s.l2.loadRequest)
      /\ counted.prefetchRequest = Count(prefetch, s.l2.prefetchRequest)
  BY <1>2, RequestedCounts
<1> HIDE DEF counted
<1>7. /\ Exchanges(s, t, out, n)
      /\ t.l2.loadRequest = counted.loadRequest
      /\ t.l2.prefetchRequest = counted.prefetchRequest
  BY <1>2, <1>3, <1>4, <1>5, <1>6, L2Exchanges
<1>8. IsL2(t.l2) /\ IsMem(t.mm)
  BY <1>1, L2LoadStep DEF L2OK
<1> HIDE DEF t
<1>9. (Traffic(s) => Traffic(t)) /\ (Writebacks(s) => Writebacks(t))
  BY <1>2, <1>3, <1>7, <1>8, ExchangesBalance
<1> QED
  BY <1>1, <1>6, <1>7, <1>9

LEMMA L2StoreCounts ==
    ASSUME NEW s, L2OK(s), NEW adr \in Asked, NEW d \in Data
    PROVE  LET t == L2Store(s, adr, d)
           IN  /\ Traffic(s) => Traffic(t)
               /\ Writebacks(s) => Writebacks(t)
               /\ t.l2.loadRequest = s.l2.loadRequest
               /\ t.l2.prefetchRequest = s.l2.prefetchRequest
<1> DEFINE c     == s.l2.config
           hit   == InL2(s, adr)
           read  == Read(c, s.l2.table, adr)
           alloc == Write(c, read, adr, L2Data(s, adr))
           write == Write(c, IF hit THEN read ELSE alloc.table, adr, d)
           out   == IF hit THEN write.line ELSE alloc.line
           newTable == write.table
           counted == [s.l2 EXCEPT !.table = newTable]
           asked == IF hit THEN s.mm ELSE L2Fetch(s.mm)
           n     == IF hit THEN 0 ELSE 1
           prefetch == FALSE
           t     == L2Ending(s, counted, out, prefetch, asked)
<1>1. L2Store(s, adr, d) = t
  BY DEF L2Store, L2Ending
<1>2. /\ IsConfig(c) /\ IsTable(c, s.l2.table) /\ IsLevel(c, s.l2.table, s.mm.data)
      /\ IsL2(s.l2) /\ IsMem(s.mm)
  BY DEF L2OK, IsL2, IsLevel
<1>3. /\ IsMem(asked) /\ n \in Int
      /\ Congruent(Loads(asked), Loads(s.mm) + n)
      /\ asked.storeCount = s.mm.storeCount
  <2>1. CASE hit
    <3>1. Loads(s.mm) \in Int /\ Loads(s.mm) + 0 = Loads(s.mm)
      BY <1>2, MemCountersAreNumbers DEF Loads
    <3>2. asked = s.mm /\ n = 0
      BY <2>1
    <3> QED
      BY <1>2, <3>1, <3>2, CongruentRefl
  <2>2. CASE ~hit
    <3>1. asked = L2Fetch(s.mm) /\ n = 1
      BY <2>2
    <3>2. IsMem(L2Fetch(s.mm))
      BY <1>2, MemType
    <3>3. /\ Congruent(Loads(L2Fetch(s.mm)), Loads(s.mm) + 1)
          /\ L2Fetch(s.mm).storeCount = s.mm.storeCount
      BY <1>2, L2FetchCounts
    <3> QED
      BY <3>1, <3>2, <3>3
  <2> QED
    BY <2>1, <2>2
<1>4. Grows(s.l2.table, Settled(c, newTable, out), out, n)
  <2>1. CASE hit
    <3>1. IsTable(c, read) /\ LinesOf(read) = LinesOf(s.l2.table)
      BY <1>2, ReadTable
    <3>2. TagsOf(read) = TagsOf(s.l2.table)
      BY <3>1, TagsOfLines
    <3>3. IsCached(c, read, adr)
      BY <1>2, <2>1, <3>1, LinesOfTable DEF InL2
    <3>4. write = Write(c, read, adr, d) /\ out = write.line /\ n = 0
      BY <2>1
    <3> HIDE DEF read, alloc, write, out, c, n
    <3>5. /\ TagsOf(Settled(c, write.table, write.line)) = TagsOf(read)
          /\ AtMostOne(write.line)
          /\ ~Evicted(write.line)
      BY <1>2, <3>1, <3>3, <3>4, RewriteTags
    <3>6. Bit(Evicted(write.line)) = 0
      BY <3>5 DEF Bit
    <3> QED
      BY <3>2, <3>4, <3>5, <3>6 DEF Grows
  <2>2. CASE ~hit
    <3>1. read = s.l2.table /\ L2Data(s, adr) = s.mm.data[DataTag(c, adr)]
      BY <2>2 DEF Read, InL2, L2Data
    <3>2. ~IsCached(c, s.l2.table, adr)
      BY <2>2 DEF InL2
    <3>3. write = Write(c, alloc.table, adr, d) /\ out = alloc.line /\ n = 1
      BY <2>2
    <3>4. Fills(c, s.l2.table, s.mm.data, adr, alloc)
      BY <1>2, <3>1, <3>2, AllocateLevel
    <3>5. L2Data(s, adr) \in Data
      BY L2DataShown
    <3>6. Grows(s.l2.table, alloc.table, alloc.line, 1)
      BY <1>2, <3>1, <3>2, <3>5, AllocateTags
    <3> HIDE DEF alloc, read, write, out, c, n
    <3>7. /\ Settled(c, write.table, alloc.line) = write.table
          /\ IsTable(c, alloc.table)
          /\ IsCached(c, alloc.table, adr)
      BY <3>4 DEF Fills, IsLevel
    <3>8. TagsOf(write.table) = TagsOf(alloc.table)
      BY <1>2, <3>3, <3>7, RewriteTags
    <3> QED
      BY <3>3, <3>6, <3>7, <3>8 DEF Grows
  <2> QED
    BY <2>1, <2>2
<1> HIDE DEF hit, out, newTable, asked, n
<1>5. /\ IsL2(counted) /\ counted.config = c /\ counted.table = newTable
      /\ Evictions(counted) = Evictions(s.l2)
      /\ DirtyEvictions(counted) = DirtyEvictions(s.l2)
      /\ counted.loadRequest = s.l2.loadRequest
      /\ counted.prefetchRequest = s.l2.prefetchRequest
  BY <1>2 DEF IsL2, L2Counters, Evictions, DirtyEvictions
<1> HIDE DEF counted, prefetch
<1>6. /\ Exchanges(s, t, out, n)
      /\ t.l2.loadRequest = counted.loadRequest
      /\ t.l2.prefetchRequest = counted.prefetchRequest
  BY <1>2, <1>3, <1>4, <1>5, L2Exchanges
<1>7. IsL2(t.l2) /\ IsMem(t.mm)
  BY <1>1, L2StoreStep DEF L2OK
<1> HIDE DEF t
<1>8. (Traffic(s) => Traffic(t)) /\ (Writebacks(s) => Writebacks(t))
  BY <1>2, <1>3, <1>6, <1>7, ExchangesBalance
<1> QED
  BY <1>1, <1>5, <1>6, <1>8

------------------------------------------------------------------------------
(* The L1 caches and L2: what missed and what was asked *)

DemandMisses(cache) ==
    (cache.loadAccess - cache.loadHit) + (cache.storeAccess - cache.storeHit)

PrefetchMisses(cache) == cache.prefetchAccess - cache.prefetchHit

FetchMisses(cache) == cache.loadAccess - cache.loadHit

\* The requests of L2 are the misses of the L1 caches.
Tally(s) ==
    /\ Congruent(s.l2.loadRequest, DemandMisses(s.l1d) + FetchMisses(s.l1i))
    /\ Congruent(s.l2.prefetchRequest, PrefetchMisses(s.l1d))

LEMMA L1CountersAreNumbers ==
    /\ \A cache : IsL1D(cache) =>
        DemandMisses(cache) \in Int /\ PrefetchMisses(cache) \in Int
    /\ \A cache : IsL1I(cache) => FetchMisses(cache) \in Int
<1>1. Counter \subseteq Int
  BY CounterMaxAssumption DEF Counter
<1>2. ASSUME NEW cache, IsL1D(cache)
      PROVE  DemandMisses(cache) \in Int /\ PrefetchMisses(cache) \in Int
  <2>1. \A field \in L1DCounters : cache[field] \in Int
    BY <1>1, <1>2 DEF IsL1D
  <2> QED
    BY <2>1 DEF L1DCounters, DemandMisses, PrefetchMisses
<1>3. ASSUME NEW cache, IsL1I(cache)
      PROVE  FetchMisses(cache) \in Int
  <2>1. \A field \in L1ICounters : cache[field] \in Int
    BY <1>1, <1>3 DEF IsL1I
  <2> QED
    BY <2>1 DEF L1ICounters, FetchMisses
<1> QED
  BY <1>2, <1>3

LEMMA KeepsPace ==
    ASSUME NEW a \in Int, NEW b \in Int, NEW an \in Int, NEW bn \in Int, NEW e \in Int,
           Congruent(a, b), Congruent(an, a + e), Congruent(bn, b + e)
    PROVE  Congruent(an, bn)
<1> DEFINE ae == a + e
           be == b + e
<1>1. ae \in Int /\ be \in Int /\ Congruent(ae, be)
  <2>1. Congruent(e, e)
    BY CongruentRefl
  <2>2. Congruent(a + e, b + e)
    BY <2>1, CongruentSums
  <2> QED
    BY <2>2
<1>2. Congruent(an, ae) /\ Congruent(bn, be)
  OBVIOUS
<1> HIDE DEF ae, be
<1>3. Congruent(be, bn)
  BY <1>1, <1>2, CongruentSym
<1>4. Congruent(an, be)
  BY <1>1, <1>2, CongruentTrans
<1> QED
  BY <1>1, <1>3, <1>4, CongruentTrans

\* A cache that counts an access, and a hit when it has one, counts a miss
\* when it has none.
LEMMA MissCounts ==
    ASSUME NEW access \in Counter, NEW hits \in Counter, NEW asked, NEW hit
    PROVE  LET missed == Count(asked, access) - Count(hit /\ asked, hits)
           IN  /\ access - hits \in Int /\ missed \in Int
               /\ Congruent(missed, (access - hits) + Bit(~hit /\ asked))
<1> DEFINE an == Count(asked, access)
           hn == Count(hit /\ asked, hits)
           ab == Bit(asked)
           hb == Bit(hit /\ asked)
           mb == Bit(~hit /\ asked)
<1>1. ab - hb = mb
  BY DEF Bit
<1>2. /\ access \in Int /\ an \in Int /\ ab \in Int /\ Congruent(an, access + ab)
      /\ hits \in Int /\ hn \in Int /\ hb \in Int /\ Congruent(hn, hits + hb)
  BY CountCongruent
<1> HIDE DEF an, hn, ab, hb, mb
<1>3. Congruent(an - hn, (access + ab) - (hits + hb))
  BY <1>2, CongruentSums
<1>4. (access + ab) - (hits + hb) = (access - hits) + mb
  BY <1>1, <1>2
<1> QED
  BY <1>2, <1>3, <1>4 DEF an, hn, mb

\* L1DCache::handleWritePolicy asks L2 for nothing.
LEMMA EndingCounts ==
    ASSUME NEW b, L2OK(b), NEW cache, IsL1D(cache), NEW out, NEW stale,
           Flushed(cache.config, out) # {} =>
                TheLine(out).tag \in LineTags /\ TheLine(out).data \in Data
    PROVE  LET t == Ending(b, cache, out, stale)
           IN  /\ Traffic(b) => Traffic(t)
               /\ Writebacks(b) => Writebacks(t)
               /\ t.l2.loadRequest = b.l2.loadRequest
               /\ t.l2.prefetchRequest = b.l2.prefetchRequest
               /\ t.l1i = b.l1i
               /\ DemandMisses(t.l1d) = DemandMisses(cache)
               /\ PrefetchMisses(t.l1d) = PrefetchMisses(cache)
<1> DEFINE u == [b EXCEPT !.l1d = cache]
           stored == Flushed(u.l1d.config, out) # {}
           settled ==
            [u EXCEPT
                !.l1d.table = Settled(u.l1d.config, @, out),
                !.l1d.writebacksToL2 =
                    Count(stored /\ u.l1d.config.writePolicy = WRITE_BACK, @)]
           h == L1DHandleWritePolicy(u, out)
           t == CountModified(h, out, stale)
<1>1. IsCaches(u) /\ u.l1d = cache /\ u.l1i = b.l1i /\ u.l2 = b.l2 /\ u.mm = b.mm
  BY DEF L2OK, IsCaches
<1> HIDE DEF u
<1>2. /\ IsCaches(settled) /\ settled.l1i = b.l1i /\ settled.l2 = b.l2 /\ settled.mm = b.mm
      /\ DemandMisses(settled.l1d) = DemandMisses(cache)
      /\ PrefetchMisses(settled.l1d) = PrefetchMisses(cache)
      /\ DOMAIN settled.l1d = DOMAIN cache
  BY <1>1 DEF IsCaches, IsL1D, L1DCounters, DemandMisses, PrefetchMisses
<1>3. h = IF stored THEN L2Store(settled, TheLine(out).tag, TheLine(out).data)
                    ELSE settled
  BY DEF L1DHandleWritePolicy
<1> HIDE DEF settled, h
<1>4. /\ L2OK(settled)
      /\ Traffic(b) => Traffic(settled)
      /\ Writebacks(b) => Writebacks(settled)
  BY <1>2 DEF L2OK, Traffic, Writebacks
<1>5. /\ IsCaches(h) /\ h.l1d = settled.l1d /\ h.l1i = b.l1i
      /\ Traffic(b) => Traffic(h)
      /\ Writebacks(b) => Writebacks(h)
      /\ h.l2.loadRequest = b.l2.loadRequest
      /\ h.l2.prefetchRequest = b.l2.prefetchRequest
  <2>1. CASE stored
    <3> DEFINE adr == TheLine(out).tag
               d   == TheLine(out).data
               v   == L2Store(settled, adr, d)
    <3>1. adr \in Asked /\ d \in Data
      BY <1>1, <2>1 DEF Asked
    <3> HIDE DEF adr, d
    <3>2. /\ Traffic(settled) => Traffic(v)
          /\ Writebacks(settled) => Writebacks(v)
          /\ v.l2.loadRequest = settled.l2.loadRequest
          /\ v.l2.prefetchRequest = settled.l2.prefetchRequest
      BY <1>4, <3>1, L2StoreCounts
    <3>3. L2OK(v) /\ OnlyBelow(settled, v)
      BY <1>4, <3>1, L2StoreStep
    <3>4. h = v
      BY <1>3, <2>1 DEF adr, d
    <3> HIDE DEF v
    <3> QED
      BY <1>2, <1>4, <3>2, <3>3, <3>4 DEF L2OK, OnlyBelow
  <2>2. CASE ~stored
    BY <1>2, <1>3, <1>4, <2>2
  <2> QED
    BY <2>1, <2>2
<1>6. /\ t.l1i = h.l1i /\ t.l2 = h.l2 /\ t.mm = h.mm
      /\ DemandMisses(t.l1d) = DemandMisses(h.l1d)
      /\ PrefetchMisses(t.l1d) = PrefetchMisses(h.l1d)
  BY <1>2, <1>5 DEF CountModified, IsCaches, IsL1D, L1DCounters, DemandMisses, PrefetchMisses
<1>7. Ending(b, cache, out, stale) = t
  BY DEF Ending, t, h, u
<1> HIDE DEF t
<1>8. (Traffic(h) => Traffic(t)) /\ (Writebacks(h) => Writebacks(t))
  BY <1>6 DEF Traffic, Writebacks
<1> QED
  BY <1>2, <1>5, <1>6, <1>7, <1>8

\* The levels below after a request of an L1 cache that hit or not.
LevelsBelow(s, hit, adr, prefetch) == IF hit THEN s ELSE L2Load(s, adr, prefetch)

CountsBelow(s, b, hit, prefetch) ==
    /\ L2OK(b)
    /\ b.l1d = s.l1d /\ b.l1i = s.l1i
    /\ Traffic(s) => Traffic(b)
    /\ Writebacks(s) => Writebacks(b)
    /\ Congruent(b.l2.loadRequest, s.l2.loadRequest + Bit(~hit /\ ~prefetch))
    /\ Congruent(b.l2.prefetchRequest, s.l2.prefetchRequest + Bit(~hit /\ prefetch))

LEMMA LevelsBelowCount ==
    ASSUME NEW s, L2OK(s), NEW hit, NEW adr \in Asked, NEW prefetch
    PROVE  CountsBelow(s, LevelsBelow(s, hit, adr, prefetch), hit, prefetch)
<1> DEFINE l == s.l2.loadRequest
           p == s.l2.prefetchRequest
<1>1. l \in Counter /\ p \in Counter /\ l \in Int /\ p \in Int
  BY L2CountersAreNumbers DEF L2OK, L2Counters
<1>2. CASE hit
  <2>1. LevelsBelow(s, hit, adr, prefetch) = s
    BY <1>2 DEF LevelsBelow
  <2>2. Bit(~hit /\ ~prefetch) = 0 /\ Bit(~hit /\ prefetch) = 0
    BY <1>2 DEF Bit
  <2>3. l + 0 = l /\ p + 0 = p /\ Congruent(l, l) /\ Congruent(p, p)
    BY <1>1, CongruentRefl
  <2> QED
    BY <2>1, <2>2, <2>3 DEF CountsBelow
<1>3. CASE ~hit
  <2> DEFINE t == L2Load(s, adr, prefetch)
  <2>1. LevelsBelow(s, hit, adr, prefetch) = t
    BY <1>3 DEF LevelsBelow
  <2>2. /\ Traffic(s) => Traffic(t)
        /\ Writebacks(s) => Writebacks(t)
        /\ t.l2.loadRequest = Count(~prefetch, l)
        /\ t.l2.prefetchRequest = Count(prefetch, p)
    BY L2LoadCounts
  <2>3. L2OK(t) /\ t.l1d = s.l1d /\ t.l1i = s.l1i
    BY L2LoadStep DEF OnlyBelow
  <2>4. Bit(~hit /\ ~prefetch) = Bit(~prefetch) /\ Bit(~hit /\ prefetch) = Bit(prefetch)
    BY <1>3 DEF Bit
  <2> HIDE DEF t, l, p
  <2>5. /\ Congruent(Count(~prefetch, l), l + Bit(~prefetch))
        /\ Congruent(Count(prefetch, p), p + Bit(prefetch))
    BY <1>1, CountCongruent
  <2> QED
    BY <2>1, <2>2, <2>3, <2>4, <2>5 DEF l, p, CountsBelow
<1> QED
  BY <1>2, <1>3

\* The invariants of the counters, and that t keeps those s has.
Keeps(s, t) ==
    /\ Traffic(s) => Traffic(t)
    /\ Writebacks(s) => Writebacks(t)
    /\ Tally(s) => Tally(t)

\* L2 counts a request for each miss.
LEMMA TallyKept ==
    ASSUME NEW s, IsL2(s.l2), IsL1D(s.l1d), IsL1I(s.l1i),
           NEW t, IsL2(t.l2), IsL1D(t.l1d), IsL1I(t.l1i),
           NEW asked \in Int, NEW fetched \in Int,
           Congruent(t.l2.loadRequest, s.l2.loadRequest + asked),
           Congruent(DemandMisses(t.l1d) + FetchMisses(t.l1i),
                     (DemandMisses(s.l1d) + FetchMisses(s.l1i)) + asked),
           Congruent(t.l2.prefetchRequest, s.l2.prefetchRequest + fetched),
           Congruent(PrefetchMisses(t.l1d), PrefetchMisses(s.l1d) + fetched)
    PROVE  Tally(s) => Tally(t)
<1> DEFINE ls == s.l2.loadRequest
           lt == t.l2.loadRequest
           ps == s.l2.prefetchRequest
           pt == t.l2.prefetchRequest
           ds == DemandMisses(s.l1d) + FetchMisses(s.l1i)
           dt == DemandMisses(t.l1d) + FetchMisses(t.l1i)
           ms == PrefetchMisses(s.l1d)
           mt == PrefetchMisses(t.l1d)
<1>1. /\ ls \in Int /\ lt \in Int /\ ps \in Int /\ pt \in Int
      /\ ds \in Int /\ dt \in Int /\ ms \in Int /\ mt \in Int
  BY L2CountersAreNumbers, L1CountersAreNumbers DEF L2Counters
<1>2. /\ Congruent(lt, ls + asked) /\ Congruent(dt, ds + asked)
      /\ Congruent(pt, ps + fetched) /\ Congruent(mt, ms + fetched)
  OBVIOUS
<1>3. Tally(s) <=> Congruent(ls, ds) /\ Congruent(ps, ms)
  BY DEF Tally
<1>4. Tally(t) <=> Congruent(lt, dt) /\ Congruent(pt, mt)
  BY DEF Tally
<1> HIDE DEF ls, lt, ps, pt, ds, dt, ms, mt
<1>5. Congruent(ls, ds) => Congruent(lt, dt)
  BY <1>1, <1>2, KeepsPace
<1>6. Congruent(ps, ms) => Congruent(pt, mt)
  BY <1>1, <1>2, KeepsPace
<1> QED
  BY <1>3, <1>4, <1>5, <1>6

LEMMA L1DLoadCounts ==
    ASSUME NEW s, L2OK(s), L1DOK(s), L1IOK(s), NEW adr \in Addresses, NEW prefetch,
           NEW stale
    PROVE  Keeps(s, L1DLoad(s, adr, prefetch, stale))
<1> DEFINE c     == s.l1d.config
           hit   == InL1D(s, adr)
           read  == Read(c, s.l1d.table, adr)
           write == Write(c, read, adr, L2Data(s, adr))
           out   == IF hit THEN {} ELSE write.line
           b     == LevelsBelow(s, hit, adr, prefetch)
           newTable == IF hit THEN read ELSE write.table
           counted  == LoadCounted(s.l1d, hit, prefetch, adr, newTable)
           t     == Ending(b, counted, out, stale)
<1>1. L1DLoad(s, adr, prefetch, stale) = t
  BY DEF L1DLoad, LoadCounted, Ending, LevelsBelow
<1>2. /\ IsConfig(c) /\ IsTable(c, s.l1d.table)
      /\ IsLevel(c, s.l1d.table, L2Shows(s))
      /\ adr \in Asked
      /\ DataTag(c, adr) = Tag(adr)
      /\ IsL1D(s.l1d)
  BY AskedProperties DEF L1DOK, IsL1D, IsLevel, Asked
<1>3. Flushed(c, out) # {} =>
        TheLine(out).tag \in LineTags /\ TheLine(out).data \in Data
  <2>1. CASE hit
    BY <2>1, NothingReturned
  <2>2. CASE ~hit
    <3>1. read = s.l1d.table /\ L2Data(s, adr) = L2Shows(s)[DataTag(c, adr)]
      BY <1>2, <2>2, L2DataShown DEF Read, InL1D
    <3>2. ~IsCached(c, s.l1d.table, adr)
      BY <2>2 DEF InL1D
    <3>3. Fills(c, s.l1d.table, L2Shows(s), adr, write)
      BY <1>2, <3>1, <3>2, AllocateLevel
    <3> QED
      BY <2>2, <3>3 DEF Fills
  <2> QED
    BY <2>1, <2>2
<1> HIDE DEF hit, out, newTable
<1>4. /\ L2OK(b)
      /\ b.l1d = s.l1d /\ b.l1i = s.l1i
      /\ Traffic(s) => Traffic(b)
      /\ Writebacks(s) => Writebacks(b)
      /\ Congruent(b.l2.loadRequest, s.l2.loadRequest + Bit(~hit /\ ~prefetch))
      /\ Congruent(b.l2.prefetchRequest, s.l2.prefetchRequest + Bit(~hit /\ prefetch))
  BY <1>2, LevelsBelowCount DEF CountsBelow
<1> HIDE DEF b
<1>5. IsL1D(counted) /\ counted.config = c
  BY <1>2, LoadCountedType
<1>6. /\ counted.loadAccess = Count(~prefetch, s.l1d.loadAccess)
      /\ counted.loadHit = Count(hit /\ ~prefetch, s.l1d.loadHit)
      /\ counted.prefetchAccess = Count(prefetch, s.l1d.prefetchAccess)
      /\ counted.prefetchHit = Count(hit /\ prefetch, s.l1d.prefetchHit)
      /\ counted.storeAccess = s.l1d.storeAccess
      /\ counted.storeHit = s.l1d.storeHit
  BY <1>2 DEF LoadCounted, IsL1D, L1DCounters
<1> HIDE DEF counted
<1>7. /\ Congruent(DemandMisses(counted), DemandMisses(s.l1d) + Bit(~hit /\ ~prefetch))
      /\ Congruent(PrefetchMisses(counted), PrefetchMisses(s.l1d) + Bit(~hit /\ prefetch))
  <2> DEFINE missed == Count(~prefetch, s.l1d.loadAccess) - Count(hit /\ ~prefetch, s.l1d.loadHit)
             before == s.l1d.loadAccess - s.l1d.loadHit
             stores == s.l1d.storeAccess - s.l1d.storeHit
             bit    == Bit(~hit /\ ~prefetch)
  <2>1. /\ s.l1d.loadAccess \in Counter /\ s.l1d.loadHit \in Counter
        /\ s.l1d.prefetchAccess \in Counter /\ s.l1d.prefetchHit \in Counter
        /\ s.l1d.storeAccess \in Counter /\ s.l1d.storeHit \in Counter
    BY <1>2 DEF IsL1D, L1DCounters
  <2>2. stores \in Int /\ bit \in Int
    BY <2>1, CounterMaxAssumption DEF Counter, Bit
  <2>3. before \in Int /\ missed \in Int /\ Congruent(missed, before + bit)
    BY <2>1, MissCounts
  <2>4. Congruent(PrefetchMisses(counted), PrefetchMisses(s.l1d) + Bit(~hit /\ prefetch))
    BY <1>6, <2>1, MissCounts DEF PrefetchMisses
  <2>5. DemandMisses(counted) = missed + stores /\ DemandMisses(s.l1d) = before + stores
    BY <1>6 DEF DemandMisses
  <2> HIDE DEF missed, before, stores, bit
  <2>6. Congruent(missed + stores, (before + bit) + stores)
    BY <2>2, <2>3, CongruentRefl, CongruentSums
  <2>7. (before + bit) + stores = (before + stores) + bit
    BY <2>2, <2>3
  <2> QED
    BY <2>4, <2>5, <2>6, <2>7 DEF bit
<1>8. /\ Traffic(b) => Traffic(t)
      /\ Writebacks(b) => Writebacks(t)
      /\ t.l2.loadRequest = b.l2.loadRequest
      /\ t.l2.prefetchRequest = b.l2.prefetchRequest
      /\ t.l1i = b.l1i
      /\ DemandMisses(t.l1d) = DemandMisses(counted)
      /\ PrefetchMisses(t.l1d) = PrefetchMisses(counted)
  BY <1>3, <1>4, <1>5, EndingCounts
<1>9. L2OK(t) /\ L1DOK(t)
  BY <1>1, L1DLoadStep
<1> HIDE DEF t
<1>10. Tally(s) => Tally(t)
  <2> DEFINE asked   == Bit(~hit /\ ~prefetch)
             fetched == Bit(~hit /\ prefetch)
             ds == DemandMisses(s.l1d)
             dt == DemandMisses(t.l1d)
             f  == FetchMisses(s.l1i)
  <2>1. /\ ds \in Int /\ dt \in Int /\ f \in Int /\ asked \in Int /\ fetched \in Int
        /\ IsL1I(t.l1i)
    BY <1>4, <1>8, <1>9, L1CountersAreNumbers DEF L1DOK, L1IOK, Bit
  <2>2. FetchMisses(t.l1i) = f
    BY <1>4, <1>8
  <2>3. /\ Congruent(t.l2.loadRequest, s.l2.loadRequest + asked)
        /\ Congruent(t.l2.prefetchRequest, s.l2.prefetchRequest + fetched)
        /\ Congruent(PrefetchMisses(t.l1d), PrefetchMisses(s.l1d) + fetched)
        /\ Congruent(dt, ds + asked)
    BY <1>4, <1>7, <1>8
  <2> HIDE DEF asked, fetched
  <2>4. Congruent(dt + f, (ds + f) + asked)
    <3> HIDE DEF ds, dt, f
    <3> DEFINE sum == ds + asked
    <3>1. sum \in Int /\ Congruent(dt, sum) /\ Congruent(f, f) /\ sum + f = (ds + f) + asked
      BY <2>1, <2>3, CongruentRefl
    <3> HIDE DEF sum
    <3>2. Congruent(dt + f, sum + f)
      BY <2>1, <3>1, CongruentSums
    <3> QED
      BY <3>1, <3>2
  <2>5. Congruent(DemandMisses(t.l1d) + FetchMisses(t.l1i),
                  (DemandMisses(s.l1d) + FetchMisses(s.l1i)) + asked)
    BY <2>2, <2>4
  <2>6. IsL2(s.l2) /\ IsL2(t.l2) /\ IsL1D(s.l1d) /\ IsL1D(t.l1d) /\ IsL1I(s.l1i)
    BY <1>9 DEF L2OK, L1DOK, L1IOK
  <2> QED
    BY <2>1, <2>3, <2>5, <2>6, TallyKept
<1> QED
  BY <1>1, <1>4, <1>8, <1>10 DEF Keeps

LEMMA L1DStoreCounts ==
    ASSUME NEW s, L2OK(s), L1DOK(s), L1IOK(s), NEW adr \in Addresses, NEW d \in Data,
           NEW stale
    PROVE  Keeps(s, L1DStore(s, adr, d, stale))
<1> DEFINE c     == s.l1d.config
           prefetch == FALSE
           hit   == InL1D(s, adr)
           read  == Read(c, s.l1d.table, adr)
           alloc == Write(c, read, adr, L2Data(s, adr))
           write == Write(c, IF hit THEN read ELSE alloc.table, adr, d)
           out   == IF hit THEN write.line ELSE alloc.line
           b     == LevelsBelow(s, hit, adr, prefetch)
           newTable == write.table
           counted == StoreCounted(s.l1d, hit, newTable)
           t     == Ending(b, counted, out, stale)
<1>1. L1DStore(s, adr, d, stale) = t
  BY DEF L1DStore, StoreCounted, Ending, LevelsBelow
<1>2. /\ IsConfig(c) /\ IsTable(c, s.l1d.table)
      /\ IsLevel(c, s.l1d.table, L2Shows(s))
      /\ adr \in Asked
      /\ DataTag(c, adr) = Tag(adr)
      /\ Tag(adr) \in LineTags
      /\ IsL1D(s.l1d)
  BY AskedProperties DEF L1DOK, IsL1D, IsLevel, Asked
<1>3. Flushed(c, out) # {} =>
        TheLine(out).tag \in LineTags /\ TheLine(out).data \in Data
  <2>1. CASE hit
    <3>1. IsTable(c, read) /\ LinesOf(read) = LinesOf(s.l1d.table)
      BY <1>2, ReadTable
    <3>2. IsLevel(c, read, L2Shows(s))
      BY <1>2, <3>1, ShownSameLines DEF IsLevel
    <3>3. IsCached(c, read, adr)
      BY <1>2, <2>1, <3>1, LinesOfTable DEF InL1D
    <3>4. write = Write(c, read, adr, d) /\ out = write.line
      BY <2>1
    <3> HIDE DEF read, alloc, write, out, c
    <3>5. Stores(c, read, L2Shows(s), adr, d, write)
      BY <1>2, <3>2, <3>3, <3>4, StoreHitLevel
    <3> QED
      BY <1>2, <3>4, <3>5 DEF Stores
  <2>2. CASE ~hit
    <3>1. read = s.l1d.table /\ L2Data(s, adr) = L2Shows(s)[DataTag(c, adr)]
      BY <1>2, <2>2, L2DataShown DEF Read, InL1D
    <3>2. ~IsCached(c, s.l1d.table, adr)
      BY <2>2 DEF InL1D
    <3>3. Fills(c, s.l1d.table, L2Shows(s), adr, alloc)
      BY <1>2, <3>1, <3>2, AllocateLevel
    <3> QED
      BY <2>2, <3>3 DEF Fills
  <2> QED
    BY <2>1, <2>2
<1> DEFINE missed == Bit(~hit /\ ~prefetch)
<1>4. ~prefetch /\ Bit(~hit /\ prefetch) = 0
  BY DEF Bit
<1> HIDE DEF prefetch, hit, out, newTable
<1>5. /\ L2OK(b)
      /\ b.l1d = s.l1d /\ b.l1i = s.l1i
      /\ Traffic(s) => Traffic(b)
      /\ Writebacks(s) => Writebacks(b)
      /\ Congruent(b.l2.loadRequest, s.l2.loadRequest + Bit(~hit /\ ~prefetch))
      /\ Congruent(b.l2.prefetchRequest, s.l2.prefetchRequest + Bit(~hit /\ prefetch))
  <2>1. CountsBelow(s, LevelsBelow(s, hit, adr, prefetch), hit, prefetch)
    BY <1>2, LevelsBelowCount, Zenon
  <2> QED
    BY <2>1 DEF CountsBelow
<1> HIDE DEF b
<1>6. IsL1D(counted) /\ counted.config = c
  BY <1>2, StoreCountedType
<1>7. /\ counted.storeAccess = Count(TRUE, s.l1d.storeAccess)
      /\ counted.storeHit = Count(hit, s.l1d.storeHit)
      /\ counted.loadAccess = s.l1d.loadAccess
      /\ counted.loadHit = s.l1d.loadHit
      /\ counted.prefetchAccess = s.l1d.prefetchAccess
      /\ counted.prefetchHit = s.l1d.prefetchHit
  BY <1>2 DEF StoreCounted, IsL1D, L1DCounters
<1> HIDE DEF counted
<1>8. /\ Congruent(DemandMisses(counted), DemandMisses(s.l1d) + missed)
      /\ PrefetchMisses(counted) = PrefetchMisses(s.l1d)
  <2> DEFINE after  == counted.storeAccess - counted.storeHit
             before == s.l1d.storeAccess - s.l1d.storeHit
             loads  == s.l1d.loadAccess - s.l1d.loadHit
  <2>1. /\ s.l1d.loadAccess \in Counter /\ s.l1d.loadHit \in Counter
        /\ s.l1d.storeAccess \in Counter /\ s.l1d.storeHit \in Counter
    BY <1>2 DEF IsL1D, L1DCounters
  <2>2. loads \in Int /\ missed \in Int
    BY <2>1, CounterMaxAssumption DEF Counter, Bit
  <2>3. before \in Int /\ after \in Int /\ Congruent(after, before + missed)
    <3>1. /\ counted.storeAccess = Count(~prefetch, s.l1d.storeAccess)
          /\ counted.storeHit = Count(hit /\ ~prefetch, s.l1d.storeHit)
      BY <1>4, <1>7 DEF Count
    <3> QED
      BY <2>1, <3>1, MissCounts
  <2>4. PrefetchMisses(counted) = PrefetchMisses(s.l1d)
    BY <1>7 DEF PrefetchMisses
  <2>5. DemandMisses(counted) = loads + after /\ DemandMisses(s.l1d) = loads + before
    BY <1>7 DEF DemandMisses
  <2> HIDE DEF after, before, loads, missed
  <2>6. Congruent(loads + after, loads + (before + missed))
    BY <2>2, <2>3, CongruentRefl, CongruentSums
  <2>7. loads + (before + missed) = (loads + before) + missed
    BY <2>2, <2>3
  <2> QED
    BY <2>4, <2>5, <2>6, <2>7
<1>9. /\ Traffic(b) => Traffic(t)
      /\ Writebacks(b) => Writebacks(t)
      /\ t.l2.loadRequest = b.l2.loadRequest
      /\ t.l2.prefetchRequest = b.l2.prefetchRequest
      /\ t.l1i = b.l1i
      /\ DemandMisses(t.l1d) = DemandMisses(counted)
      /\ PrefetchMisses(t.l1d) = PrefetchMisses(counted)
  BY <1>3, <1>5, <1>6, EndingCounts
<1>10. L2OK(t) /\ L1DOK(t)
  BY <1>1, L1DStoreStep
<1> HIDE DEF t
<1>11. Tally(s) => Tally(t)
  <2> DEFINE ds == DemandMisses(s.l1d)
             dt == DemandMisses(t.l1d)
             f  == FetchMisses(s.l1i)
  <2>1. /\ ds \in Int /\ dt \in Int /\ f \in Int /\ missed \in Int /\ 0 \in Int
        /\ PrefetchMisses(s.l1d) \in Int
        /\ IsL1I(t.l1i)
    BY <1>5, <1>9, <1>10, L1CountersAreNumbers DEF L1DOK, L1IOK, Bit
  <2>2. FetchMisses(t.l1i) = f
    BY <1>5, <1>9
  <2>3. /\ Congruent(t.l2.loadRequest, s.l2.loadRequest + missed)
        /\ Congruent(t.l2.prefetchRequest, s.l2.prefetchRequest + 0)
        /\ Congruent(dt, ds + missed)
    BY <1>4, <1>5, <1>8, <1>9
  <2> HIDE DEF missed
  <2>4. Congruent(dt + f, (ds + f) + missed)
    <3> HIDE DEF ds, dt, f
    <3> DEFINE sum == ds + missed
    <3>1. sum \in Int /\ Congruent(dt, sum) /\ Congruent(f, f) /\ sum + f = (ds + f) + missed
      BY <2>1, <2>3, CongruentRefl
    <3> HIDE DEF sum
    <3>2. Congruent(dt + f, sum + f)
      BY <2>1, <3>1, CongruentSums
    <3> QED
      BY <3>1, <3>2
  <2>5. Congruent(DemandMisses(t.l1d) + FetchMisses(t.l1i),
                  (DemandMisses(s.l1d) + FetchMisses(s.l1i)) + missed)
    BY <2>2, <2>4
  <2>6. Congruent(PrefetchMisses(t.l1d), PrefetchMisses(s.l1d) + 0)
    <3>1. PrefetchMisses(t.l1d) = PrefetchMisses(s.l1d)
      BY <1>8, <1>9
    <3>2. PrefetchMisses(s.l1d) + 0 = PrefetchMisses(s.l1d)
      BY <2>1
    <3> QED
      BY <2>1, <3>1, <3>2, CongruentRefl
  <2>7. IsL2(s.l2) /\ IsL2(t.l2) /\ IsL1D(s.l1d) /\ IsL1D(t.l1d) /\ IsL1I(s.l1i)
    BY <1>10 DEF L2OK, L1DOK, L1IOK
  <2> QED
    BY <2>1, <2>3, <2>5, <2>6, <2>7, TallyKept
<1> QED
  BY <1>1, <1>5, <1>9, <1>11 DEF Keeps

\* What write returns to L1I is not dirty, since L1I stores only what it has
\* just missed.
LEMMA FetchFlushesNothing ==
    ASSUME NEW s, L1IOK(s), NEW ip \in Instructions
    PROVE  LET c     == s.l1i.config
               read  == Read(c, s.l1i.table, ip)
               write == Write(c, read, ip, InitData)
           IN  Flushed(c, IF InL1I(s, ip) THEN {} ELSE write.line) = {}
<1> DEFINE c     == s.l1i.config
           hit   == InL1I(s, ip)
           read  == Read(c, s.l1i.table, ip)
           write == Write(c, read, ip, InitData)
           out   == IF hit THEN {} ELSE write.line
<1>1. /\ IsConfig(c) /\ IsTable(c, s.l1i.table)
      /\ \A line \in LinesOf(s.l1i.table) : ~line.invalid
      /\ ip \in Asked
  BY DEF L1IOK, IsL1I, Asked
<1>2. CASE hit
  BY <1>2, NothingReturned
<1>3. CASE ~hit
  <2> DEFINE n == NewCacheLine(DataTag(c, ip), InitData)
  <2>1. read = s.l1i.table /\ ~IsCached(c, s.l1i.table, ip)
    BY <1>3 DEF Read, InL1I
  <2>2. PICK V \in SUBSET LinesOf(s.l1i.table) : Evicts(c, s.l1i.table, V, n, write)
    BY <1>1, <2>1, WriteMiss, InitDataAssumption
  <2>3. out = {SetEvacuated(v) : v \in V}
    BY <1>3, <2>2 DEF Evicts
  <2>4. \A v \in V : ~SetEvacuated(v).invalid
    BY <1>1, LinesOfTable DEF SetEvacuated, Lines, CacheLine
  <2> QED
    BY <2>3, <2>4 DEF Flushed
<1> QED
  BY <1>2, <1>3

LEMMA L1ILoadCounts ==
    ASSUME NEW s, L2OK(s), L1DOK(s), L1IOK(s), NEW ip \in Instructions
    PROVE  Keeps(s, L1ILoad(s, ip))
<1> DEFINE c     == s.l1i.config
           prefetch == FALSE
           hit   == InL1I(s, ip)
           read  == Read(c, s.l1i.table, ip)
           write == Write(c, read, ip, InitData)
           out   == IF hit THEN {} ELSE write.line
           b     == LevelsBelow(s, hit, ip, prefetch)
           newTable == IF hit THEN read ELSE write.table
           counted == FetchCounted(s.l1i, hit, newTable)
           u     == [b EXCEPT !.l1i = counted]
           t     == L1IHandleWritePolicy(u, out)
<1>1. L1ILoad(s, ip) = t
  BY DEF L1ILoad, FetchCounted, LevelsBelow
<1>2. /\ IsConfig(c) /\ IsTable(c, s.l1i.table)
      /\ \A line \in LinesOf(s.l1i.table) : ~line.invalid
      /\ ip \in Asked
      /\ IsL1I(s.l1i)
  BY DEF L1IOK, IsL1I, Asked
<1>3. Flushed(c, out) = {}
  BY FetchFlushesNothing
<1> DEFINE missed == Bit(~hit /\ ~prefetch)
<1>4. ~prefetch /\ Bit(~hit /\ prefetch) = 0
  BY DEF Bit
<1> HIDE DEF prefetch, hit, out, newTable
<1>5. /\ L2OK(b)
      /\ b.l1d = s.l1d /\ b.l1i = s.l1i
      /\ Traffic(s) => Traffic(b)
      /\ Writebacks(s) => Writebacks(b)
      /\ Congruent(b.l2.loadRequest, s.l2.loadRequest + Bit(~hit /\ ~prefetch))
      /\ Congruent(b.l2.prefetchRequest, s.l2.prefetchRequest + Bit(~hit /\ prefetch))
  <2>1. CountsBelow(s, LevelsBelow(s, hit, ip, prefetch), hit, prefetch)
    BY <1>2, LevelsBelowCount, Zenon
  <2> QED
    BY <2>1 DEF CountsBelow
<1> HIDE DEF b
<1>6. /\ DOMAIN counted = {"config", "table", "loadAccess", "loadHit"}
      /\ counted.config = c
      /\ counted.loadAccess = Count(TRUE, s.l1i.loadAccess)
      /\ counted.loadHit = Count(hit, s.l1i.loadHit)
  BY <1>2 DEF FetchCounted, IsL1I, L1ICounters
<1> HIDE DEF counted
<1>7. /\ FetchMisses(s.l1i) \in Int /\ FetchMisses(counted) \in Int
      /\ Congruent(FetchMisses(counted), FetchMisses(s.l1i) + missed)
  <2>1. s.l1i.loadAccess \in Counter /\ s.l1i.loadHit \in Counter
    BY <1>2 DEF IsL1I, L1ICounters
  <2>2. /\ counted.loadAccess = Count(~prefetch, s.l1i.loadAccess)
        /\ counted.loadHit = Count(hit /\ ~prefetch, s.l1i.loadHit)
    BY <1>4, <1>6 DEF Count
  <2> QED
    BY <2>1, <2>2, MissCounts DEF FetchMisses
<1>8. IsCaches(u) /\ u.l1d = b.l1d /\ u.l1i = counted /\ u.l2 = b.l2 /\ u.mm = b.mm
  BY <1>5 DEF L2OK, IsCaches
<1> HIDE DEF u
<1>9. /\ t.l1d = s.l1d /\ t.l2 = b.l2 /\ t.mm = b.mm
      /\ t.l1i.loadAccess = counted.loadAccess
      /\ t.l1i.loadHit = counted.loadHit
  <2>1. Flushed(u.l1i.config, out) = {}
    BY <1>3, <1>6, <1>8
  <2>2. t = [u EXCEPT !.l1i.table = Settled(u.l1i.config, @, out)]
    BY <2>1 DEF L1IHandleWritePolicy
  <2> QED
    BY <1>5, <1>6, <1>8, <2>2 DEF IsCaches
<1>10. L2OK(t) /\ L1IOK(t)
  BY <1>1, L1ILoadStep
<1> HIDE DEF t
<1>11. (Traffic(b) => Traffic(t)) /\ (Writebacks(b) => Writebacks(t))
  BY <1>9 DEF Traffic, Writebacks
<1>12. Tally(s) => Tally(t)
  <2> DEFINE ds == DemandMisses(s.l1d)
             fs == FetchMisses(s.l1i)
             ft == FetchMisses(t.l1i)
  <2>1. /\ ds \in Int /\ missed \in Int /\ 0 \in Int
        /\ PrefetchMisses(s.l1d) \in Int
    BY L1CountersAreNumbers DEF L1DOK, Bit
  <2>2. FetchMisses(t.l1i) = FetchMisses(counted)
    BY <1>9 DEF FetchMisses
  <2>3. /\ Congruent(t.l2.loadRequest, s.l2.loadRequest + missed)
        /\ Congruent(t.l2.prefetchRequest, s.l2.prefetchRequest + 0)
        /\ fs \in Int /\ ft \in Int /\ Congruent(ft, fs + missed)
    BY <1>4, <1>5, <1>7, <1>9, <2>2
  <2> HIDE DEF missed
  <2>4. Congruent(ds + ft, (ds + fs) + missed)
    <3> HIDE DEF ds, fs, ft
    <3> DEFINE sum == fs + missed
    <3>1. sum \in Int /\ Congruent(ft, sum) /\ Congruent(ds, ds) /\ ds + sum = (ds + fs) + missed
      BY <2>1, <2>3, CongruentRefl
    <3> HIDE DEF sum
    <3>2. Congruent(ds + ft, ds + sum)
      BY <2>1, <2>3, <3>1, CongruentSums
    <3> QED
      BY <3>1, <3>2
  <2>5. t.l1d = s.l1d
    BY <1>9
  <2>6. Congruent(DemandMisses(t.l1d) + FetchMisses(t.l1i),
                  (DemandMisses(s.l1d) + FetchMisses(s.l1i)) + missed)
    BY <2>4, <2>5
  <2>7. Congruent(PrefetchMisses(t.l1d), PrefetchMisses(s.l1d) + 0)
    <3>1. PrefetchMisses(s.l1d) + 0 = PrefetchMisses(s.l1d)
      BY <2>1
    <3> QED
      BY <2>1, <2>5, <3>1, CongruentRefl
  <2>8. IsL2(s.l2) /\ IsL2(t.l2) /\ IsL1D(s.l1d) /\ IsL1D(t.l1d) /\ IsL1I(s.l1i) /\ IsL1I(t.l1i)
    BY <1>10, <2>5 DEF L2OK, L1DOK, L1IOK
  <2> QED
    BY <2>1, <2>3, <2>6, <2>7, <2>8, TallyKept
<1> QED
  BY <1>1, <1>5, <1>11, <1>12 DEF Keeps

------------------------------------------------------------------------------
(* The theorems *)

CountersInv == Traffic(Caches) /\ Writebacks(Caches) /\ Tally(Caches)

LEMMA InitCounters == Init => CountersInv
<1> SUFFICES ASSUME Init PROVE CountersInv
  OBVIOUS
<1>1. PICK configs \in Hierarchies :
        /\ l1d = NewL1DCache(configs.l1d)
        /\ l1i = NewL1ICache(configs.l1i)
        /\ l2 = NewL2Cache(configs.l2)
  BY DEF Init
<1>2. mm = NewMainMem(LineTags)
  BY DEF Init
<1>3. Congruent(0, 0) /\ 0 \in Int
  BY CongruentRefl
<1>4. TagsOf(l2.table) = {}
  BY <1>1, ConfigsProperties, EmptyTableProperties DEF NewL2Cache, TagsOf
<1>5. IsFiniteSet({}) /\ Cardinality({}) = 0
  BY FS_EmptySet
<1>6. Evictions(l2) = 0 /\ DirtyEvictions(l2) = 0 /\ l2.loadRequest = 0 /\ l2.prefetchRequest = 0
  BY <1>1 DEF NewL2Cache, Evictions, DirtyEvictions
<1>7. mm.loadCount = 0 /\ mm.prefetchCount = 0 /\ mm.storeCount = 0
  BY <1>2 DEF NewMainMem
<1>8. DemandMisses(l1d) = 0 /\ PrefetchMisses(l1d) = 0
  BY <1>1 DEF NewL1DCache, DemandMisses, PrefetchMisses
<1>9. FetchMisses(l1i) = 0
  BY <1>1 DEF NewL1ICache, FetchMisses
<1>10. Caches.l1d = l1d /\ Caches.l1i = l1i /\ Caches.l2 = l2 /\ Caches.mm = mm
  BY DEF Caches
<1>11. Traffic(Caches)
  BY <1>3, <1>4, <1>5, <1>6, <1>7, <1>10 DEF Traffic
<1>12. Writebacks(Caches)
  BY <1>3, <1>6, <1>7, <1>10 DEF Writebacks
<1>13. Tally(Caches)
  BY <1>3, <1>6, <1>8, <1>9, <1>10 DEF Tally
<1> QED
  BY <1>11, <1>12, <1>13 DEF CountersInv

LEMMA BecomeCounters ==
    ASSUME CountersInv, NEW t, Keeps(Caches, t), Become(t)
    PROVE  CountersInv'
<1>1. /\ Caches'.l1d = t.l1d /\ Caches'.l1i = t.l1i
      /\ Caches'.l2 = t.l2 /\ Caches'.mm = t.mm
  BY DEF Become, Caches
<1>2. Traffic(t) /\ Writebacks(t) /\ Tally(t)
  BY DEF CountersInv, Keeps
<1>3. Traffic(Caches') /\ Writebacks(Caches') /\ Tally(Caches')
  BY <1>1, <1>2 DEF Traffic, Writebacks, Tally
<1> QED
  BY <1>3 DEF CountersInv

LEMMA NextCounters == Inv /\ CountersInv /\ [Next]_vars => CountersInv'
<1> SUFFICES ASSUME Inv, CountersInv, [Next]_vars PROVE CountersInv'
  OBVIOUS
<1>1. L2OK(Caches) /\ L1DOK(Caches) /\ L1IOK(Caches)
  BY DEF Inv, Sound
<1>2. ASSUME NEW adr \in Addresses, NEW stale, Load(adr, stale)
      PROVE  CountersInv'
  <2> DEFINE t == L1DLoad(Caches, adr, FALSE, stale)
  <2>1. Keeps(Caches, t)
    BY <1>1, L1DLoadCounts, Zenon
  <2>2. Become(t)
    BY <1>2 DEF Load
  <2> HIDE DEF t
  <2> QED
    BY <2>1, <2>2, BecomeCounters
<1>3. ASSUME NEW adr \in Addresses, NEW stale, RunPrefetcher(adr, stale)
      PROVE  CountersInv'
  <2> DEFINE t == L1DLoad(Caches, adr, TRUE, stale)
  <2>1. Keeps(Caches, t)
    BY <1>1, L1DLoadCounts, Zenon
  <2>2. Become(t)
    BY <1>3 DEF RunPrefetcher
  <2> HIDE DEF t
  <2> QED
    BY <2>1, <2>2, BecomeCounters
<1>4. ASSUME NEW adr \in Addresses, NEW d \in Data, NEW stale, Store(adr, d, stale)
      PROVE  CountersInv'
  <2> DEFINE t == L1DStore(Caches, adr, d, stale)
  <2>1. Keeps(Caches, t)
    BY <1>1, L1DStoreCounts
  <2>2. Become(t)
    BY <1>4 DEF Store
  <2> HIDE DEF t
  <2> QED
    BY <2>1, <2>2, BecomeCounters
<1>5. ASSUME NEW ip \in Instructions, Fetch(ip)
      PROVE  CountersInv'
  <2> DEFINE t == L1ILoad(Caches, ip)
  <2>1. Keeps(Caches, t)
    BY <1>1, L1ILoadCounts
  <2>2. Become(t)
    BY <1>5 DEF Fetch
  <2> HIDE DEF t
  <2> QED
    BY <2>1, <2>2, BecomeCounters
<1>6. CASE UNCHANGED vars
  BY <1>6 DEF vars, CountersInv, Caches
<1> QED
  BY <1>2, <1>3, <1>4, <1>5, <1>6 DEF Next

LEMMA SpecCounters == Spec => [](Inv /\ CountersInv)
<1>1. Init => Inv /\ CountersInv
  BY InitInv, InitCounters
<1>2. (Inv /\ CountersInv) /\ [Next]_vars => (Inv /\ CountersInv)'
  BY NextInv, NextCounters
<1> QED
  BY <1>1, <1>2, PTL DEF Spec

LEMMA CachesNumbers ==
    ASSUME Inv
    PROVE  /\ mm.loadCount + mm.prefetchCount \in Int
           /\ mm.storeCount \in Counter
           /\ Evictions(l2) \in Int /\ DirtyEvictions(l2) \in Int
           /\ l2.loadRequest \in Counter /\ l2.prefetchRequest \in Counter
           /\ DemandMisses(l1d) \in Int /\ PrefetchMisses(l1d) \in Int
           /\ FetchMisses(l1i) \in Int
<1>1. IsL2(l2) /\ IsMem(mm) /\ IsL1D(l1d) /\ IsL1I(l1i)
  BY DEF Inv, Sound, L2OK, L1DOK, L1IOK, Caches
<1>2. mm.loadCount + mm.prefetchCount \in Int /\ mm.storeCount \in Counter
  BY <1>1, MemCountersAreNumbers
<1> QED
  BY <1>1, <1>2, L2CountersAreNumbers, L1CountersAreNumbers DEF L2Counters

\* Each line that L2 asked of memory, by a demand load, a prefetch or a store
\* that missed, is in L2 or was counted by exactly one of the four eviction
\* counters of handleWritePolicy and load.
THEOREM MemoryTrafficAccounted == Spec => []MemoryTraffic
<1>1. ASSUME Inv, CountersInv
      PROVE  MemoryTraffic
  <2>1. /\ IsFiniteSet(TagsOf(l2.table))
        /\ Congruent(mm.loadCount + mm.prefetchCount,
                     Cardinality(TagsOf(l2.table)) + Evictions(l2))
    BY <1>1 DEF CountersInv, Traffic, Caches
  <2>2. Cardinality(TagsOf(l2.table)) + Evictions(l2) \in Int
    BY <1>1, <2>1, FS_CardinalityType, CachesNumbers
  <2>3. L2Evictions = Evictions(l2)
    BY DEF L2Evictions, Evictions
  <2> QED
    BY <1>1, <2>1, <2>2, <2>3, CachesNumbers, CongruentModulo DEF MemoryTraffic
<1> QED
  BY <1>1, SpecCounters, PTL

\* With a write-back L2, memory sees a store for each line that was evicted
\* dirty, by demand or by a prefetch, and no other.
THEOREM WritebacksAccounted == Spec => []MemoryWritebacks
<1>1. ASSUME Inv, CountersInv
      PROVE  MemoryWritebacks
  <2>1. l2.config.writePolicy = WRITE_BACK => Congruent(mm.storeCount, DirtyEvictions(l2))
    BY <1>1 DEF CountersInv, Writebacks, Caches
  <2>2. mm.storeCount \in Counter /\ DirtyEvictions(l2) \in Int
    BY <1>1, CachesNumbers
  <2>3. l2.config.writePolicy = WRITE_BACK => mm.storeCount = Modulo(DirtyEvictions(l2))
    BY <2>1, <2>2, CongruentModulo
  <2> QED
    BY <2>3 DEF MemoryWritebacks, DirtyEvictions
<1> QED
  BY <1>1, SpecCounters, PTL

\* The requests L2 counts are the misses that L1D and L1I count: a miss is
\* asked of L2 once, as a load or as a prefetch, and a write-back is neither.
THEOREM L2RequestsAreL1Misses == Spec => []L2Requests
<1>1. ASSUME Inv, CountersInv
      PROVE  L2Requests
  <2>1. /\ Congruent(l2.loadRequest, DemandMisses(l1d) + FetchMisses(l1i))
        /\ Congruent(l2.prefetchRequest, PrefetchMisses(l1d))
    BY <1>1 DEF CountersInv, Tally, Caches
  <2>2. /\ l2.loadRequest \in Counter /\ l2.prefetchRequest \in Counter
        /\ DemandMisses(l1d) + FetchMisses(l1i) \in Int
        /\ PrefetchMisses(l1d) \in Int
    BY <1>1, CachesNumbers
  <2>3. /\ l2.loadRequest = Modulo(DemandMisses(l1d) + FetchMisses(l1i))
        /\ l2.prefetchRequest = Modulo(PrefetchMisses(l1d))
    BY <2>1, <2>2, CongruentModulo
  <2> QED
    BY <2>3 DEF L2Requests, L1DMisses, DemandMisses, FetchMisses, PrefetchMisses
<1> QED
  BY <1>1, SpecCounters, PTL

------------------------------------------------------------------------------
(* What memory is asked for on behalf of no miss *)

\* The demand loads of memory that are no load misses of L2.
Allocations(s) == s.mm.loadCount - (s.l2.loadRequest - s.l2.loadRequestHit)

\* WriteAllocations of the caches s.
Allocating(s) ==
    /\ s.mm.prefetchCount = s.l2.prefetchRequestMiss
    /\ s.l1d.config.writePolicy = WRITE_BACK =>
        Allocations(s) \in 0..s.l1d.writebacksToL2

\* The counters that WriteAllocations subtracts have room for one request,
\* which may load twice from memory.
HasRoom(s) ==
    /\ s.mm.loadCount + 2 <= CounterMax
    /\ s.l2.loadRequest + 2 <= CounterMax
    /\ s.l2.loadRequestHit + 2 <= CounterMax
    /\ s.l1d.writebacksToL2 + 2 <= CounterMax

LEMMA CountExact ==
    ASSUME NEW n \in Counter, n + 1 <= CounterMax, NEW condition
    PROVE  Count(condition, n) = n + Bit(condition)
BY CounterMaxAssumption DEF Count, Increment, Counter, Bit

LEMMA MemLoadIs ==
    ASSUME NEW mem, IsMem(mem), NEW prefetch
    PROVE  /\ MemLoad(mem, prefetch).loadCount = Count(~prefetch, mem.loadCount)
           /\ MemLoad(mem, prefetch).prefetchCount = Count(prefetch, mem.prefetchCount)
BY DEF MemLoad, IsMem

\* What happens to a line that write returned does not touch the counters of
\* requests, nor those of the loads of memory.
LEMMA L2EndingKeepsRequests ==
    ASSUME NEW s, IsCaches(s), NEW counted, IsL2(counted), NEW out, NEW prefetch,
           NEW asked, IsMem(asked)
    PROVE  LET t == L2Ending(s, counted, out, prefetch, asked)
           IN  /\ t.l1d = s.l1d
               /\ t.mm.loadCount = asked.loadCount
               /\ t.mm.prefetchCount = asked.prefetchCount
               /\ t.l2.loadRequest = counted.loadRequest
               /\ t.l2.loadRequestHit = counted.loadRequestHit
               /\ t.l2.prefetchRequestMiss = counted.prefetchRequestMiss
<1> DEFINE evicted == CountL2Eviction(counted, out, prefetch)
           u == [s EXCEPT !.l2 = evicted, !.mm = asked]
           t == L2HandleWritePolicy(u, out)
           stored == MemStore(asked, TheLine(out).tag, TheLine(out).data)
<1>1. /\ DOMAIN evicted = DOMAIN counted
      /\ evicted.loadRequest = counted.loadRequest
      /\ evicted.loadRequestHit = counted.loadRequestHit
      /\ evicted.prefetchRequestMiss = counted.prefetchRequestMiss
  BY DEF IsL2, L2Counters, CountL2Eviction
<1> HIDE DEF evicted
<1>2. IsCaches(u) /\ u.l1d = s.l1d /\ u.l2 = evicted /\ u.mm = asked
  BY DEF IsCaches
<1> HIDE DEF u
<1>3. /\ t.l1d = u.l1d
      /\ t.l2 = [u.l2 EXCEPT !.table = Settled(u.l2.config, u.l2.table, out)]
      /\ t.mm = IF Flushed(u.l2.config, out) = {} THEN u.mm
                ELSE MemStore(u.mm, TheLine(out).tag, TheLine(out).data)
  BY <1>2 DEF L2HandleWritePolicy, IsCaches
<1> HIDE DEF t
<1>4. stored.loadCount = asked.loadCount /\ stored.prefetchCount = asked.prefetchCount
  BY DEF MemStore, IsMem
<1> HIDE DEF stored
<1>5. t.mm = asked \/ t.mm = stored
  BY <1>2, <1>3 DEF stored
<1>6. /\ t.mm.loadCount = asked.loadCount
      /\ t.mm.prefetchCount = asked.prefetchCount
  BY <1>4, <1>5
<1>7. /\ t.l2.loadRequest = evicted.loadRequest
      /\ t.l2.loadRequestHit = evicted.loadRequestHit
      /\ t.l2.prefetchRequestMiss = evicted.prefetchRequestMiss
  BY <1>1, <1>2, <1>3 DEF IsL2, L2Counters
<1> QED
  BY <1>1, <1>2, <1>3, <1>6, <1>7 DEF L2Ending, t, u, evicted

\* L2Cache::load: memory is asked for just the load misses and the prefetch
\* misses.
LEMMA L2LoadAllocates ==
    ASSUME NEW s, L2OK(s), HasRoom(s), NEW adr, NEW prefetch
    PROVE  LET t == L2Load(s, adr, prefetch)
           IN  /\ Allocations(t) = Allocations(s)
               /\ t.mm.loadCount <= s.mm.loadCount + 1
               /\ s.mm.prefetchCount = s.l2.prefetchRequestMiss =>
                    t.mm.prefetchCount = t.l2.prefetchRequestMiss
<1> DEFINE c     == s.l2.config
           hit   == InL2(s, adr)
           read  == Read(c, s.l2.table, adr)
           write == Write(c, read, adr, L2Data(s, adr))
           out   == IF hit THEN {} ELSE write.line
           newTable == IF hit THEN read ELSE write.table
           counted == Requested(s.l2, hit, prefetch, newTable)
           asked == IF hit THEN s.mm ELSE MemLoad(s.mm, prefetch)
           t     == L2Ending(s, counted, out, prefetch, asked)
<1>1. L2Load(s, adr, prefetch) = t
  BY DEF L2Load, Requested, L2Ending
<1>2. IsCaches(s) /\ IsL2(s.l2) /\ IsMem(s.mm)
  BY DEF L2OK
<1> HIDE DEF hit, out, newTable
<1>3. /\ IsL2(counted)
      /\ counted.loadRequest = Count(~prefetch, s.l2.loadRequest)
      /\ counted.loadRequestHit = Count(hit /\ ~prefetch, s.l2.loadRequestHit)
      /\ counted.prefetchRequestMiss = Count(~hit /\ prefetch, s.l2.prefetchRequestMiss)
  <2>1. IsL2(counted)
    BY <1>2, RequestedType
  <2> QED
    BY <1>2, <2>1 DEF IsL2, L2Counters, CountL2Request, Requested
<1>4. /\ IsMem(asked)
      /\ asked.loadCount = IF hit THEN s.mm.loadCount ELSE Count(~prefetch, s.mm.loadCount)
      /\ asked.prefetchCount = IF hit THEN s.mm.prefetchCount
                               ELSE Count(prefetch, s.mm.prefetchCount)
  <2>1. /\ IsMem(MemLoad(s.mm, prefetch))
        /\ MemLoad(s.mm, prefetch).loadCount = Count(~prefetch, s.mm.loadCount)
        /\ MemLoad(s.mm, prefetch).prefetchCount = Count(prefetch, s.mm.prefetchCount)
    <3>1. IsMem(MemLoad(s.mm, prefetch))
      BY <1>2, MemType, Zenon
    <3> DEFINE mem == s.mm
               asking == MemLoad(mem, prefetch)
    <3>2. IsMem(mem)
      BY <1>2
    <3> HIDE DEF mem
    <3>3. /\ asking.loadCount = Count(~prefetch, mem.loadCount)
          /\ asking.prefetchCount = Count(prefetch, mem.prefetchCount)
      BY <3>2, MemLoadIs
    <3> QED
      BY <3>1, <3>3 DEF mem
  <2> QED
    BY <1>2, <2>1
<1> HIDE DEF counted, asked
<1>5. /\ t.mm.loadCount = asked.loadCount
      /\ t.mm.prefetchCount = asked.prefetchCount
      /\ t.l2.loadRequest = counted.loadRequest
      /\ t.l2.loadRequestHit = counted.loadRequestHit
      /\ t.l2.prefetchRequestMiss = counted.prefetchRequestMiss
  BY <1>2, <1>3, <1>4, L2EndingKeepsRequests
<1> HIDE DEF t
<1>6. s.mm.prefetchCount = s.l2.prefetchRequestMiss =>
        t.mm.prefetchCount = t.l2.prefetchRequestMiss
  BY <1>3, <1>4, <1>5 DEF Count
<1> DEFINE l == s.mm.loadCount
           r == s.l2.loadRequest
           h == s.l2.loadRequestHit
<1>7. /\ l \in Counter /\ r \in Counter /\ h \in Counter
      /\ l + 1 <= CounterMax /\ r + 1 <= CounterMax /\ h + 1 <= CounterMax
      /\ l \in Int /\ r \in Int /\ h \in Int
  BY <1>2, CounterMaxAssumption DEF IsL2, L2Counters, IsMem, HasRoom, Counter
<1>8. /\ Allocations(s) = l - (r - h)
      /\ Allocations(t) = t.mm.loadCount - (t.l2.loadRequest - t.l2.loadRequestHit)
  BY DEF Allocations
<1> DEFINE rb == Bit(~prefetch)
           hb == Bit(hit /\ ~prefetch)
           lb == Bit(~hit /\ ~prefetch)
<1>9. rb - hb = lb /\ rb \in {0, 1} /\ hb \in {0, 1} /\ lb \in {0, 1}
  BY DEF Bit
<1>10. t.mm.loadCount = l + lb
  <2>1. CASE hit
    BY <1>4, <1>5, <1>7, <2>1 DEF Bit
  <2>2. CASE ~hit
    <3>1. lb = rb
      BY <2>2 DEF Bit
    <3>2. t.mm.loadCount = Count(~prefetch, l)
      BY <1>4, <1>5, <2>2
    <3> QED
      BY <1>7, <3>1, <3>2, CountExact
  <2> QED
    BY <2>1, <2>2
<1>11. t.l2.loadRequest = r + rb /\ t.l2.loadRequestHit = h + hb
  BY <1>3, <1>5, <1>7, CountExact
<1> HIDE DEF l, r, h, rb, hb, lb
<1>12. Allocations(t) = Allocations(s) /\ t.mm.loadCount <= l + 1
  BY <1>7, <1>8, <1>9, <1>10, <1>11
<1> QED
  BY <1>1, <1>6, <1>12 DEF l

\* L2Cache::store: a line that is not there is loaded first, and no request
\* is counted.
LEMMA L2StoreAllocates ==
    ASSUME NEW s, L2OK(s), s.mm.loadCount + 1 <= CounterMax, NEW adr, NEW d
    PROVE  LET t == L2Store(s, adr, d)
           IN  /\ t.l1d = s.l1d
               /\ Allocations(t) \in Allocations(s)..(Allocations(s) + 1)
               /\ s.mm.prefetchCount = s.l2.prefetchRequestMiss =>
                    t.mm.prefetchCount = t.l2.prefetchRequestMiss
<1> DEFINE c     == s.l2.config
           hit   == InL2(s, adr)
           read  == Read(c, s.l2.table, adr)
           alloc == Write(c, read, adr, L2Data(s, adr))
           write == Write(c, IF hit THEN read ELSE alloc.table, adr, d)
           out   == IF hit THEN write.line ELSE alloc.line
           newTable == write.table
           counted == [s.l2 EXCEPT !.table = newTable]
           asked == IF hit THEN s.mm ELSE L2Fetch(s.mm)
           prefetch == FALSE
           t     == L2Ending(s, counted, out, prefetch, asked)
<1>1. L2Store(s, adr, d) = t
  BY DEF L2Store, L2Ending
<1>2. IsCaches(s) /\ IsL2(s.l2) /\ IsMem(s.mm)
  BY DEF L2OK
<1> HIDE DEF hit, out, newTable, prefetch
<1>3. /\ IsL2(counted)
      /\ counted.loadRequest = s.l2.loadRequest
      /\ counted.loadRequestHit = s.l2.loadRequestHit
      /\ counted.prefetchRequestMiss = s.l2.prefetchRequestMiss
  BY <1>2 DEF IsL2, L2Counters
<1>4. /\ IsMem(asked)
      /\ asked.loadCount \in {s.mm.loadCount, Count(TRUE, s.mm.loadCount)}
      /\ asked.prefetchCount = s.mm.prefetchCount
  <2>1. /\ IsMem(L2Fetch(s.mm))
        /\ L2Fetch(s.mm).loadCount = Count(TRUE, s.mm.loadCount)
        /\ L2Fetch(s.mm).prefetchCount = s.mm.prefetchCount
    <3>1. /\ Count(FALSE, s.mm.prefetchCount) = s.mm.prefetchCount
          /\ Count(~FALSE, s.mm.loadCount) = Count(TRUE, s.mm.loadCount)
      BY DEF Count
    <3>2. L2Fetch(s.mm) = MemLoad(s.mm, FALSE)
      BY DEF L2Fetch
    <3>3. IsMem(L2Fetch(s.mm))
      BY <1>2, MemType
    <3>4. /\ MemLoad(s.mm, FALSE).loadCount = Count(~FALSE, s.mm.loadCount)
          /\ MemLoad(s.mm, FALSE).prefetchCount = Count(FALSE, s.mm.prefetchCount)
      BY <1>2, MemLoadIs, Zenon
    <3> QED
      BY <3>1, <3>2, <3>3, <3>4
  <2> QED
    BY <1>2, <2>1
<1> HIDE DEF counted, asked
<1>5. /\ t.l1d = s.l1d
      /\ t.mm.loadCount = asked.loadCount
      /\ t.mm.prefetchCount = asked.prefetchCount
      /\ t.l2.loadRequest = counted.loadRequest
      /\ t.l2.loadRequestHit = counted.loadRequestHit
      /\ t.l2.prefetchRequestMiss = counted.prefetchRequestMiss
  BY <1>2, <1>3, <1>4, L2EndingKeepsRequests
<1> HIDE DEF t
<1> DEFINE l == s.mm.loadCount
           r == s.l2.loadRequest
           h == s.l2.loadRequestHit
<1>6. l \in Counter /\ l \in Int /\ r \in Int /\ h \in Int /\ l + 1 <= CounterMax
  BY <1>2, CounterMaxAssumption DEF IsL2, L2Counters, IsMem, Counter
<1>7. Count(TRUE, l) = l + 1
  BY <1>6, CountExact DEF Bit
<1>8. t.mm.loadCount \in {l, l + 1} /\ t.l2.loadRequest = r /\ t.l2.loadRequestHit = h
  BY <1>3, <1>4, <1>5, <1>7
<1>9. /\ Allocations(s) = l - (r - h)
      /\ Allocations(t) = t.mm.loadCount - (t.l2.loadRequest - t.l2.loadRequestHit)
  BY DEF Allocations
<1> HIDE DEF l, r, h
<1>10. Allocations(t) \in Allocations(s)..(Allocations(s) + 1)
  BY <1>6, <1>8, <1>9
<1> QED
  BY <1>1, <1>3, <1>4, <1>5, <1>10

\* L1DCache::handleWritePolicy counts a write-back for each line that, with
\* WRITE_BACK, L2 is to store, and L2 loads at most that line.
LEMMA EndingAllocates ==
    ASSUME NEW b, L2OK(b), NEW cache, IsL1D(cache), NEW out, NEW stale,
           b.mm.loadCount + 1 <= CounterMax, cache.writebacksToL2 + 1 <= CounterMax
    PROVE  LET t == Ending(b, cache, out, stale)
               n == cache.writebacksToL2
           IN  /\ t.l1d.config = cache.config
               /\ cache.config.writePolicy = WRITE_BACK =>
                    \/ Allocations(t) = Allocations(b) /\ t.l1d.writebacksToL2 \in n..(n + 1)
                    \/ Allocations(t) = Allocations(b) + 1 /\ t.l1d.writebacksToL2 = n + 1
               /\ b.mm.prefetchCount = b.l2.prefetchRequestMiss =>
                    t.mm.prefetchCount = t.l2.prefetchRequestMiss
<1> DEFINE u == [b EXCEPT !.l1d = cache]
           stored == Flushed(u.l1d.config, out) # {}
           n == cache.writebacksToL2
           counts == stored /\ u.l1d.config.writePolicy = WRITE_BACK
           settled ==
            [u EXCEPT
                !.l1d.table = Settled(u.l1d.config, @, out),
                !.l1d.writebacksToL2 =
                    Count(stored /\ u.l1d.config.writePolicy = WRITE_BACK, @)]
           h == L1DHandleWritePolicy(u, out)
           t == CountModified(h, out, stale)
<1>1. IsCaches(u) /\ u.l1d = cache /\ u.l1i = b.l1i /\ u.l2 = b.l2 /\ u.mm = b.mm
  BY DEF L2OK, IsCaches
<1> HIDE DEF u
<1>2. /\ IsCaches(settled) /\ settled.l2 = b.l2 /\ settled.mm = b.mm
      /\ settled.l1d.config = cache.config
      /\ settled.l1d.writebacksToL2 = Count(counts, n)
      /\ DOMAIN settled.l1d = DOMAIN cache
  BY <1>1 DEF IsCaches, IsL1D, L1DCounters
<1>3. h = IF stored THEN L2Store(settled, TheLine(out).tag, TheLine(out).data)
                    ELSE settled
  BY DEF L1DHandleWritePolicy
<1> HIDE DEF settled, h
<1>4. /\ L2OK(settled) /\ Allocations(settled) = Allocations(b)
      /\ settled.mm.loadCount + 1 <= CounterMax
  BY <1>2 DEF L2OK, Allocations
<1>5. Allocations(b) \in Int
  <2>1. /\ b.mm.loadCount \in Int /\ b.l2.loadRequest \in Int
        /\ b.l2.loadRequestHit \in Int
    BY CounterMaxAssumption DEF L2OK, IsL2, L2Counters, IsMem, Counter
  <2> QED
    BY <2>1 DEF Allocations
<1>6. /\ IsCaches(h) /\ h.l1d = settled.l1d
      /\ Allocations(h) \in Allocations(b)..(Allocations(b) + Bit(stored))
      /\ b.mm.prefetchCount = b.l2.prefetchRequestMiss =>
            h.mm.prefetchCount = h.l2.prefetchRequestMiss
  <2>1. CASE stored
    <3> DEFINE adr == TheLine(out).tag
               d   == TheLine(out).data
               v   == L2Store(settled, adr, d)
    <3> HIDE DEF adr, d
    <3>1. /\ v.l1d = settled.l1d
          /\ Allocations(v) \in Allocations(settled)..(Allocations(settled) + 1)
          /\ settled.mm.prefetchCount = settled.l2.prefetchRequestMiss =>
                v.mm.prefetchCount = v.l2.prefetchRequestMiss
      BY <1>4, L2StoreAllocates
    <3>2. h = v
      BY <1>3, <2>1 DEF adr, d
    <3>3. IsCaches(v)
      BY <1>2 DEF L2Store, L2HandleWritePolicy, IsCaches
    <3> HIDE DEF v
    <3>4. Bit(stored) = 1
      BY <2>1 DEF Bit
    <3> QED
      BY <1>2, <1>4, <3>1, <3>2, <3>3, <3>4
  <2>2. CASE ~stored
    <3>1. Bit(stored) = 0 /\ h = settled
      BY <1>3, <2>2 DEF Bit
    <3> QED
      BY <1>2, <1>4, <1>5, <3>1
  <2> QED
    BY <2>1, <2>2
<1>7. /\ t.l2 = h.l2 /\ t.mm = h.mm
      /\ t.l1d.config = h.l1d.config
      /\ t.l1d.writebacksToL2 = h.l1d.writebacksToL2
  BY <1>2, <1>6 DEF CountModified, IsCaches, IsL1D, L1DCounters
<1>8. Ending(b, cache, out, stale) = t
  BY DEF Ending, t, h, u
<1> HIDE DEF t
<1>9. Allocations(t) = Allocations(h)
  BY <1>7 DEF Allocations
<1>10. ASSUME cache.config.writePolicy = WRITE_BACK
       PROVE  \/ Allocations(t) = Allocations(b) /\ t.l1d.writebacksToL2 \in n..(n + 1)
              \/ Allocations(t) = Allocations(b) + 1 /\ t.l1d.writebacksToL2 = n + 1
  <2>1. n \in Counter /\ n \in Int
    BY CounterMaxAssumption DEF IsL1D, L1DCounters, Counter
  <2> HIDE DEF n
  <2>2. counts <=> stored
    BY <1>1, <1>10
  <2>3. Bit(counts) = Bit(stored) /\ Bit(stored) \in {0, 1}
    BY <2>2 DEF Bit
  <2>4. Count(counts, n) = n + Bit(counts)
    BY <2>1, CountExact DEF n
  <2>5. t.l1d.writebacksToL2 = n + Bit(stored)
    BY <1>2, <1>6, <1>7, <2>3, <2>4 DEF n
  <2> HIDE DEF stored
  <2> QED
    BY <1>5, <1>6, <1>9, <2>1, <2>3, <2>5
<1> QED
  BY <1>2, <1>6, <1>7, <1>8, <1>10

LEMMA LevelsBelowAllocate ==
    ASSUME NEW s, L2OK(s), HasRoom(s), NEW hit, NEW adr \in Asked, NEW prefetch
    PROVE  LET b == LevelsBelow(s, hit, adr, prefetch)
           IN  /\ L2OK(b) /\ b.l1d = s.l1d
               /\ Allocations(b) = Allocations(s)
               /\ b.mm.loadCount + 1 <= CounterMax
               /\ s.mm.prefetchCount = s.l2.prefetchRequestMiss =>
                    b.mm.prefetchCount = b.l2.prefetchRequestMiss
<1> DEFINE b == LevelsBelow(s, hit, adr, prefetch)
           t == L2Load(s, adr, prefetch)
<1>1. s.mm.loadCount \in Int /\ s.mm.loadCount + 2 <= CounterMax /\ CounterMax \in Int
  BY MemCountersAreNumbers, CounterMaxAssumption DEF L2OK, HasRoom
<1>2. CASE hit
  <2>1. b = s
    BY <1>2 DEF LevelsBelow
  <2> QED
    BY <1>1, <2>1
<1>3. CASE ~hit
  <2>1. b = t
    BY <1>3 DEF LevelsBelow
  <2>2. L2OK(t) /\ t.l1d = s.l1d
    BY L2LoadStep DEF OnlyBelow
  <2>3. t.mm.loadCount \in Int
    BY <2>2, MemCountersAreNumbers DEF L2OK
  <2>4. /\ Allocations(t) = Allocations(s)
        /\ t.mm.loadCount <= s.mm.loadCount + 1
        /\ s.mm.prefetchCount = s.l2.prefetchRequestMiss =>
            t.mm.prefetchCount = t.l2.prefetchRequestMiss
    BY L2LoadAllocates
  <2> HIDE DEF b, t
  <2>5. t.mm.loadCount + 1 <= CounterMax
    BY <1>1, <2>3, <2>4
  <2> QED
    BY <2>1, <2>2, <2>4, <2>5 DEF b
<1> QED
  BY <1>2, <1>3

\* A request of the data cache: L2 is asked, then the data cache counts, then
\* what write returned is written back.
LEMMA DataRequestAllocates ==
    ASSUME NEW s, L2OK(s), IsL1D(s.l1d), HasRoom(s), Allocating(s),
           NEW hit, NEW adr \in Asked, NEW prefetch, NEW cache, IsL1D(cache),
           cache.config = s.l1d.config,
           cache.writebacksToL2 = s.l1d.writebacksToL2, NEW out, NEW stale
    PROVE  Allocating(Ending(LevelsBelow(s, hit, adr, prefetch), cache, out, stale))
<1> DEFINE b == LevelsBelow(s, hit, adr, prefetch)
           t == Ending(b, cache, out, stale)
           n == cache.writebacksToL2
           a == Allocations(s)
<1>1. /\ L2OK(b) /\ b.l1d = s.l1d
      /\ Allocations(b) = Allocations(s)
      /\ b.mm.loadCount + 1 <= CounterMax
      /\ s.mm.prefetchCount = s.l2.prefetchRequestMiss =>
            b.mm.prefetchCount = b.l2.prefetchRequestMiss
  BY LevelsBelowAllocate
<1> HIDE DEF b
<1>2. n \in Int /\ n + 1 <= CounterMax
  <2>1. n \in Int /\ CounterMax \in Int
    <3>1. n \in Counter
      BY DEF IsL1D, L1DCounters
    <3> HIDE DEF n
    <3> QED
      BY <3>1, CounterMaxAssumption DEF Counter
  <2>2. n + 2 <= CounterMax
    BY DEF HasRoom
  <2> HIDE DEF n
  <2> QED
    BY <2>1, <2>2
<1>3. /\ t.l1d.config = cache.config
      /\ cache.config.writePolicy = WRITE_BACK =>
            \/ Allocations(t) = Allocations(b) /\ t.l1d.writebacksToL2 \in n..(n + 1)
            \/ Allocations(t) = Allocations(b) + 1 /\ t.l1d.writebacksToL2 = n + 1
      /\ b.mm.prefetchCount = b.l2.prefetchRequestMiss =>
            t.mm.prefetchCount = t.l2.prefetchRequestMiss
  BY <1>1, <1>2, EndingAllocates
<1> HIDE DEF t
<1>4. t.mm.prefetchCount = t.l2.prefetchRequestMiss
  BY <1>1, <1>3 DEF Allocating
<1>5. ASSUME t.l1d.config.writePolicy = WRITE_BACK
      PROVE  Allocations(t) \in 0..t.l1d.writebacksToL2
  <2>1. a \in 0..n
    BY <1>3, <1>5 DEF Allocating
  <2>2. \/ Allocations(t) = a /\ t.l1d.writebacksToL2 \in n..(n + 1)
        \/ Allocations(t) = a + 1 /\ t.l1d.writebacksToL2 = n + 1
    BY <1>1, <1>3, <1>5
  <2> HIDE DEF n, a
  <2> QED
    BY <1>2, <2>1, <2>2
<1> QED
  BY <1>4, <1>5 DEF Allocating, t, b

LEMMA L1DLoadAllocates ==
    ASSUME NEW s, L2OK(s), IsL1D(s.l1d), HasRoom(s), Allocating(s),
           NEW adr \in Addresses, NEW prefetch, NEW stale
    PROVE  Allocating(L1DLoad(s, adr, prefetch, stale))
<1> DEFINE c     == s.l1d.config
           hit   == InL1D(s, adr)
           read  == Read(c, s.l1d.table, adr)
           write == Write(c, read, adr, L2Data(s, adr))
           out   == IF hit THEN {} ELSE write.line
           b     == LevelsBelow(s, hit, adr, prefetch)
           newTable == IF hit THEN read ELSE write.table
           counted  == LoadCounted(s.l1d, hit, prefetch, adr, newTable)
<1>1. L1DLoad(s, adr, prefetch, stale) = Ending(b, counted, out, stale)
  BY DEF L1DLoad, LoadCounted, Ending, LevelsBelow
<1> HIDE DEF hit, out, newTable
<1>2. IsL1D(counted) /\ counted.config = c
  BY LoadCountedType
<1>3. counted.writebacksToL2 = s.l1d.writebacksToL2
  BY DEF LoadCounted, IsL1D, L1DCounters
<1> HIDE DEF counted, b
<1>4. adr \in Asked
  BY DEF Asked
<1>5. Allocating(Ending(b, counted, out, stale))
  BY <1>2, <1>3, <1>4, DataRequestAllocates DEF b
<1> QED
  BY <1>1, <1>5

LEMMA L1DStoreAllocates ==
    ASSUME NEW s, L2OK(s), IsL1D(s.l1d), HasRoom(s), Allocating(s),
           NEW adr \in Addresses, NEW d, NEW stale
    PROVE  Allocating(L1DStore(s, adr, d, stale))
<1> DEFINE c     == s.l1d.config
           prefetch == FALSE
           hit   == InL1D(s, adr)
           read  == Read(c, s.l1d.table, adr)
           alloc == Write(c, read, adr, L2Data(s, adr))
           write == Write(c, IF hit THEN read ELSE alloc.table, adr, d)
           out   == IF hit THEN write.line ELSE alloc.line
           b     == LevelsBelow(s, hit, adr, prefetch)
           newTable == write.table
           counted  == StoreCounted(s.l1d, hit, newTable)
<1>1. L1DStore(s, adr, d, stale) = Ending(b, counted, out, stale)
  BY DEF L1DStore, StoreCounted, Ending, LevelsBelow
<1> HIDE DEF hit, out, newTable, prefetch
<1>2. IsL1D(counted) /\ counted.config = c
  BY StoreCountedType
<1>3. counted.writebacksToL2 = s.l1d.writebacksToL2
  BY DEF StoreCounted, IsL1D, L1DCounters
<1> HIDE DEF counted, b
<1>4. adr \in Asked
  BY DEF Asked
<1>5. Allocating(Ending(b, counted, out, stale))
  BY <1>2, <1>3, <1>4, DataRequestAllocates DEF b
<1> QED
  BY <1>1, <1>5

\* L1ICache::load asks L2 for the line it misses, and stores nothing there:
\* none of its lines is dirty.
LEMMA L1ILoadAllocates ==
    ASSUME NEW s, L2OK(s), IsL1D(s.l1d), L1IOK(s), HasRoom(s), Allocating(s),
           NEW ip \in Instructions
    PROVE  Allocating(L1ILoad(s, ip))
<1> DEFINE c     == s.l1i.config
           prefetch == FALSE
           hit   == InL1I(s, ip)
           read  == Read(c, s.l1i.table, ip)
           write == Write(c, read, ip, InitData)
           out   == IF hit THEN {} ELSE write.line
           b     == LevelsBelow(s, hit, ip, prefetch)
           newTable == IF hit THEN read ELSE write.table
           counted == FetchCounted(s.l1i, hit, newTable)
           u     == [b EXCEPT !.l1i = counted]
           t     == L1IHandleWritePolicy(u, out)
<1>1. L1ILoad(s, ip) = t
  BY DEF L1ILoad, FetchCounted, LevelsBelow
<1>2. /\ IsConfig(c) /\ IsTable(c, s.l1i.table)
      /\ \A line \in LinesOf(s.l1i.table) : ~line.invalid
      /\ ip \in Asked
      /\ IsL1I(s.l1i)
  BY DEF L1IOK, IsL1I, Asked
<1>3. Flushed(c, out) = {}
  BY FetchFlushesNothing
<1> HIDE DEF prefetch, hit, out, newTable
<1>4. /\ L2OK(b) /\ b.l1d = s.l1d
      /\ Allocations(b) = Allocations(s)
      /\ s.mm.prefetchCount = s.l2.prefetchRequestMiss =>
            b.mm.prefetchCount = b.l2.prefetchRequestMiss
  BY <1>2, LevelsBelowAllocate
<1> HIDE DEF b
<1>5. counted.config = c /\ DOMAIN counted = DOMAIN s.l1i
  BY <1>2 DEF FetchCounted, IsL1I, L1ICounters
<1> HIDE DEF counted
<1>6. IsCaches(u) /\ u.l1d = b.l1d /\ u.l1i = counted /\ u.l2 = b.l2 /\ u.mm = b.mm
  BY <1>4 DEF L2OK, IsCaches
<1> HIDE DEF u
<1>7. t.l1d = b.l1d /\ t.l2 = b.l2 /\ t.mm = b.mm
  <2>1. Flushed(u.l1i.config, out) = {}
    BY <1>3, <1>5, <1>6
  <2>2. t = [u EXCEPT !.l1i.table = Settled(u.l1i.config, @, out)]
    BY <2>1 DEF L1IHandleWritePolicy
  <2> QED
    BY <1>6, <2>2 DEF IsCaches
<1> HIDE DEF t
<1>8. Allocating(t)
  BY <1>4, <1>7 DEF Allocating, Allocations
<1> QED
  BY <1>1, <1>8

\* The counters are below their limit by what a request can add; those of the
\* code are 64 bits wide.
CountersHaveRoom == HasRoom(Caches)

LEMMA NextAllocations ==
    Inv /\ Allocating(Caches) /\ CountersHaveRoom /\ [Next]_vars => Allocating(Caches')
<1> SUFFICES ASSUME Inv, Allocating(Caches), CountersHaveRoom, [Next]_vars
             PROVE  Allocating(Caches')
  OBVIOUS
<1>1. /\ L2OK(Caches) /\ IsL1D(Caches.l1d) /\ L1IOK(Caches) /\ HasRoom(Caches)
  BY DEF Inv, Sound, L1DOK, CountersHaveRoom
<1>2. ASSUME NEW t, Become(t), Allocating(t)
      PROVE  Allocating(Caches')
  <2>1. Caches'.l1d = t.l1d /\ Caches'.l2 = t.l2 /\ Caches'.mm = t.mm
    BY <1>2 DEF Become, Caches
  <2> QED
    BY <1>2, <2>1 DEF Allocating, Allocations
<1>3. ASSUME NEW adr \in Addresses, NEW stale, Load(adr, stale)
      PROVE  Allocating(Caches')
  <2>1. Become(L1DLoad(Caches, adr, FALSE, stale))
    BY <1>3 DEF Load
  <2>2. Allocating(L1DLoad(Caches, adr, FALSE, stale))
    BY <1>1, L1DLoadAllocates, Zenon
  <2> QED
    BY <1>2, <2>1, <2>2
<1>4. ASSUME NEW adr \in Addresses, NEW stale, RunPrefetcher(adr, stale)
      PROVE  Allocating(Caches')
  <2>1. Become(L1DLoad(Caches, adr, TRUE, stale))
    BY <1>4 DEF RunPrefetcher
  <2>2. Allocating(L1DLoad(Caches, adr, TRUE, stale))
    BY <1>1, L1DLoadAllocates, Zenon
  <2> QED
    BY <1>2, <2>1, <2>2
<1>5. ASSUME NEW adr \in Addresses, NEW d \in Data, NEW stale, Store(adr, d, stale)
      PROVE  Allocating(Caches')
  <2>1. Become(L1DStore(Caches, adr, d, stale))
    BY <1>5 DEF Store
  <2>2. Allocating(L1DStore(Caches, adr, d, stale))
    BY <1>1, L1DStoreAllocates
  <2> QED
    BY <1>2, <2>1, <2>2
<1>6. ASSUME NEW ip \in Instructions, Fetch(ip)
      PROVE  Allocating(Caches')
  <2>1. Become(L1ILoad(Caches, ip))
    BY <1>6 DEF Fetch
  <2>2. Allocating(L1ILoad(Caches, ip))
    BY <1>1, L1ILoadAllocates
  <2> QED
    BY <1>2, <2>1, <2>2
<1>7. CASE UNCHANGED vars
  BY <1>7 DEF vars, Caches, Allocating, Allocations
<1> QED
  BY <1>3, <1>4, <1>5, <1>6, <1>7 DEF Next

\* Memory is asked for just the prefetches that missed in L2 and, with a
\* write-back L1D, the load misses of L2 and at most one line more for each
\* write-back: as long as the counters have room for what one more request
\* adds, since the property subtracts counters that must not have wrapped.
THEOREM WriteBacksAllocate ==
    Spec /\ []CountersHaveRoom => []WriteAllocations
<1>1. Init => Allocating(Caches)
  <2> SUFFICES ASSUME Init PROVE Allocating(Caches)
    OBVIOUS
  <2>1. PICK configs \in Hierarchies :
            l1d = NewL1DCache(configs.l1d) /\ l2 = NewL2Cache(configs.l2)
    BY DEF Init
  <2>2. /\ mm.loadCount = 0 /\ mm.prefetchCount = 0
        /\ l2.loadRequest = 0 /\ l2.loadRequestHit = 0 /\ l2.prefetchRequestMiss = 0
        /\ l1d.writebacksToL2 = 0
    BY <2>1 DEF Init, NewMainMem, NewL1DCache, NewL2Cache
  <2>3. Caches.l1d = l1d /\ Caches.l2 = l2 /\ Caches.mm = mm
    BY DEF Caches
  <2> HIDE DEF Caches
  <2> QED
    BY <2>2, <2>3 DEF Allocating, Allocations
<1>2. Allocating(Caches) => WriteAllocations
  BY DEF Allocating, Allocations, Caches, WriteAllocations
<1>3. Init => Inv
  BY InitInv
<1>4. Allocating(Caches') <=> Allocating(Caches)'
  BY DEF Allocating, Allocations, Caches
<1>5. Inv /\ Allocating(Caches) /\ CountersHaveRoom /\ [Next]_vars => Allocating(Caches)'
  BY <1>4, NextAllocations
<1>6. Inv /\ [Next]_vars => Inv'
  BY NextInv
<1> DEFINE A == Allocating(Caches)
<1>7. A => WriteAllocations
  BY <1>2
<1>8. Init => A
  BY <1>1
<1>9. Inv /\ A /\ CountersHaveRoom /\ [Next]_vars => A'
  BY <1>5
<1> HIDE DEF A
<1> QED
  BY <1>3, <1>6, <1>7, <1>8, <1>9, PTL DEF Spec

=============================================================================
