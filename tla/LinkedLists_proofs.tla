------------------------- MODULE LinkedLists_proofs -------------------------
(***************************************************************************)
(* What is kept on lists.  First the sets of SetAccessor as sequences, and *)
(* the LRU policy; then the lists of utlist; then the accesses of          *)
(* StreamPrefetcher, and the sets of SetAccessor on their linked lists.    *)
(*                                                                         *)
(* A linked list is described by the sequence of its nodes.  What a walk   *)
(* along it reaches is proved from a least step at which it would go wrong *)
(* (a least natural number of a set), since the walks are of any length.   *)
(***************************************************************************)
EXTENDS LinkedAccessor, StreamPrefetcher, SetAccessor_proofs, FiniteSetTheorems,
        WellFoundedInduction

------------------------------------------------------------------------------
(* The sets of a cache as sequences: the LRU policy *)

\* The induction needs the three facts together: a used line goes to the end
\* of a sorted list, so the list stays sorted only if the dates are typed, and
\* the evicted head is the oldest line only if the list is sorted.
IInv == TypeOK /\ RecencyOrder /\ KeepsMostRecent

\* The entries of base are entries of set, in the same order.
SubList(base, set) ==
    /\ \A j \in 1..Len(base) : \E i \in 1..Len(set) : base[j] = set[i]
    /\ \A j, k \in 1..Len(base) :
        j < k => \E i, l \in 1..Len(set) :
                    i < l /\ base[j] = set[i] /\ base[k] = set[l]

LEMMA RemoveAtIsSubList ==
    ASSUME NEW S, NEW s \in Seq(S), NEW i \in 1..Len(s)
    PROVE  SubList(RemoveAt(s, i), s)
<1> DEFINE r == RemoveAt(s, i)
           from == [j \in 1..(Len(s) - 1) |-> IF j < i THEN j ELSE j + 1]
<1>1. Len(s) \in Nat
  BY LenProperties
<1>2. /\ Len(r) = Len(s) - 1
      /\ \A j \in 1..(Len(s) - 1) : r[j] = IF j < i THEN s[j] ELSE s[j + 1]
  BY RemoveAtProperties
<1> HIDE DEF r
<1>3. \A j \in 1..Len(r) : from[j] \in 1..Len(s) /\ r[j] = s[from[j]]
  BY <1>1, <1>2
<1>4. \A j, k \in 1..Len(r) : j < k => from[j] < from[k]
  BY <1>1, <1>2
<1> HIDE DEF from
<1> QED
  BY <1>3, <1>4 DEF SubList, r

\* The set and the tag of an address of the run.
LEMMA AddressProperties ==
    ASSUME NEW adr \in Addresses
    PROVE  /\ LocTag(Config, adr) \in 0..(Config.numberOfSets - 1)
           /\ DataTag(Config, adr) \in Tags
           /\ LocTag(Config, DataTag(Config, adr)) = LocTag(Config, adr)
BY ConfigAssumption, AddressesAssumption, TagProperties DEF Tags

LEMMA InitInv == Init => IInv
<1> SUFFICES ASSUME Init PROVE IInv
  OBVIOUS
<1>1. Config.setSize \in Nat /\ Config.numberOfSets \in Nat \ {0}
  BY ConfigAssumption DEF IsCacheConfig
<1>2. table = [ltag \in 0..(Config.numberOfSets - 1) |-> << >>]
  BY DEF Init, EmptyTable
<1>3. << >> \in Seq(Lines) /\ Len(<< >>) = 0 /\ DOMAIN << >> = {}
  BY EmptySeq
<1>4. TypeOK
  BY <1>1, <1>2, <1>3, MaxUsesAssumption DEF TypeOK, Init
<1>5. RecencyOrder
  BY <1>2 DEF RecencyOrder
<1>6. KeepsMostRecent
  BY AddressProperties DEF KeepsMostRecent, Init
<1> QED
  BY <1>4, <1>5, <1>6 DEF IInv

\* One use of the line of adr: its set becomes base, entries of the old set
\* in their order and none with the tag of adr, followed by that line; what
\* base leaves out is the line itself or, in a set that stays full, a line
\* older than all of base.
LEMMA UseStep ==
    ASSUME IInv, NEW adr \in Addresses, Use(adr),
           NEW base \in Seq(Lines), NEW line \in Lines,
           line.tag = DataTag(Config, adr), ~line.evacuated,
           table' = [table EXCEPT ![LocTag(Config, adr)] = Append(base, line)],
           returned' \in SUBSET Lines,
           SubList(base, table[LocTag(Config, adr)]),
           \A j \in 1..Len(base) : base[j].tag # DataTag(Config, adr),
           Len(base) < Config.setSize,
           Len(table[LocTag(Config, adr)]) = Config.setSize
               => Len(base) + 1 = Config.setSize,
           \A i \in DOMAIN table[LocTag(Config, adr)] :
               LET tag == table[LocTag(Config, adr)][i].tag
               IN  \/ tag = DataTag(Config, adr)
                   \/ \E j \in 1..Len(base) : base[j].tag = tag
                   \/ /\ Len(base) + 1 = Config.setSize
                      /\ \A j \in 1..Len(base) :
                            lastUse[tag] < lastUse[base[j].tag]
    PROVE  IInv'
<1> DEFINE k    == LocTag(Config, adr)
           dtag == DataTag(Config, adr)
           set  == table[k]
           new  == Append(base, line)
<1>1. /\ k \in 0..(Config.numberOfSets - 1)
      /\ dtag \in Tags
      /\ LocTag(Config, dtag) = k
  BY AddressProperties
<1>2. /\ table \in [0..(Config.numberOfSets - 1) -> Seq(Lines)]
      /\ clock \in 0..MaxUses
      /\ lastUse \in [Tags -> 0..clock]
      /\ \A ltag \in DOMAIN table :
            /\ Len(table[ltag]) <= Config.setSize
            /\ \A i \in DOMAIN table[ltag] :
                /\ LocTag(Config, table[ltag][i].tag) = ltag
                /\ ~table[ltag][i].evacuated
  BY DEF IInv, TypeOK
<1>3. /\ clock < MaxUses
      /\ clock' = clock + 1
      /\ lastUse' = [lastUse EXCEPT ![dtag] = clock + 1]
  BY DEF Use
<1>4. /\ clock \in Nat /\ MaxUses \in Nat
      /\ Config.setSize \in Nat /\ Config.numberOfSets \in Nat
  BY <1>2, MaxUsesAssumption, ConfigAssumption DEF IsCacheConfig
<1>5. \A l \in Lines : l.tag \in Tags
  BY DEF Lines, CacheLine
<1>6. set \in Seq(Lines) /\ Len(set) \in Nat /\ DOMAIN set = 1..Len(set)
      /\ \A i \in 1..Len(set) : set[i] \in Lines
  BY <1>1, <1>2, LenProperties, ElementOfSeq
<1>7. Len(base) \in Nat /\ DOMAIN base = 1..Len(base)
      /\ \A j \in 1..Len(base) : base[j] \in Lines
  BY LenProperties, ElementOfSeq
<1>8. /\ new \in Seq(Lines)
      /\ Len(new) = Len(base) + 1
      /\ DOMAIN new = 1..Len(new)
      /\ \A j \in 1..Len(base) : new[j] = base[j]
      /\ new[Len(base) + 1] = line
  BY AppendProperties, LenProperties
<1>9. /\ table' \in [0..(Config.numberOfSets - 1) -> Seq(Lines)]
      /\ table'[k] = new
      /\ \A ltag \in 0..(Config.numberOfSets - 1) :
            ltag # k => table'[ltag] = table[ltag]
  BY <1>1, <1>2, <1>8
<1>10. /\ lastUse' \in [Tags -> 0..clock']
       /\ lastUse'[dtag] = clock + 1
       /\ \A t \in Tags : t # dtag => lastUse'[t] = lastUse[t]
       /\ \A t \in Tags : lastUse[t] \in Nat /\ lastUse[t] <= clock
  BY <1>1, <1>2, <1>3, <1>4
<1> HIDE DEF k, dtag, new, set
\* the lines of the other sets keep their dates
<1>11. \A ltag \in 0..(Config.numberOfSets - 1) : ltag # k =>
            \A i \in DOMAIN table[ltag] :
                /\ table[ltag][i].tag \in Tags
                /\ lastUse'[table[ltag][i].tag] = lastUse[table[ltag][i].tag]
  <2> SUFFICES ASSUME NEW ltag \in 0..(Config.numberOfSets - 1), ltag # k,
                      NEW i \in DOMAIN table[ltag]
               PROVE  /\ table[ltag][i].tag \in Tags
                      /\ lastUse'[table[ltag][i].tag] = lastUse[table[ltag][i].tag]
    OBVIOUS
  <2>1. table[ltag] \in Seq(Lines)
    BY <1>2
  <2>2. table[ltag][i] \in Lines
    BY <2>1, LenProperties, ElementOfSeq
  <2>3. LocTag(Config, table[ltag][i].tag) = ltag
    BY <1>2
  <2> QED
    BY <1>1, <1>5, <1>10, <2>2, <2>3
<1>12. \A j \in 1..Len(base) :
            /\ base[j].tag \in Tags
            /\ lastUse'[base[j].tag] = lastUse[base[j].tag]
  BY <1>5, <1>7, <1>10 DEF dtag
<1>13. TypeOK'
  <2>1. \A j \in 1..Len(new) :
            /\ LocTag(Config, new[j].tag) = k
            /\ ~new[j].evacuated
    <3> SUFFICES ASSUME NEW j \in 1..Len(new)
                 PROVE  LocTag(Config, new[j].tag) = k /\ ~new[j].evacuated
      OBVIOUS
    <3>1. CASE j = Len(base) + 1
      BY <1>1, <1>8, <3>1 DEF dtag
    <3>2. CASE j \in 1..Len(base)
      <4>1. PICK i \in 1..Len(set) : base[j] = set[i]
        BY <3>2 DEF SubList, set, k
      <4> QED
        BY <1>1, <1>2, <1>6, <1>8, <3>2, <4>1 DEF set
    <3> QED
      BY <1>7, <1>8, <3>1, <3>2
  <2>2. \A ltag \in DOMAIN table' :
            /\ Len(table'[ltag]) <= Config.setSize
            /\ \A i \in DOMAIN table'[ltag] :
                /\ LocTag(Config, table'[ltag][i].tag) = ltag
                /\ ~table'[ltag][i].evacuated
    <3> SUFFICES ASSUME NEW ltag \in 0..(Config.numberOfSets - 1)
                 PROVE  /\ Len(table'[ltag]) <= Config.setSize
                        /\ \A i \in DOMAIN table'[ltag] :
                            /\ LocTag(Config, table'[ltag][i].tag) = ltag
                            /\ ~table'[ltag][i].evacuated
      BY <1>9
    <3>1. CASE ltag = k
      BY <1>4, <1>7, <1>8, <1>9, <2>1, <3>1
    <3>2. CASE ltag # k
      BY <1>2, <1>9, <3>2
    <3> QED
      BY <3>1, <3>2
  <2>3. clock' \in 0..MaxUses
    BY <1>3, <1>4
  <2> QED
    BY <1>9, <1>10, <2>2, <2>3 DEF TypeOK
<1>14. RecencyOrder'
  <2> SUFFICES ASSUME NEW ltag \in 0..(Config.numberOfSets - 1),
                      NEW i \in DOMAIN table'[ltag],
                      NEW j \in DOMAIN table'[ltag], i < j
               PROVE  lastUse'[table'[ltag][i].tag] < lastUse'[table'[ltag][j].tag]
    BY <1>9, SMTT(30) DEF RecencyOrder
  <2>1. CASE ltag # k
    <3>1. table'[ltag] = table[ltag] /\ ltag \in DOMAIN table
      BY <1>2, <1>9, <2>1
    <3>2. i \in DOMAIN table[ltag] /\ j \in DOMAIN table[ltag]
      BY <3>1
    <3>3. lastUse[table[ltag][i].tag] < lastUse[table[ltag][j].tag]
      BY <3>1, <3>2 DEF IInv, RecencyOrder
    <3>4. /\ lastUse'[table[ltag][i].tag] = lastUse[table[ltag][i].tag]
          /\ lastUse'[table[ltag][j].tag] = lastUse[table[ltag][j].tag]
      BY <1>11, <2>1, <3>2
    <3> QED
      BY <3>1, <3>3, <3>4
  <2>2. CASE ltag = k /\ j = Len(base) + 1
    <3>1. i \in 1..Len(base) /\ new[i] = base[i] /\ new[j] = line
      BY <1>7, <1>8, <1>9, <2>2
    <3>2. lastUse'[new[i].tag] <= clock /\ lastUse'[new[i].tag] \in Nat
      BY <1>10, <1>12, <3>1
    <3> QED
      BY <1>4, <1>9, <1>10, <2>2, <3>1, <3>2, SMTT(30) DEF dtag
  <2>3. CASE ltag = k /\ j \in 1..Len(base)
    <3>1. i \in 1..Len(base) /\ new[i] = base[i] /\ new[j] = base[j]
      BY <1>7, <1>8, <1>9, <2>3
    <3>2. PICK a, b \in 1..Len(set) : a < b /\ base[i] = set[a] /\ base[j] = set[b]
      BY <2>3, <3>1 DEF SubList, set, k
    <3>3. lastUse[set[a].tag] < lastUse[set[b].tag]
      BY <1>1, <1>2, <1>6, <3>2 DEF IInv, RecencyOrder, set
    <3> QED
      BY <1>9, <1>12, <2>3, <3>1, <3>2, <3>3
  <2> QED
    BY <1>7, <1>8, <1>9, <2>1, <2>2, <2>3
<1>15. KeepsMostRecent'
  <2> SUFFICES ASSUME NEW other \in Addresses,
                      lastUse'[DataTag(Config, other)] > 0,
                      ~IsCached(Config, table', other)
               PROVE  LET s == table'[LocTag(Config, other)]
                      IN  /\ Len(s) = Config.setSize
                          /\ \A i \in DOMAIN s :
                                lastUse'[DataTag(Config, other)] < lastUse'[s[i].tag]
    BY DEF KeepsMostRecent, SetOf
  <2> DEFINE ot == DataTag(Config, other)
             ok == LocTag(Config, other)
  <2>1. ot \in Tags /\ ok \in 0..(Config.numberOfSets - 1)
        /\ LocTag(Config, ot) = ok
    BY AddressProperties
  <2>2. \A i \in DOMAIN table'[ok] : table'[ok][i].tag # ot
    BY DEF IsCached, SetOf
  <2>3. ASSUME ~IsCached(Config, table, other), lastUse[ot] > 0
        PROVE  /\ Len(table[ok]) = Config.setSize
               /\ \A i \in DOMAIN table[ok] : lastUse[ot] < lastUse[table[ok][i].tag]
    BY <2>3 DEF IInv, KeepsMostRecent, SetOf
  <2>4. lastUse'[ot] > 0
    OBVIOUS
  <2> HIDE DEF ot, ok
  <2>5. CASE ok # k
    <3>1. ot # dtag
      BY <1>1, <2>1, <2>5
    <3>2. table'[ok] = table[ok] /\ lastUse'[ot] = lastUse[ot]
      BY <1>9, <1>10, <2>1, <2>5, <3>1
    <3>3. ~IsCached(Config, table, other)
      BY <2>2, <3>2 DEF IsCached, SetOf, ok, ot
    <3>4. /\ Len(table[ok]) = Config.setSize
          /\ \A i \in DOMAIN table[ok] : lastUse[ot] < lastUse[table[ok][i].tag]
      BY <2>3, <2>4, <3>2, <3>3
    <3>5. \A i \in DOMAIN table[ok] :
            lastUse'[table[ok][i].tag] = lastUse[table[ok][i].tag]
      BY <1>11, <2>1, <2>5
    <3> QED
      BY <3>2, <3>4, <3>5 DEF ok, ot
  <2>6. CASE ok = k
    <3>1. ot # dtag
      <4>1. Len(base) + 1 \in DOMAIN new /\ new[Len(base) + 1].tag = dtag
        BY <1>7, <1>8 DEF dtag
      <4> QED
        BY <1>9, <2>2, <2>6, <4>1
    <3>2. lastUse'[ot] = lastUse[ot] /\ lastUse[ot] <= clock /\ lastUse[ot] \in Nat
      BY <1>10, <2>1, <3>1
    <3>3. \A j \in 1..Len(base) : base[j].tag # ot
      BY <1>7, <1>8, <1>9, <2>2, <2>6, SMTT(30)
    <3>4. /\ Len(base) + 1 = Config.setSize
          /\ \A j \in 1..Len(base) : lastUse[ot] < lastUse[base[j].tag]
      <4>1. CASE \E i \in DOMAIN set : set[i].tag = ot
        <5>1. PICK i \in DOMAIN set : set[i].tag = ot
          BY <4>1
        <5> QED
          BY <3>1, <3>3, <5>1 DEF set, k, dtag
      <4>2. CASE ~ \E i \in DOMAIN set : set[i].tag = ot
        <5>1. ~IsCached(Config, table, other)
          BY <2>6, <4>2 DEF IsCached, SetOf, set, ok, ot
        <5>2. /\ Len(set) = Config.setSize
              /\ \A i \in DOMAIN set : lastUse[ot] < lastUse[set[i].tag]
          BY <2>3, <2>4, <2>6, <3>2, <5>1 DEF set
        <5> QED
          BY <1>6, <5>2 DEF SubList, set, k
      <4> QED
        BY <4>1, <4>2
    <3>5. \A j \in 1..Len(new) : lastUse[ot] < lastUse'[new[j].tag]
      <4> SUFFICES ASSUME NEW j \in 1..Len(new)
                   PROVE  lastUse[ot] < lastUse'[new[j].tag]
        OBVIOUS
      <4>1. CASE j \in 1..Len(base)
        BY <1>8, <1>12, <3>4, <4>1
      <4>2. CASE j = Len(base) + 1
        BY <1>4, <1>8, <1>10, <3>2, <4>2 DEF dtag
      <4> QED
        BY <1>7, <1>8, <4>1, <4>2
    <3> QED
      BY <1>8, <1>9, <2>6, <3>2, <3>4, <3>5 DEF ot, ok
  <2> QED
    BY <2>5, <2>6
<1> QED
  BY <1>13, <1>14, <1>15 DEF IInv

\* The set of an address, its dates distinct and its tags those of Tags.
LEMMA SetProperties ==
    ASSUME TypeOK, RecencyOrder, NEW adr \in Addresses
    PROVE  LET set == table[LocTag(Config, adr)]
           IN  /\ set \in Seq(Lines)
               /\ Len(set) \in Nat
               /\ Len(set) <= Config.setSize
               /\ DOMAIN set = 1..Len(set)
               /\ \A i \in 1..Len(set) :
                    /\ set[i] \in Lines
                    /\ set[i].tag \in Tags
                    /\ ~set[i].evacuated
               /\ \A i, j \in 1..Len(set) :
                    i < j => lastUse[set[i].tag] < lastUse[set[j].tag]
               /\ \A i, j \in 1..Len(set) :
                    set[i].tag = set[j].tag => i = j
<1> DEFINE set == table[LocTag(Config, adr)]
<1>1. LocTag(Config, adr) \in DOMAIN table /\ set \in Seq(Lines)
  BY AddressProperties DEF TypeOK
<1>2. /\ Len(set) \in Nat /\ DOMAIN set = 1..Len(set)
      /\ \A i \in 1..Len(set) : set[i] \in Lines
  BY <1>1, LenProperties, ElementOfSeq
<1>3. /\ Len(set) <= Config.setSize
      /\ \A i \in 1..Len(set) : ~set[i].evacuated
  BY <1>1, <1>2 DEF TypeOK
<1>4. \A l \in Lines : l.tag \in Tags
  BY DEF Lines, CacheLine
<1>5. \A i, j \in 1..Len(set) :
        i < j => lastUse[set[i].tag] < lastUse[set[j].tag]
  BY <1>1, <1>2 DEF RecencyOrder
<1>6. \A i \in 1..Len(set) : lastUse[set[i].tag] \in Nat
  BY <1>2, <1>4 DEF TypeOK
<1> HIDE DEF set
<1>7. \A i, j \in 1..Len(set) : set[i].tag = set[j].tag => i = j
  <2> SUFFICES ASSUME NEW i \in 1..Len(set), NEW j \in 1..Len(set),
                      set[i].tag = set[j].tag, i # j
               PROVE  FALSE
    OBVIOUS
  <2>1. CASE i < j
    BY <1>5, <1>6, <2>1
  <2>2. CASE j < i
    BY <1>5, <1>6, <2>2
  <2> QED
    BY <1>2, <2>1, <2>2
<1> QED
  BY <1>1, <1>2, <1>3, <1>4, <1>5, <1>7 DEF set

\* A cached line moved to the end of its set: the hits of read and write.
LEMMA HitStep ==
    ASSUME IInv, NEW adr \in Addresses, Use(adr), IsCached(Config, table, adr),
           NEW line \in Lines, line.tag = DataTag(Config, adr), ~line.evacuated,
           LET set == table[LocTag(Config, adr)]
           IN  table' = [table EXCEPT ![LocTag(Config, adr)] =
                            MoveToEnd(set, EntryOf(set, DataTag(Config, adr)), line)],
           returned' \in SUBSET Lines
    PROVE  IInv'
<1> DEFINE k     == LocTag(Config, adr)
           dtag  == DataTag(Config, adr)
           set   == table[k]
           entry == EntryOf(set, dtag)
           base  == RemoveAt(set, entry)
<1>1. TypeOK /\ RecencyOrder
  BY DEF IInv
<1>2. /\ set \in Seq(Lines)
      /\ Len(set) \in Nat
      /\ Len(set) <= Config.setSize
      /\ DOMAIN set = 1..Len(set)
      /\ \A i, j \in 1..Len(set) : set[i].tag = set[j].tag => i = j
  BY <1>1, SetProperties
<1>3. entry \in 1..Len(set) /\ set[entry].tag = dtag
  BY <1>2, EntryOfProperties DEF IsCached, SetOf
<1>4. /\ base \in Seq(Lines)
      /\ Len(base) = Len(set) - 1
      /\ \A j \in 1..(Len(set) - 1) :
            base[j] = IF j < entry THEN set[j] ELSE set[j + 1]
  BY <1>2, <1>3, RemoveAtProperties
<1>5. SubList(base, set)
  BY <1>2, <1>3, RemoveAtIsSubList
<1>6. table' = [table EXCEPT ![k] = Append(base, line)]
  BY DEF MoveToEnd
<1>7. Config.setSize \in Nat
  BY ConfigAssumption DEF IsCacheConfig
<1> HIDE DEF base, entry, set, k, dtag
<1>8. \A j \in 1..Len(base) : base[j].tag # dtag
  BY <1>2, <1>3, <1>4
<1>9. \A i \in 1..Len(set) :
        \/ set[i].tag = dtag
        \/ \E j \in 1..Len(base) : base[j].tag = set[i].tag
  <2> SUFFICES ASSUME NEW i \in 1..Len(set), i # entry
               PROVE  \E j \in 1..Len(base) : base[j].tag = set[i].tag
    BY <1>3
  <2>1. CASE i < entry
    <3>1. i \in 1..Len(base) /\ base[i] = set[i]
      BY <1>2, <1>3, <1>4, <2>1
    <3> QED
      BY <3>1
  <2>2. CASE entry < i
    <3>1. i - 1 \in 1..Len(base) /\ base[i - 1] = set[i]
      BY <1>2, <1>3, <1>4, <2>2
    <3> QED
      BY <3>1
  <2> QED
    BY <1>2, <1>3, <2>1, <2>2
<1>10. Len(base) < Config.setSize /\ (Len(set) = Config.setSize
                                        => Len(base) + 1 = Config.setSize)
  BY <1>2, <1>4, <1>7
<1> QED
  BY <1>2, <1>4, <1>5, <1>6, <1>8, <1>9, <1>10, UseStep DEF set, k, dtag

\* A new line appended to its set, without the head of a full set.
LEMMA AllocationStep ==
    ASSUME IInv, NEW adr \in Addresses, Use(adr), ~IsCached(Config, table, adr),
           NEW line \in Lines, line.tag = DataTag(Config, adr), ~line.evacuated,
           LET set == table[LocTag(Config, adr)]
           IN  table' = [table EXCEPT ![LocTag(Config, adr)] =
                            Append(IF IsFull(Config, set) THEN RemoveAt(set, 1)
                                                          ELSE set, line)],
           returned' \in SUBSET Lines
    PROVE  IInv'
<1> DEFINE k    == LocTag(Config, adr)
           dtag == DataTag(Config, adr)
           set  == table[k]
           base == IF IsFull(Config, set) THEN RemoveAt(set, 1) ELSE set
<1>1. TypeOK /\ RecencyOrder
  BY DEF IInv
<1>2. /\ set \in Seq(Lines)
      /\ Len(set) \in Nat
      /\ Len(set) <= Config.setSize
      /\ DOMAIN set = 1..Len(set)
      /\ \A i, j \in 1..Len(set) :
            i < j => lastUse[set[i].tag] < lastUse[set[j].tag]
  BY <1>1, SetProperties
<1>3. \A i \in 1..Len(set) : set[i].tag # dtag
  BY <1>2 DEF IsCached, SetOf
<1>4. Config.setSize \in Nat \ {0}
  BY ConfigAssumption DEF IsCacheConfig
<1>5. CASE IsFull(Config, set)
  <2>1. Len(set) = Config.setSize /\ 1 \in 1..Len(set)
    BY <1>2, <1>4, <1>5 DEF IsFull
  <2>2. /\ base \in Seq(Lines)
        /\ Len(base) = Len(set) - 1
        /\ \A j \in 1..(Len(set) - 1) : base[j] = set[j + 1]
    BY <1>2, <1>5, <2>1, RemoveAtProperties
  <2>3. SubList(base, set)
    BY <1>2, <1>5, <2>1, RemoveAtIsSubList
  <2>4. table' = [table EXCEPT ![k] = Append(base, line)]
    OBVIOUS
  <2> HIDE DEF base, set, k, dtag
  <2>5. \A j \in 1..Len(base) :
            /\ j + 1 \in 1..Len(set)
            /\ 1 < j + 1
            /\ base[j] = set[j + 1]
            /\ base[j].tag # dtag
    <3> SUFFICES ASSUME NEW j \in 1..Len(base)
                 PROVE  /\ j + 1 \in 1..Len(set)
                        /\ 1 < j + 1
                        /\ base[j] = set[j + 1]
                        /\ base[j].tag # dtag
      OBVIOUS
    <3>1. Len(base) = Len(set) - 1 /\ Len(set) \in Nat
      BY <1>2, <2>2
    <3>2. j \in Nat /\ j >= 1 /\ j <= Len(set) - 1
      BY <3>1
    <3>3. j + 1 \in 1..Len(set) /\ base[j] = set[j + 1]
      BY <2>2, <3>1, <3>2
    <3> QED
      BY <1>3, <3>2, <3>3
  <2>6. Len(base) < Config.setSize /\ Len(base) + 1 = Config.setSize
    BY <1>4, <2>1, <2>2
  <2>7. \A i \in 1..Len(set) :
            \/ \E j \in 1..Len(base) : base[j].tag = set[i].tag
            \/ \A j \in 1..Len(base) : lastUse[set[i].tag] < lastUse[base[j].tag]
    <3> SUFFICES ASSUME NEW i \in 1..Len(set)
                 PROVE  \/ \E j \in 1..Len(base) : base[j].tag = set[i].tag
                        \/ \A j \in 1..Len(base) :
                                lastUse[set[i].tag] < lastUse[base[j].tag]
      OBVIOUS
    <3>1. CASE i = 1
      BY <1>2, <2>1, <2>5, <3>1
    <3>2. CASE i > 1
      <4>1. i - 1 \in 1..Len(base) /\ (i - 1) + 1 = i
        BY <1>2, <2>2, <3>2
      <4>2. base[i - 1] = set[i]
        BY <2>5, <4>1
      <4> QED
        BY <4>1, <4>2
    <3> QED
      BY <1>2, <3>1, <3>2
  <2> QED
    BY <1>2, <2>2, <2>3, <2>4, <2>5, <2>6, <2>7, UseStep DEF set, k, dtag
<1>6. CASE ~IsFull(Config, set)
  <2>1. base = set /\ Len(set) < Config.setSize
    BY <1>2, <1>4, <1>6 DEF IsFull
  <2>2. SubList(set, set)
    BY DEF SubList
  <2>3. table' = [table EXCEPT ![k] = Append(set, line)]
    BY <2>1
  <2>4. Len(set) = Config.setSize => Len(set) + 1 = Config.setSize
    BY <1>2, <1>4, <2>1
  <2> HIDE DEF base, set, k, dtag
  <2> QED
    BY <1>2, <1>3, <2>1, <2>2, <2>3, <2>4, UseStep DEF set, k, dtag
<1> QED
  BY <1>5, <1>6

LEMMA ReadHitInv ==
    ASSUME IInv, NEW adr \in Addresses, ReadHit(adr)
    PROVE  IInv'
<1> DEFINE k     == LocTag(Config, adr)
           set   == table[k]
           entry == EntryOf(set, DataTag(Config, adr))
           new   == MoveToEnd(set, entry, set[entry])
<1>1. TypeOK /\ RecencyOrder /\ Use(adr) /\ IsCached(Config, table, adr)
  BY DEF IInv, ReadHit
<1>2. /\ set \in Seq(Lines)
      /\ DOMAIN set = 1..Len(set)
      /\ \A i \in 1..Len(set) : set[i] \in Lines /\ ~set[i].evacuated
  BY <1>1, SetProperties
<1>3. entry \in 1..Len(set) /\ set[entry].tag = DataTag(Config, adr)
  BY <1>1, <1>2, EntryOfProperties DEF IsCached, SetOf
<1>4. table' = [table EXCEPT ![k] = new]
  BY <1>1 DEF ReadHit, Read, SetOf
<1>5. returned' \in SUBSET Lines
  <2>1. RemoveAt(set, entry) \in Seq(Lines)
    BY <1>2, <1>3, RemoveAtProperties
  <2>2. /\ new \in Seq(Lines)
        /\ Len(new) = Len(RemoveAt(set, entry)) + 1
        /\ new[Len(RemoveAt(set, entry)) + 1] = set[entry]
    BY <1>2, <1>3, <2>1, AppendProperties DEF MoveToEnd
  <2>3. table'[k] = new
    BY <1>1, <1>4, AddressProperties DEF TypeOK
  <2>4. Last(SetOf(Config, table', adr)) = set[entry]
    BY <2>2, <2>3 DEF Last, SetOf
  <2> QED
    BY <1>2, <1>3, <2>4 DEF ReadHit
<1> HIDE DEF entry
<1> QED
  BY <1>1, <1>2, <1>3, <1>4, <1>5, HitStep DEF entry

LEMMA WriteLineInv ==
    ASSUME IInv, NEW adr \in Addresses, WriteLine(adr)
    PROVE  IInv'
<1> DEFINE k     == LocTag(Config, adr)
           dtag  == DataTag(Config, adr)
           set   == table[k]
           entry == EntryOf(set, dtag)
           rewritten == [SetEntryInvalid(set[entry]) EXCEPT !.data = 0]
           fresh == NewCacheLine(dtag, 0)
<1>1. TypeOK /\ RecencyOrder /\ Use(adr)
  BY DEF IInv, WriteLine
<1>2. /\ set \in Seq(Lines)
      /\ Len(set) \in Nat
      /\ DOMAIN set = 1..Len(set)
      /\ \A i \in 1..Len(set) : set[i] \in Lines /\ ~set[i].evacuated
  BY <1>1, SetProperties
<1>3. CASE IsCached(Config, table, adr)
  <2>1. entry \in 1..Len(set) /\ set[entry].tag = dtag
    BY <1>2, <1>3, EntryOfProperties DEF IsCached, SetOf
  <2>2. rewritten \in Lines /\ rewritten.tag = dtag /\ ~rewritten.evacuated
    <3>1. set[entry] \in Lines /\ ~set[entry].evacuated
      BY <1>2, <2>1
    <3> QED
      BY <2>1, <3>1 DEF Lines, CacheLine, SetEntryInvalid
  <2>3. /\ table' = [table EXCEPT ![k] = MoveToEnd(set, entry, rewritten)]
        /\ returned' = {rewritten}
    BY <1>3 DEF WriteLine, Write, SetOf
  <2>4. returned' \in SUBSET Lines
    BY <2>2, <2>3
  <2> HIDE DEF rewritten
  <2> QED
    BY <1>1, <1>3, <2>2, <2>3, <2>4, HitStep
<1>4. CASE ~IsCached(Config, table, adr)
  <2>1. fresh \in Lines /\ fresh.tag = dtag /\ ~fresh.evacuated
    BY AddressProperties DEF Lines, CacheLine, NewCacheLine
  <2>2. /\ table' = [table EXCEPT ![k] =
                        Append(IF IsFull(Config, set) THEN RemoveAt(set, 1)
                                                      ELSE set, fresh)]
        /\ returned' = IF IsFull(Config, set) THEN {SetEvacuated(set[1])} ELSE {}
    BY <1>4 DEF WriteLine, Write, SetOf, Victim
  <2>3. returned' \in SUBSET Lines
    <3>1. CASE IsFull(Config, set)
      <4>1. 1 \in 1..Len(set)
        BY <1>2, <3>1, ConfigAssumption DEF IsFull, IsCacheConfig
      <4>2. SetEvacuated(set[1]) \in Lines
        BY <1>2, <4>1 DEF Lines, CacheLine, SetEvacuated
      <4> QED
        BY <2>2, <3>1, <4>2
    <3>2. CASE ~IsFull(Config, set)
      BY <2>2, <3>2
    <3> QED
      BY <3>1, <3>2
  <2> HIDE DEF fresh
  <2> QED
    BY <1>1, <1>4, <2>1, <2>2, <2>3, AllocationStep
<1> QED
  BY <1>3, <1>4

LEMMA ReadMissInv ==
    ASSUME IInv, NEW adr \in Addresses, ReadMiss(adr)
    PROVE  IInv'
<1>1. table' = table /\ clock' = clock /\ lastUse' = lastUse /\ returned' = {}
  BY DEF ReadMiss, Read
<1> QED
  BY <1>1 DEF IInv, TypeOK, RecencyOrder, KeepsMostRecent, IsCached, SetOf

LEMMA Invariance == Spec => []IInv
<1>1. Init => IInv
  BY InitInv
<1>2. IInv /\ [Next]_vars => IInv'
  <2> SUFFICES ASSUME IInv, [Next]_vars PROVE IInv'
    OBVIOUS
  <2>1. CASE Next
    BY <2>1, ReadHitInv, ReadMissInv, WriteLineInv DEF Next
  <2>2. CASE UNCHANGED vars
    BY <2>2 DEF vars, IInv, TypeOK, RecencyOrder, KeepsMostRecent, IsCached, SetOf
  <2> QED
    BY <2>1, <2>2
<1> QED
  BY <1>1, <1>2, PTL DEF Spec

\* Every set of the table holds at most setSize lines, of addresses that
\* belong to it, and none that was evacuated.
THEOREM TypeCorrect == Spec => []TypeOK
<1>1. IInv => TypeOK
  BY DEF IInv
<1> QED
  BY <1>1, Invariance, PTL

\* The order of a set's list is the order of last use, and no line is in a
\* set twice.
THEOREM ListsAreSorted == Spec => []RecencyOrder
<1>1. IInv => RecencyOrder
  BY DEF IInv
<1> QED
  BY <1>1, Invariance, PTL

\* The cache replaces the least recently used line: what read and write keep
\* in a set is always more recent than what they let go of.
THEOREM LruReplacement == Spec => []KeepsMostRecent
<1>1. IInv => KeepsMostRecent
  BY DEF IInv
<1> QED
  BY <1>1, Invariance, PTL

\* The lines a set holds after a hit and after an allocation.
LEMMA LinesAfterHit ==
    ASSUME IInv, NEW adr \in Addresses, IsCached(Config, table, adr),
           NEW x \in Lines,
           LET set == table[LocTag(Config, adr)]
           IN  table' = [table EXCEPT ![LocTag(Config, adr)] =
                            MoveToEnd(set, EntryOf(set, DataTag(Config, adr)), x)]
    PROVE  \A line \in LinesOf(table) :
                line.tag # DataTag(Config, adr) => line \in LinesOf(table')
<1> DEFINE k     == LocTag(Config, adr)
           set   == table[k]
           entry == EntryOf(set, DataTag(Config, adr))
<1>1. /\ set \in Seq(Lines)
      /\ DOMAIN set = 1..Len(set)
      /\ k \in DOMAIN table
      /\ table' = [table EXCEPT ![k] = Append(RemoveAt(set, entry), x)]
  BY SetProperties, AddressProperties DEF IInv, TypeOK, MoveToEnd
<1>2. entry \in 1..Len(set) /\ set[entry].tag = DataTag(Config, adr)
  BY <1>1, EntryOfProperties DEF IsCached, SetOf
<1> HIDE DEF entry, set, k
<1>3. ToSet(table'[k]) = {set[j] : j \in (1..Len(set)) \ {entry}} \cup {x}
  <2>1. table'[k] = Append(RemoveAt(set, entry), x)
    BY <1>1
  <2>2. ToSet(Append(RemoveAt(set, entry), x)) =
            {set[j] : j \in (1..Len(set)) \ {entry}} \cup {x}
    BY <1>1, <1>2, ReplacedLines
  <2> QED
    BY <2>1, <2>2
<1>4. DOMAIN table' = DOMAIN table /\ \A ltag \in DOMAIN table \ {k} : table'[ltag] = table[ltag]
  BY <1>1
<1>5. SUFFICES ASSUME NEW ltag \in DOMAIN table, NEW i \in DOMAIN table[ltag],
                      table[ltag][i].tag # DataTag(Config, adr)
               PROVE  table[ltag][i] \in ToSet(table'[ltag])
  BY <1>4 DEF LinesOf, ToSet
<1>6. CASE ltag = k
  BY <1>1, <1>2, <1>3, <1>5, <1>6 DEF set
<1>7. CASE ltag # k
  BY <1>4, <1>5, <1>7 DEF ToSet
<1> QED
  BY <1>6, <1>7

LEMMA LinesAfterAllocation ==
    ASSUME IInv, NEW adr \in Addresses, NEW x \in Lines,
           LET set == table[LocTag(Config, adr)]
           IN  table' = [table EXCEPT ![LocTag(Config, adr)] =
                            Append(IF IsFull(Config, set) THEN RemoveAt(set, 1)
                                                          ELSE set, x)]
    PROVE  LET set == table[LocTag(Config, adr)]
           IN  \A line \in LinesOf(table) :
                \/ line \in LinesOf(table')
                \/ IsFull(Config, set) /\ line = set[1]
<1> DEFINE k   == LocTag(Config, adr)
           set == table[k]
<1>1. /\ set \in Seq(Lines)
      /\ Len(set) \in Nat
      /\ DOMAIN set = 1..Len(set)
      /\ k \in DOMAIN table
  BY SetProperties, AddressProperties DEF IInv, TypeOK
<1>2. /\ DOMAIN table' = DOMAIN table
      /\ \A ltag \in DOMAIN table \ {k} : table'[ltag] = table[ltag]
      /\ table'[k] = Append(IF IsFull(Config, set) THEN RemoveAt(set, 1)
                                                    ELSE set, x)
  BY <1>1
<1>3. IsFull(Config, set) => 1 \in 1..Len(set)
  BY <1>1, ConfigAssumption DEF IsFull, IsCacheConfig
<1>4. ToSet(table'[k]) =
        IF IsFull(Config, set) THEN {set[j] : j \in (1..Len(set)) \ {1}} \cup {x}
                               ELSE ToSet(set) \cup {x}
  <2>1. CASE IsFull(Config, set)
    BY <1>1, <1>2, <1>3, <2>1, ReplacedLines
  <2>2. CASE ~IsFull(Config, set)
    BY <1>1, <1>2, <2>2, AppendedLines
  <2> QED
    BY <2>1, <2>2
<1> HIDE DEF set, k
<1>5. SUFFICES ASSUME NEW ltag \in DOMAIN table, NEW i \in DOMAIN table[ltag]
               PROVE  \/ table[ltag][i] \in ToSet(table'[ltag])
                      \/ IsFull(Config, set) /\ table[ltag][i] = set[1]
  BY <1>2 DEF LinesOf, ToSet, set, k
<1>6. CASE ltag = k
  <2>1. i \in 1..Len(set) /\ table[ltag][i] = set[i]
    BY <1>1, <1>5, <1>6 DEF set
  <2>2. CASE ~IsFull(Config, set)
    <3>1. set[i] \in ToSet(set)
      BY <1>1, <2>1 DEF ToSet
    <3> QED
      BY <1>4, <1>6, <2>1, <2>2, <3>1
  <2>3. CASE IsFull(Config, set) /\ i # 1
    BY <1>4, <1>6, <2>1, <2>3
  <2>4. CASE IsFull(Config, set) /\ i = 1
    BY <2>1, <2>4
  <2> QED
    BY <2>2, <2>3, <2>4
<1>7. CASE ltag # k
  BY <1>2, <1>5, <1>7 DEF ToSet
<1> QED
  BY <1>6, <1>7

\* No call drops a line, or a dirty flag, without handing the line to its
\* caller: what the write-back of every cache relies on.
THEOREM LinesAreHandedOver == Spec => NoSilentLoss
<1> DEFINE Handed ==
        \A line \in LinesOf(table) :
          \/ \E kept \in LinesOf(table') :
                kept.tag = line.tag /\ (line.invalid => kept.invalid)
          \/ returned' = {[line EXCEPT !.evacuated = TRUE]}
<1>1. ASSUME IInv, NEW adr \in Addresses, ReadHit(adr)
      PROVE  Handed
  <2> DEFINE k     == LocTag(Config, adr)
             set   == table[k]
             entry == EntryOf(set, DataTag(Config, adr))
  <2>1. /\ set \in Seq(Lines)
        /\ DOMAIN set = 1..Len(set)
        /\ k \in DOMAIN table
        /\ \A i \in 1..Len(set) : set[i] \in Lines
    BY <1>1, SetProperties, AddressProperties DEF IInv, TypeOK
  <2>2. IsCached(Config, table, adr)
    BY <1>1 DEF ReadHit
  <2>3. entry \in 1..Len(set) /\ set[entry].tag = DataTag(Config, adr)
    BY <2>1, <2>2, EntryOfProperties DEF IsCached, SetOf
  <2>4. table' = [table EXCEPT ![k] = MoveToEnd(set, entry, set[entry])]
    BY <1>1 DEF ReadHit, Read, SetOf
  <2>5. set[entry] \in LinesOf(table')
    <3>1. ToSet(table'[k]) = {set[j] : j \in (1..Len(set)) \ {entry}} \cup {set[entry]}
      BY <2>1, <2>3, <2>4, ReplacedLines DEF MoveToEnd
    <3>2. k \in DOMAIN table'
      BY <2>1, <2>4
    <3> HIDE DEF entry, set, k
    <3> QED
      BY <3>1, <3>2 DEF LinesOf
  <2>6. \A line \in LinesOf(table) :
            line.tag # DataTag(Config, adr) => line \in LinesOf(table')
    BY <1>1, <2>1, <2>2, <2>3, <2>4, LinesAfterHit
  <2>7. \A line \in LinesOf(table) :
            line.tag = DataTag(Config, adr) => line = set[entry]
    <3> SUFFICES ASSUME NEW ltag \in DOMAIN table, NEW i \in DOMAIN table[ltag],
                        table[ltag][i].tag = DataTag(Config, adr)
                 PROVE  table[ltag][i] = set[entry]
      BY DEF LinesOf, ToSet
    <3>1. ltag = k
      BY <1>1, AddressProperties DEF IInv, TypeOK
    <3>2. \A p, q \in 1..Len(set) : set[p].tag = set[q].tag => p = q
      BY <1>1, SetProperties DEF IInv
    <3> HIDE DEF entry
    <3> QED
      BY <2>1, <2>3, <3>1, <3>2
  <2> HIDE DEF entry, set, k
  <2> QED
    BY <2>5, <2>6, <2>7
<1>2. ASSUME IInv, NEW adr \in Addresses, WriteLine(adr)
      PROVE  Handed
  <2> DEFINE k     == LocTag(Config, adr)
             dtag  == DataTag(Config, adr)
             set   == table[k]
             entry == EntryOf(set, dtag)
             rewritten == [SetEntryInvalid(set[entry]) EXCEPT !.data = 0]
             fresh == NewCacheLine(dtag, 0)
  <2>1. /\ set \in Seq(Lines)
        /\ Len(set) \in Nat
        /\ DOMAIN set = 1..Len(set)
        /\ k \in DOMAIN table
        /\ dtag \in Tags
        /\ \A i \in 1..Len(set) : set[i] \in Lines
    BY <1>2, SetProperties, AddressProperties DEF IInv, TypeOK
  <2>2. CASE IsCached(Config, table, adr)
    <3>1. entry \in 1..Len(set) /\ set[entry].tag = dtag
      BY <2>1, <2>2, EntryOfProperties DEF IsCached, SetOf
    <3>2. rewritten \in Lines /\ rewritten.tag = dtag /\ rewritten.invalid
      <4>1. set[entry] \in Lines
        BY <2>1, <3>1
      <4> QED
        BY <3>1, <4>1 DEF Lines, CacheLine, SetEntryInvalid
    <3>3. table' = [table EXCEPT ![k] = MoveToEnd(set, entry, rewritten)]
      BY <1>2, <2>2 DEF WriteLine, Write, SetOf
    <3> HIDE DEF rewritten
    <3>4. rewritten \in LinesOf(table')
      <4>1. ToSet(table'[k]) = {set[j] : j \in (1..Len(set)) \ {entry}} \cup {rewritten}
        BY <2>1, <3>1, <3>2, <3>3, ReplacedLines DEF MoveToEnd
      <4>2. k \in DOMAIN table'
        BY <2>1, <3>3
      <4> HIDE DEF entry, set, k
      <4> QED
        BY <4>1, <4>2 DEF LinesOf
    <3>5. \A line \in LinesOf(table) :
              line.tag # DataTag(Config, adr) => line \in LinesOf(table')
      BY <1>2, <2>2, <3>2, <3>3, LinesAfterHit
    <3> HIDE DEF entry, set, k
    <3> QED
      BY <3>2, <3>4, <3>5
  <2>3. CASE ~IsCached(Config, table, adr)
    <3>1. fresh \in Lines
      BY <2>1 DEF Lines, CacheLine, NewCacheLine
    <3>2. /\ table' = [table EXCEPT ![k] =
                          Append(IF IsFull(Config, set) THEN RemoveAt(set, 1)
                                                        ELSE set, fresh)]
          /\ returned' = IF IsFull(Config, set) THEN {SetEvacuated(set[1])} ELSE {}
      BY <1>2, <2>3 DEF WriteLine, Write, SetOf, Victim
    <3> HIDE DEF fresh
    <3>3. \A line \in LinesOf(table) :
            \/ line \in LinesOf(table')
            \/ IsFull(Config, set) /\ line = set[1]
      BY <1>2, <3>1, <3>2, LinesAfterAllocation
    <3> HIDE DEF set, k
    <3> QED
      BY <3>2, <3>3 DEF SetEvacuated
  <2> QED
    BY <2>2, <2>3
<1>3. ASSUME IInv, NEW adr \in Addresses, ReadMiss(adr)
      PROVE  Handed
  BY <1>3 DEF ReadMiss, Read
<1>4. IInv /\ Next => Handed
  BY <1>1, <1>2, <1>3 DEF Next
<1>5. IInv /\ [Next]_vars => [Handed]_vars
  BY <1>4
<1> QED
  BY <1>5, Invariance, PTL DEF Spec, NoSilentLoss

------------------------------------------------------------------------------
(* Memory and pointers *)

Pointers == Nodes \cup {NULL}

Cells(V) == [prev : Pointers, next : Pointers, value : V]

\* What memory can hold, and a list in it.
Heap(V) == {m \in UNION {[D -> Cells(V)] : D \in SUBSET Nodes} :
                DOMAIN m \subseteq Nodes /\ m \in [DOMAIN m -> Cells(V)]}

Lists(V) == [head : Pointers, nodes : Heap(V)]

LEMMA HeapIs ==
    ASSUME NEW V, NEW m, DOMAIN m \subseteq Nodes, m \in [DOMAIN m -> Cells(V)]
    PROVE  m \in Heap(V)
<1>1. [DOMAIN m -> Cells(V)] \in {[D -> Cells(V)] : D \in SUBSET Nodes}
  OBVIOUS
<1> QED
  BY <1>1 DEF Heap

SetNext(m, node, to) == [m EXCEPT ![node].next = to]

SetPrev(m, node, to) == [m EXCEPT ![node].prev = to]

LEMMA SetNextIs ==
    ASSUME NEW V, NEW m \in Heap(V), NEW node \in DOMAIN m, NEW to \in Pointers
    PROVE  LET r == SetNext(m, node, to)
           IN  /\ r \in Heap(V) /\ DOMAIN r = DOMAIN m
               /\ \A n \in DOMAIN m :
                    /\ r[n].next = IF n = node THEN to ELSE m[n].next
                    /\ r[n].prev = m[n].prev /\ r[n].value = m[n].value
                    /\ n # node => r[n] = m[n]
<1> DEFINE r == SetNext(m, node, to)
<1>1. DOMAIN m \subseteq Nodes /\ m \in [DOMAIN m -> Cells(V)]
  BY DEF Heap
<1>2. m[node] \in Cells(V)
  BY <1>1
<1>3. [m[node] EXCEPT !.next = to] \in Cells(V)
  BY <1>2 DEF Cells
<1>4. r = [m EXCEPT ![node] = [m[node] EXCEPT !.next = to]]
  BY DEF SetNext
<1>5. DOMAIN r = DOMAIN m /\ r \in [DOMAIN m -> Cells(V)]
  BY <1>1, <1>3, <1>4
<1>6. \A n \in DOMAIN m : r[n] = IF n = node THEN [m[node] EXCEPT !.next = to] ELSE m[n]
  BY <1>1, <1>4
<1> HIDE DEF r
<1>7. r \in Heap(V)
  BY <1>1, <1>5, HeapIs
<1>8. \A n \in DOMAIN m :
        /\ r[n].next = IF n = node THEN to ELSE m[n].next
        /\ r[n].prev = m[n].prev /\ r[n].value = m[n].value
        /\ n # node => r[n] = m[n]
  BY <1>2, <1>6 DEF Cells
<1> QED
  BY <1>5, <1>7, <1>8 DEF r

LEMMA SetPrevIs ==
    ASSUME NEW V, NEW m \in Heap(V), NEW node \in DOMAIN m, NEW to \in Pointers
    PROVE  LET r == SetPrev(m, node, to)
           IN  /\ r \in Heap(V) /\ DOMAIN r = DOMAIN m
               /\ \A n \in DOMAIN m :
                    /\ r[n].prev = IF n = node THEN to ELSE m[n].prev
                    /\ r[n].next = m[n].next /\ r[n].value = m[n].value
                    /\ n # node => r[n] = m[n]
<1> DEFINE r == SetPrev(m, node, to)
<1>1. DOMAIN m \subseteq Nodes /\ m \in [DOMAIN m -> Cells(V)]
  BY DEF Heap
<1>2. m[node] \in Cells(V)
  BY <1>1
<1>3. [m[node] EXCEPT !.prev = to] \in Cells(V)
  BY <1>2 DEF Cells
<1>4. r = [m EXCEPT ![node] = [m[node] EXCEPT !.prev = to]]
  BY DEF SetPrev
<1>5. DOMAIN r = DOMAIN m /\ r \in [DOMAIN m -> Cells(V)]
  BY <1>1, <1>3, <1>4
<1>6. \A n \in DOMAIN m : r[n] = IF n = node THEN [m[node] EXCEPT !.prev = to] ELSE m[n]
  BY <1>1, <1>4
<1> HIDE DEF r
<1>7. r \in Heap(V)
  BY <1>1, <1>5, HeapIs
<1>8. \A n \in DOMAIN m :
        /\ r[n].prev = IF n = node THEN to ELSE m[n].prev
        /\ r[n].next = m[n].next /\ r[n].value = m[n].value
        /\ n # node => r[n] = m[n]
  BY <1>2, <1>6 DEF Cells
<1> QED
  BY <1>5, <1>7, <1>8 DEF r

------------------------------------------------------------------------------
(* DL_APPEND and DL_DELETE *)

\* c is the sequence of the nodes of the list l.
Linked(l, c) ==
    /\ c \in Seq(DOMAIN l.nodes)
    /\ \A i, j \in 1..Len(c) : c[i] = c[j] => i = j
    /\ l.head = IF Len(c) = 0 THEN NULL ELSE c[1]
    /\ \A i \in 1..Len(c) :
        /\ l.nodes[c[i]].next = IF i = Len(c) THEN NULL ELSE c[i + 1]
        /\ l.nodes[c[i]].prev = IF i = 1 THEN c[Len(c)] ELSE c[i - 1]

\* Of the memory m, at most pointers of the nodes in S have changed in r.
Touched(m, r, S) ==
    /\ DOMAIN r = DOMAIN m
    /\ \A n \in DOMAIN m :
        r[n].value = m[n].value /\ (n \notin S => r[n] = m[n])

LEMMA LinkedFacts ==
    ASSUME NEW V, NEW l \in Lists(V), NEW c, Linked(l, c)
    PROVE  /\ Len(c) \in Nat /\ DOMAIN c = 1..Len(c)
           /\ \A i \in 1..Len(c) : c[i] \in DOMAIN l.nodes /\ c[i] \in Nodes
           /\ l.head = NULL <=> Len(c) = 0
<1>1. c \in Seq(DOMAIN l.nodes) /\ DOMAIN l.nodes \subseteq Nodes
  BY DEF Linked, Lists, Heap
<1>2. Len(c) \in Nat /\ DOMAIN c = 1..Len(c)
  BY <1>1, LenProperties
<1>3. \A i \in 1..Len(c) : c[i] \in DOMAIN l.nodes /\ c[i] \in Nodes
  BY <1>1, <1>2, ElementOfSeq
<1>4. Len(c) # 0 => 1 \in 1..Len(c)
  BY <1>2
<1>5. l.head = IF Len(c) = 0 THEN NULL ELSE c[1]
  BY DEF Linked
<1> QED
  BY <1>2, <1>3, <1>4, <1>5, NodesAssumption

\* The four assignments of DL_APPEND to the list that begins at h and ends at
\* old, and where its pointers lead then.
Appended(m, add, old, h) ==
    SetNext(SetPrev(SetNext(SetPrev(m, add, old), old, add), h, add), add, NULL)

AppendedPointers(m, r, add, old, h) ==
    /\ DOMAIN r = DOMAIN m
    /\ \A x \in DOMAIN m :
        /\ r[x].next = IF x = add THEN NULL
                       ELSE IF x = old THEN add ELSE m[x].next
        /\ r[x].prev = IF x = h THEN add
                       ELSE IF x = add THEN old ELSE m[x].prev
        /\ r[x].value = m[x].value
        /\ x \notin {add, old, h} => r[x] = m[x]

LEMMA AppendedIs ==
    ASSUME NEW V, NEW m \in Heap(V), NEW add \in DOMAIN m, NEW old \in DOMAIN m,
           NEW h \in DOMAIN m
    PROVE  /\ Appended(m, add, old, h) \in Heap(V)
           /\ AppendedPointers(m, Appended(m, add, old, h), add, old, h)
<1> DEFINE m1 == SetPrev(m, add, old)
           m2 == SetNext(m1, old, add)
           m3 == SetPrev(m2, h, add)
           m4 == SetNext(m3, add, NULL)
<1>1. add \in Pointers /\ old \in Pointers /\ NULL \in Pointers
  BY DEF Heap, Pointers
<1>2. /\ m1 \in Heap(V) /\ DOMAIN m1 = DOMAIN m
      /\ \A x \in DOMAIN m :
            /\ m1[x].prev = IF x = add THEN old ELSE m[x].prev
            /\ m1[x].next = m[x].next /\ m1[x].value = m[x].value
            /\ x # add => m1[x] = m[x]
  BY <1>1, SetPrevIs
<1> HIDE DEF m1
<1>3. /\ m2 \in Heap(V) /\ DOMAIN m2 = DOMAIN m1
      /\ \A x \in DOMAIN m1 :
            /\ m2[x].next = IF x = old THEN add ELSE m1[x].next
            /\ m2[x].prev = m1[x].prev /\ m2[x].value = m1[x].value
            /\ x # old => m2[x] = m1[x]
  BY <1>1, <1>2, SetNextIs
<1> HIDE DEF m2
<1>4. /\ m3 \in Heap(V) /\ DOMAIN m3 = DOMAIN m2
      /\ \A x \in DOMAIN m2 :
            /\ m3[x].prev = IF x = h THEN add ELSE m2[x].prev
            /\ m3[x].next = m2[x].next /\ m3[x].value = m2[x].value
            /\ x # h => m3[x] = m2[x]
  BY <1>1, <1>2, <1>3, SetPrevIs
<1> HIDE DEF m3
<1>5. /\ m4 \in Heap(V) /\ DOMAIN m4 = DOMAIN m3
      /\ \A x \in DOMAIN m3 :
            /\ m4[x].next = IF x = add THEN NULL ELSE m3[x].next
            /\ m4[x].prev = m3[x].prev /\ m4[x].value = m3[x].value
            /\ x # add => m4[x] = m3[x]
  <2>1. m3 \in Heap(V) /\ add \in DOMAIN m3 /\ NULL \in Pointers
    BY <1>1, <1>2, <1>3, <1>4
  <2> QED
    BY <2>1, SetNextIs
<1> HIDE DEF m4
<1>6. m4 \in Heap(V) /\ AppendedPointers(m, m4, add, old, h)
  BY <1>2, <1>3, <1>4, <1>5 DEF AppendedPointers
<1>7. m4 = Appended(m, add, old, h)
  BY DEF Appended, m4, m3, m2, m1
<1> QED
  BY <1>6, <1>7

\* What DL_APPEND makes of a list that is not empty.
LEMMA DL_APPENDPointers ==
    ASSUME NEW V, NEW l \in Lists(V), l.head \in DOMAIN l.nodes,
           NEW add \in DOMAIN l.nodes, NEW old, old = l.nodes[l.head].prev,
           old \in DOMAIN l.nodes, NEW r, r = DL_APPEND(l, add)
    PROVE  /\ r \in Lists(V) /\ r.head = l.head
           /\ AppendedPointers(l.nodes, r.nodes, add, old, l.head)
<1> DEFINE m == Appended(l.nodes, add, old, l.head)
<1>1. /\ l \in [head : Pointers, nodes : Heap(V)] /\ l.nodes \in Heap(V)
      /\ l.head # NULL
  BY NodesAssumption DEF Lists, Heap
<1>2. r = [l EXCEPT !.nodes = m]
  <2> DEFINE r1 == [l EXCEPT !.nodes[add].prev = old]
             r2 == [r1 EXCEPT !.nodes[old].next = add]
             r3 == [r2 EXCEPT !.nodes[l.head].prev = add]
             r4 == [r3 EXCEPT !.nodes[add].next = NULL]
             m1 == SetPrev(l.nodes, add, old)
             m2 == SetNext(m1, old, add)
             m3 == SetPrev(m2, l.head, add)
             m4 == SetNext(m3, add, NULL)
  <2>1. r = r4
    BY <1>1 DEF DL_APPEND
  <2>2. l = [head |-> l.head, nodes |-> l.nodes]
    BY <1>1
  <2>3. m = m4
    BY DEF Appended
  <2> HIDE DEF m
  <2>4. r1 = [head |-> l.head, nodes |-> m1]
    BY <2>2 DEF SetPrev
  <2> HIDE DEF r1, m1
  <2>5. r2 = [head |-> l.head, nodes |-> m2]
    BY <2>4 DEF SetNext
  <2> HIDE DEF r2, m2
  <2>6. r3 = [head |-> l.head, nodes |-> m3]
    BY <2>5 DEF SetPrev
  <2> HIDE DEF r3, m3
  <2>7. r4 = [head |-> l.head, nodes |-> m4]
    BY <2>6 DEF SetNext
  <2> HIDE DEF r4, m4
  <2>8. r = [head |-> l.head, nodes |-> m]
    BY <2>1, <2>3, <2>7
  <2> QED
    BY <2>2, <2>8
<1>3. m \in Heap(V) /\ AppendedPointers(l.nodes, m, add, old, l.head)
  BY <1>1, AppendedIs
<1> HIDE DEF m
<1>4. r \in Lists(V) /\ r.head = l.head /\ r.nodes = m
  BY <1>1, <1>2, <1>3 DEF Lists
<1> QED
  BY <1>3, <1>4

LEMMA DL_APPENDIs ==
    ASSUME NEW V, NEW l \in Lists(V), NEW c, Linked(l, c),
           NEW add \in DOMAIN l.nodes, add \notin ToSet(c),
           NEW r, r = DL_APPEND(l, add)
    PROVE  /\ r \in Lists(V) /\ Linked(r, Append(c, add))
           /\ Touched(l.nodes, r.nodes, ToSet(c) \cup {add})
<1> DEFINE n == Len(c)
           d == Append(c, add)
<1>1. /\ n \in Nat /\ DOMAIN c = 1..n
      /\ \A i \in 1..n : c[i] \in DOMAIN l.nodes /\ c[i] \in Nodes
      /\ l.head = NULL <=> n = 0
  BY LinkedFacts
<1>2. /\ c \in Seq(DOMAIN l.nodes)
      /\ \A i, j \in 1..n : c[i] = c[j] => i = j
      /\ l.head = IF n = 0 THEN NULL ELSE c[1]
      /\ \A i \in 1..n :
            /\ l.nodes[c[i]].next = IF i = n THEN NULL ELSE c[i + 1]
            /\ l.nodes[c[i]].prev = IF i = 1 THEN c[n] ELSE c[i - 1]
  BY DEF Linked
<1>3. /\ d \in Seq(DOMAIN l.nodes) /\ Len(d) = n + 1
      /\ d[n + 1] = add /\ \A i \in 1..n : d[i] = c[i]
  BY <1>2, AppendProperties
<1>4. \A i \in 1..n : c[i] # add /\ c[i] \in ToSet(c)
  BY <1>1 DEF ToSet
<1>5. \A i, j \in 1..(n + 1) : d[i] = d[j] => i = j
  <2> SUFFICES ASSUME NEW i \in 1..(n + 1), NEW j \in 1..(n + 1), d[i] = d[j]
               PROVE  i = j
    OBVIOUS
  <2> HIDE DEF d, n
  <2>1. i \in 1..n \/ i = n + 1
    BY <1>1
  <2>2. j \in 1..n \/ j = n + 1
    BY <1>1
  <2> QED
    BY <1>2, <1>3, <1>4, <2>1, <2>2
<1> HIDE DEF d
<1>6. CASE n = 0
  <2> DEFINE m == l.nodes
             m1 == SetPrev(m, add, add)
             m2 == SetNext(m1, add, NULL)
  <2>1. /\ l \in [head : Pointers, nodes : Heap(V)] /\ m \in Heap(V)
        /\ DOMAIN m \subseteq Nodes /\ {add, NULL} \subseteq Pointers
    BY DEF Lists, Heap, Pointers
  <2>2. l.head = NULL
    BY <1>1, <1>6
  <2>3. r = [l EXCEPT !.head = add, !.nodes = m2]
    BY <2>1, <2>2 DEF DL_APPEND, SetNext, SetPrev
  <2> HIDE DEF m
  <2>4. /\ m1 \in Heap(V) /\ DOMAIN m1 = DOMAIN m
        /\ \A x \in DOMAIN m :
            /\ m1[x].prev = IF x = add THEN add ELSE m[x].prev
            /\ m1[x].next = m[x].next /\ m1[x].value = m[x].value
            /\ x # add => m1[x] = m[x]
    BY <2>1, SetPrevIs DEF m
  <2> HIDE DEF m1
  <2>5. /\ m2 \in Heap(V) /\ DOMAIN m2 = DOMAIN m1
        /\ \A x \in DOMAIN m1 :
            /\ m2[x].next = IF x = add THEN NULL ELSE m1[x].next
            /\ m2[x].prev = m1[x].prev /\ m2[x].value = m1[x].value
            /\ x # add => m2[x] = m1[x]
    BY <2>1, <2>4, SetNextIs DEF m
  <2> HIDE DEF m2
  <2>6. r \in Lists(V) /\ r.head = add /\ r.nodes = m2
    BY <2>1, <2>3, <2>5 DEF Lists
  <2>7. Touched(l.nodes, r.nodes, ToSet(c) \cup {add})
    BY <2>4, <2>5, <2>6 DEF Touched, m
  <2>8. r.nodes[add].next = NULL /\ r.nodes[add].prev = add /\ DOMAIN r.nodes = DOMAIN l.nodes
    BY <2>4, <2>5, <2>6 DEF m
  <2>9. Len(d) = 1 /\ d[1] = add
    BY <1>3, <1>6
  <2>10. Linked(r, d)
    BY <1>3, <1>5, <1>6, <2>6, <2>8, <2>9 DEF Linked
  <2> QED
    BY <2>6, <2>7, <2>10 DEF d
<1>7. CASE n # 0
  <2>1. /\ 1 \in 1..n /\ n \in 1..n /\ l.head = c[1] /\ l.nodes[c[1]].prev = c[n]
    <3> HIDE DEF n
    <3>1. 1 \in 1..n /\ n \in 1..n
      BY <1>1, <1>7
    <3>2. l.head = c[1]
      BY <1>2, <1>7
    <3> QED
      BY <1>2, <3>1, <3>2
  <2>2. /\ r \in Lists(V) /\ r.head = c[1]
        /\ AppendedPointers(l.nodes, r.nodes, add, c[n], c[1])
    <3>1. l.head \in DOMAIN l.nodes /\ c[n] \in DOMAIN l.nodes /\ c[n] = l.nodes[l.head].prev
      BY <1>1, <2>1
    <3> HIDE DEF n
    <3> QED
      BY <2>1, <3>1, DL_APPENDPointers
  <2>3. Touched(l.nodes, r.nodes, ToSet(c) \cup {add})
    BY <1>4, <2>1, <2>2 DEF Touched, AppendedPointers
  <2> HIDE DEF n
  <2>4. ASSUME NEW i \in 1..(n + 1)
        PROVE  /\ r.nodes[d[i]].next = IF i = n + 1 THEN NULL ELSE d[i + 1]
               /\ r.nodes[d[i]].prev = IF i = 1 THEN d[n + 1] ELSE d[i - 1]
    <3>1. CASE i = n + 1
      <4>1. d[i] = add /\ i # 1 /\ i - 1 = n /\ d[i - 1] = c[n]
        BY <1>1, <1>3, <1>7, <2>1, <3>1
      <4> QED
        BY <1>4, <2>1, <2>2, <3>1, <4>1 DEF AppendedPointers
    <3>2. CASE i \in 1..n
      <4>1. d[i] = c[i] /\ c[i] # add /\ c[i] \in DOMAIN l.nodes /\ i # n + 1
        BY <1>1, <1>3, <1>4, <3>2
      <4>2. r.nodes[c[i]].next = d[i + 1]
        <5>1. CASE i = n
          BY <1>3, <2>2, <4>1, <5>1 DEF AppendedPointers
        <5>2. CASE i # n
          <6>1. i + 1 \in 1..n /\ d[i + 1] = c[i + 1] /\ c[i] # c[n]
            BY <1>1, <1>2, <1>3, <2>1, <3>2, <5>2
          <6> QED
            BY <1>2, <2>2, <3>2, <4>1, <5>2, <6>1 DEF AppendedPointers
        <5> QED
          BY <5>1, <5>2
      <4>3. r.nodes[c[i]].prev = IF i = 1 THEN d[n + 1] ELSE d[i - 1]
        <5>1. CASE i = 1
          BY <1>3, <2>2, <4>1, <5>1 DEF AppendedPointers
        <5>2. CASE i # 1
          <6>1. i - 1 \in 1..n /\ d[i - 1] = c[i - 1] /\ c[i] # c[1]
            BY <1>1, <1>2, <1>3, <2>1, <3>2, <5>2
          <6> QED
            BY <1>2, <2>2, <3>2, <4>1, <5>2, <6>1, SMTT(30) DEF AppendedPointers
        <5> QED
          BY <5>1, <5>2
      <4> QED
        BY <4>1, <4>2, <4>3
    <3> QED
      BY <1>1, <3>1, <3>2
  <2>5. n + 1 # 0 /\ d[1] = c[1]
    BY <1>1, <1>3, <2>1
  <2>6. Linked(r, d)
    BY <1>3, <1>5, <2>2, <2>4, <2>5 DEF Linked, AppendedPointers
  <2> QED
    BY <2>2, <2>3, <2>6 DEF d
<1> QED
  BY <1>6, <1>7

\* The two assignments with which DL_DELETE closes the gap that a node leaves
\* behind p.
Closed(m, p, to, q) == SetPrev(SetNext(m, p, to), q, p)

ClosedPointers(m, r, p, to, q) ==
    /\ DOMAIN r = DOMAIN m
    /\ \A x \in DOMAIN m :
        /\ r[x].next = IF x = p THEN to ELSE m[x].next
        /\ r[x].prev = IF x = q THEN p ELSE m[x].prev
        /\ r[x].value = m[x].value
        /\ x \notin {p, q} => r[x] = m[x]

LEMMA ClosedIs ==
    ASSUME NEW V, NEW m \in Heap(V), NEW p \in DOMAIN m, NEW q \in DOMAIN m,
           NEW to \in Pointers
    PROVE  /\ Closed(m, p, to, q) \in Heap(V)
           /\ ClosedPointers(m, Closed(m, p, to, q), p, to, q)
<1> DEFINE m1 == SetNext(m, p, to)
           m2 == SetPrev(m1, q, p)
<1>1. p \in Pointers
  BY DEF Heap, Pointers
<1>2. /\ m1 \in Heap(V) /\ DOMAIN m1 = DOMAIN m
      /\ \A x \in DOMAIN m :
            /\ m1[x].next = IF x = p THEN to ELSE m[x].next
            /\ m1[x].prev = m[x].prev /\ m1[x].value = m[x].value
            /\ x # p => m1[x] = m[x]
  BY SetNextIs
<1> HIDE DEF m1
<1>3. /\ m2 \in Heap(V) /\ DOMAIN m2 = DOMAIN m1
      /\ \A x \in DOMAIN m1 :
            /\ m2[x].prev = IF x = q THEN p ELSE m1[x].prev
            /\ m2[x].next = m1[x].next /\ m2[x].value = m1[x].value
            /\ x # q => m2[x] = m1[x]
  BY <1>1, <1>2, SetPrevIs
<1> HIDE DEF m2
<1>4. m2 \in Heap(V) /\ ClosedPointers(m, m2, p, to, q)
  BY <1>2, <1>3 DEF ClosedPointers
<1>5. m2 = Closed(m, p, to, q)
  BY DEF Closed, m2, m1
<1> QED
  BY <1>4, <1>5

LEMMA RemovedIs ==
    ASSUME NEW V, NEW l \in Lists(V), NEW c, Linked(l, c), NEW k \in 1..Len(c)
    PROVE  LET d == RemoveAt(c, k)
           IN  /\ d \in Seq(DOMAIN l.nodes) /\ Len(d) = Len(c) - 1
               /\ \A j \in 1..Len(d) : d[j] = IF j < k THEN c[j] ELSE c[j + 1]
               /\ \A i, j \in 1..Len(d) : d[i] = d[j] => i = j
               /\ \A j \in 1..Len(d) : d[j] # c[k]
               /\ ToSet(d) = ToSet(c) \ {c[k]}
<1> DEFINE d == RemoveAt(c, k)
           n == Len(c)
<1>1. /\ n \in Nat /\ DOMAIN c = 1..n /\ c \in Seq(DOMAIN l.nodes)
      /\ \A i, j \in 1..n : c[i] = c[j] => i = j
  BY LinkedFacts DEF Linked
<1>2. /\ d \in Seq(DOMAIN l.nodes) /\ Len(d) = n - 1
      /\ \A j \in 1..(n - 1) : d[j] = IF j < k THEN c[j] ELSE c[j + 1]
  BY <1>1, RemoveAtProperties
<1>3. DOMAIN d = 1..(n - 1)
  BY <1>2, LenProperties
<1> DEFINE from == [j \in 1..(n - 1) |-> IF j < k THEN j ELSE j + 1]
<1> HIDE DEF d, n
<1>4. /\ \A j \in 1..(n - 1) : from[j] \in 1..n /\ from[j] # k /\ d[j] = c[from[j]]
      /\ \A i, j \in 1..(n - 1) : from[i] = from[j] => i = j
  BY <1>1, <1>2 DEF n
<1>5. \A i \in 1..n : i # k => \E j \in 1..(n - 1) : from[j] = i
  <2> SUFFICES ASSUME NEW i \in 1..n, i # k PROVE \E j \in 1..(n - 1) : from[j] = i
    OBVIOUS
  <2>1. k \in 1..n
    BY DEF n
  <2>2. CASE i < k
    <3>1. i \in 1..(n - 1) /\ from[i] = i
      BY <1>1, <2>1, <2>2
    <3> QED
      BY <3>1
  <2>3. CASE i > k
    <3>1. i - 1 \in 1..(n - 1) /\ from[i - 1] = i
      BY <1>1, <2>1, <2>3
    <3> QED
      BY <3>1
  <2> QED
    BY <1>1, <2>1, <2>2, <2>3
<1> HIDE DEF from
<1>6. k \in 1..n
  BY DEF n
<1>7. /\ \A i, j \in 1..(n - 1) : d[i] = d[j] => i = j
      /\ \A j \in 1..(n - 1) : d[j] # c[k]
  BY <1>1, <1>4, <1>6
<1>8. ToSet(d) = ToSet(c) \ {c[k]}
  <2>1. ToSet(d) = {d[j] : j \in 1..(n - 1)} /\ ToSet(c) = {c[i] : i \in 1..n}
    BY <1>1, <1>3 DEF ToSet
  <2>2. ASSUME NEW j \in 1..(n - 1) PROVE d[j] \in ToSet(c) \ {c[k]}
    BY <1>4, <1>7, <2>1
  <2>3. ASSUME NEW i \in 1..n, c[i] # c[k] PROVE c[i] \in ToSet(d)
    <3>1. PICK j \in 1..(n - 1) : from[j] = i
      BY <1>5, <2>3
    <3> QED
      BY <1>4, <2>1, <3>1
  <2> QED
    BY <2>1, <2>2, <2>3
<1> QED
  BY <1>2, <1>7, <1>8 DEF d, n

LEMMA DL_DELETEIs ==
    ASSUME NEW V, NEW l \in Lists(V), NEW c, Linked(l, c), NEW k \in 1..Len(c),
           NEW r, r = DL_DELETE(l, c[k])
    PROVE  /\ r \in Lists(V) /\ Linked(r, RemoveAt(c, k))
           /\ Touched(l.nodes, r.nodes, ToSet(c))
<1> DEFINE n == Len(c)
           d == RemoveAt(c, k)
           del == c[k]
           m == l.nodes
<1>1. /\ n \in Nat /\ k \in 1..n /\ DOMAIN c = 1..n
      /\ \A i \in 1..n : c[i] \in DOMAIN m /\ c[i] \in Nodes /\ c[i] # NULL
  BY LinkedFacts, NodesAssumption
<1>2. /\ \A i, j \in 1..n : c[i] = c[j] => i = j
      /\ l.head = c[1]
      /\ \A i \in 1..n :
            /\ m[c[i]].next = IF i = n THEN NULL ELSE c[i + 1]
            /\ m[c[i]].prev = IF i = 1 THEN c[n] ELSE c[i - 1]
  <2>1. n # 0
    BY <1>1
  <2> QED
    BY <2>1 DEF Linked
<1>3. /\ d \in Seq(DOMAIN m) /\ Len(d) = n - 1
      /\ \A j \in 1..(n - 1) : d[j] = IF j < k THEN c[j] ELSE c[j + 1]
      /\ \A i, j \in 1..(n - 1) : d[i] = d[j] => i = j
  <2>1. /\ d \in Seq(DOMAIN l.nodes) /\ Len(d) = Len(c) - 1
        /\ \A j \in 1..Len(d) : d[j] = IF j < k THEN c[j] ELSE c[j + 1]
        /\ \A i, j \in 1..Len(d) : d[i] = d[j] => i = j
    BY RemovedIs
  <2> HIDE DEF d
  <2> QED
    BY <2>1
<1>4. /\ l \in [head : Pointers, nodes : Heap(V)] /\ m \in Heap(V)
      /\ \A i \in 1..n : c[i] \in Pointers /\ c[i] \in ToSet(c)
      /\ NULL \in Pointers
  BY <1>1 DEF Lists, Heap, Pointers, ToSet
<1> HIDE DEF n, d
<1>5. CASE n = 1
  <2>1. k = 1 /\ m[del].prev = del
    BY <1>1, <1>2, <1>5
  <2>2. r = [l EXCEPT !.head = NULL]
    BY <2>1 DEF DL_DELETE
  <2>3. r \in Lists(V) /\ r.head = NULL /\ r.nodes = l.nodes
    BY <1>4, <2>2 DEF Lists
  <2>4. Len(d) = 0
    BY <1>3, <1>5
  <2>5. Linked(r, d)
    BY <1>3, <1>5, <2>3, <2>4 DEF Linked
  <2> QED
    BY <2>3, <2>5 DEF Touched, d
<1>6. CASE n # 1 /\ k = 1
  <2>1. 1 \in 1..n /\ 2 \in 1..n /\ n \in 1..n /\ c[1] # c[n]
    BY <1>1, <1>2, <1>6
  <2>2. m[del].prev = c[n] /\ m[del].next = c[2] /\ del = c[1]
    BY <1>1, <1>2, <1>6, <2>1
  <2> DEFINE mr == SetPrev(m, c[2], c[n])
  <2>3. r = [l EXCEPT !.nodes = mr, !.head = c[2]]
    <3>1. c[n] # del /\ del = l.head
      BY <1>2, <2>1, <2>2
    <3> HIDE DEF del
    <3> QED
      BY <1>4, <2>2, <3>1 DEF DL_DELETE, SetPrev, del
  <2>4. /\ mr \in Heap(V) /\ DOMAIN mr = DOMAIN m
        /\ \A x \in DOMAIN m :
            /\ mr[x].prev = IF x = c[2] THEN c[n] ELSE m[x].prev
            /\ mr[x].next = m[x].next /\ mr[x].value = m[x].value
            /\ x # c[2] => mr[x] = m[x]
    BY <1>1, <1>4, <2>1, SetPrevIs
  <2> HIDE DEF mr
  <2>5. r \in Lists(V) /\ r.head = c[2] /\ r.nodes = mr
    BY <1>4, <2>1, <2>3, <2>4 DEF Lists
  <2>6. Touched(l.nodes, r.nodes, ToSet(c))
    BY <1>4, <2>1, <2>4, <2>5 DEF Touched
  <2>7. ASSUME NEW j \in 1..(n - 1)
        PROVE  /\ d[j] = c[j + 1] /\ j + 1 \in 1..n /\ c[j + 1] \in DOMAIN m
               /\ mr[d[j]].next = IF j = n - 1 THEN NULL ELSE d[j + 1]
               /\ mr[d[j]].prev = IF j = 1 THEN d[n - 1] ELSE d[j - 1]
    <3>1. d[j] = c[j + 1] /\ j + 1 \in 1..n /\ c[j + 1] \in DOMAIN m
      BY <1>1, <1>3, <1>6
    <3>2. m[c[j + 1]].next = IF j = n - 1 THEN NULL ELSE c[j + 2]
      BY <1>1, <1>2, <3>1
    <3>3. j # n - 1 => j + 1 \in 1..(n - 1) /\ d[j + 1] = c[j + 2]
      BY <1>1, <1>3, <1>6
    <3>4. mr[d[j]].next = IF j = n - 1 THEN NULL ELSE d[j + 1]
      BY <2>4, <3>1, <3>2, <3>3
    <3>5. CASE j = 1
      <4>1. n - 1 \in 1..(n - 1) /\ d[n - 1] = c[n] /\ d[j] = c[2]
        BY <1>1, <1>3, <1>6, <3>1, <3>5
      <4> QED
        BY <2>4, <3>1, <3>4, <3>5, <4>1
    <3>6. CASE j # 1
      <4>1. j - 1 \in 1..(n - 1) /\ d[j - 1] = c[j] /\ j \in 1..n /\ (j + 1) - 1 = j
        BY <1>1, <1>3, <1>6, <3>6
      <4>2. c[j + 1] # c[2] /\ m[c[j + 1]].prev = c[j]
        BY <1>1, <1>2, <2>1, <3>1, <3>6, <4>1
      <4> QED
        BY <2>4, <3>1, <3>4, <3>6, <4>1, <4>2
    <3> QED
      BY <3>5, <3>6
  <2>8. Len(d) # 0 /\ d[1] = c[2]
    BY <1>1, <1>3, <1>6
  <2>9. Linked(r, d)
    BY <1>3, <2>4, <2>5, <2>7, <2>8 DEF Linked
  <2> QED
    BY <2>5, <2>6, <2>9 DEF d
<1>7. CASE k # 1
  <2> DEFINE p  == c[k - 1]
             to == IF k = n THEN NULL ELSE c[k + 1]
             q  == IF k = n THEN c[1] ELSE c[k + 1]
             mr == Closed(m, p, to, q)
  <2>1. /\ 1 \in 1..n /\ k - 1 \in 1..n /\ c[k - 1] # c[k] /\ c[1] # c[k]
        /\ k # n => k + 1 \in 1..n
    BY <1>1, <1>2, <1>7
  <2>2. /\ m[del].prev = p /\ m[del].next = to /\ p # del /\ del # l.head
        /\ to = NULL <=> k = n
    BY <1>1, <1>2, <1>7, <2>1
  <2>3. /\ p \in DOMAIN m /\ q \in DOMAIN m /\ to \in Pointers
        /\ p \in ToSet(c) /\ q \in ToSet(c)
    BY <1>1, <1>4, <2>1
  <2>4. r = [l EXCEPT !.nodes = mr]
    <3>1. CASE k = n
      <4>1. to = NULL /\ q = l.head
        BY <1>2, <3>1
      <4> HIDE DEF del, p, to, q
      <4> QED
        BY <1>4, <2>2, <4>1 DEF DL_DELETE, Closed, SetPrev, SetNext, del
    <3>2. CASE k # n
      <4>1. to # NULL /\ q = to
        BY <2>2, <3>2
      <4> HIDE DEF del, p, to, q
      <4> QED
        BY <1>4, <2>2, <4>1 DEF DL_DELETE, Closed, SetPrev, SetNext, del
    <3> QED
      BY <3>1, <3>2
  <2>5. mr \in Heap(V) /\ ClosedPointers(m, mr, p, to, q)
    <3> HIDE DEF p, to, q
    <3> QED
      BY <1>4, <2>3, ClosedIs
  <2> HIDE DEF mr
  <2>6. r \in Lists(V) /\ r.head = c[1] /\ r.nodes = mr
    BY <1>2, <1>4, <2>4, <2>5 DEF Lists
  <2>7. Touched(l.nodes, r.nodes, ToSet(c))
    <3> HIDE DEF p, to, q
    <3> QED
      BY <2>3, <2>5, <2>6 DEF Touched, ClosedPointers
  <2>8. ASSUME NEW j \in 1..(n - 1)
        PROVE  /\ mr[d[j]].next = IF j = n - 1 THEN NULL ELSE d[j + 1]
               /\ mr[d[j]].prev = IF j = 1 THEN d[n - 1] ELSE d[j - 1]
    <3>1. CASE j < k
      <4>1. d[j] = c[j] /\ j \in 1..n /\ c[j] \in DOMAIN m /\ j # n
        BY <1>1, <1>3, <3>1
      <4>2. mr[c[j]].next = IF j = n - 1 THEN NULL ELSE d[j + 1]
        <5>1. CASE j = k - 1
          <6>1. mr[c[j]].next = to
            BY <2>5, <4>1, <5>1 DEF ClosedPointers
          <6>2. k # n => j + 1 \in 1..(n - 1) /\ d[j + 1] = c[k + 1]
            BY <1>1, <1>3, <2>1, <5>1
          <6> QED
            BY <1>1, <5>1, <6>1, <6>2
        <5>2. CASE j # k - 1
          <6>1. j + 1 \in 1..(n - 1) /\ j + 1 < k /\ j # n - 1
            BY <1>1, <3>1, <5>2
          <6>2. d[j + 1] = c[j + 1] /\ c[j] # p
            BY <1>1, <1>2, <1>3, <2>1, <4>1, <5>2, <6>1
          <6>3. m[c[j]].next = c[j + 1]
            BY <1>2, <4>1
          <6> QED
            BY <2>5, <4>1, <6>1, <6>2, <6>3 DEF ClosedPointers
        <5> QED
          BY <5>1, <5>2
      <4>3. mr[c[j]].prev = IF j = 1 THEN d[n - 1] ELSE d[j - 1]
        <5>1. CASE j = 1 /\ k = n
          <6>1. d[n - 1] = p /\ c[j] = q
            BY <1>1, <1>3, <5>1
          <6> QED
            BY <2>5, <4>1, <5>1, <6>1 DEF ClosedPointers
        <5>2. CASE j = 1 /\ k # n
          <6>1. n - 1 \in 1..(n - 1) /\ ~(n - 1 < k) /\ (n - 1) + 1 = n
            BY <1>1, <5>2
          <6>2. d[n - 1] = c[n]
            BY <1>3, <6>1
          <6>3. c[j] # q
            BY <1>1, <1>2, <2>1, <4>1, <5>2
          <6> QED
            BY <1>2, <2>5, <4>1, <5>2, <6>2, <6>3 DEF ClosedPointers
        <5>3. CASE j # 1
          <6>1. j - 1 \in 1..(n - 1) /\ j - 1 < k
            BY <1>1, <3>1, <5>3
          <6>2. d[j - 1] = c[j - 1]
            BY <1>3, <6>1
          <6>3. k # n => j # k + 1
            BY <1>1, <3>1
          <6>4. c[j] # q
            BY <1>1, <1>2, <2>1, <4>1, <5>3, <6>3
          <6> QED
            BY <1>2, <2>5, <4>1, <5>3, <6>2, <6>4 DEF ClosedPointers
        <5> QED
          BY <5>1, <5>2, <5>3
      <4> QED
        BY <4>1, <4>2, <4>3
    <3>2. CASE ~(j < k)
      <4>1. d[j] = c[j + 1] /\ j + 1 \in 1..n /\ c[j + 1] \in DOMAIN m /\ k # n /\ j # 1
        BY <1>1, <1>3, <1>7, <3>2
      <4>2. mr[c[j + 1]].next = IF j = n - 1 THEN NULL ELSE d[j + 1]
        <5>1. c[j + 1] # p
          BY <1>1, <1>2, <2>1, <3>2, <4>1
        <5>2. m[c[j + 1]].next = IF j = n - 1 THEN NULL ELSE c[j + 2]
          BY <1>1, <1>2, <4>1
        <5>3. j # n - 1 => j + 1 \in 1..(n - 1) /\ ~(j + 1 < k) /\ (j + 1) + 1 = j + 2
          BY <1>1, <3>2
        <5>4. j # n - 1 => d[j + 1] = c[j + 2]
          BY <1>3, <5>3
        <5> QED
          BY <2>5, <4>1, <5>1, <5>2, <5>4 DEF ClosedPointers
      <4>3. mr[c[j + 1]].prev = d[j - 1]
        <5>1. CASE j = k
          <6>1. c[j + 1] = q /\ j - 1 \in 1..(n - 1) /\ d[j - 1] = p
            BY <1>1, <1>3, <1>7, <4>1, <5>1
          <6> QED
            BY <2>5, <4>1, <6>1 DEF ClosedPointers
        <5>2. CASE j # k
          <6>1. j - 1 \in 1..(n - 1) /\ ~(j - 1 < k) /\ (j - 1) + 1 = j /\ (j + 1) - 1 = j
            BY <1>1, <3>2, <4>1, <5>2
          <6>2. d[j - 1] = c[j]
            BY <1>3, <6>1
          <6>4. c[j + 1] # q
            <7>1. j + 1 # k + 1
              BY <1>1, <5>2
            <7> QED
              BY <1>2, <2>1, <4>1, <7>1
          <6>3. m[c[j + 1]].prev = c[j]
            BY <1>1, <1>2, <4>1, <6>1
          <6> QED
            BY <2>5, <4>1, <6>2, <6>3, <6>4 DEF ClosedPointers
        <5> QED
          BY <5>1, <5>2
      <4> QED
        BY <4>1, <4>2, <4>3
    <3> QED
      BY <1>1, <3>1, <3>2
  <2>9. Len(d) # 0 /\ d[1] = c[1]
    BY <1>1, <1>3, <1>7
  <2>10. DOMAIN r.nodes = DOMAIN m
    BY <2>5, <2>6 DEF ClosedPointers
  <2>11. Linked(r, d)
    <3> HIDE DEF p, to, q
    <3> QED
      BY <1>3, <2>6, <2>8, <2>9, <2>10 DEF Linked
  <2> QED
    BY <2>6, <2>7, <2>11 DEF d
<1> QED
  BY <1>5, <1>6, <1>7

------------------------------------------------------------------------------
(* What is made of the two macros *)

\* A list is the same as long as its head and its nodes are.
LEMMA StaysLinked ==
    ASSUME NEW V, NEW l \in Lists(V), NEW c, Linked(l, c),
           NEW r, r.head = l.head, ToSet(c) \subseteq DOMAIN r.nodes,
           \A x \in ToSet(c) : r.nodes[x] = l.nodes[x]
    PROVE  Linked(r, c)
<1>1. /\ Len(c) \in Nat /\ DOMAIN c = 1..Len(c) /\ c \in Seq(DOMAIN l.nodes)
  BY LinkedFacts DEF Linked
<1>2. \A i \in 1..Len(c) : c[i] \in ToSet(c)
  BY <1>1 DEF ToSet
<1>3. c \in Seq(DOMAIN r.nodes)
  <2>1. \A i \in 1..Len(c) : c[i] \in DOMAIN r.nodes
    BY <1>2
  <2>2. c = [i \in 1..Len(c) |-> c[i]]
    BY <1>1, SeqDef
  <2> QED
    BY <1>1, <2>1, <2>2, SeqDef
<1>4. \A i \in 1..Len(c) : r.nodes[c[i]] = l.nodes[c[i]]
  BY <1>2
<1> QED
  BY <1>3, <1>4 DEF Linked

LEMMA MovedIs ==
    ASSUME NEW V, NEW l \in Lists(V), NEW c, Linked(l, c), NEW k \in 1..Len(c),
           NEW r, r = Moved(l, c[k])
    PROVE  /\ r \in Lists(V) /\ Linked(r, Append(RemoveAt(c, k), c[k]))
           /\ Touched(l.nodes, r.nodes, ToSet(c))
<1> DEFINE rest == DL_DELETE(l, c[k])
           d == RemoveAt(c, k)
<1>1. /\ rest \in Lists(V) /\ Linked(rest, d)
      /\ Touched(l.nodes, rest.nodes, ToSet(c))
  BY DL_DELETEIs
<1>2. ToSet(d) = ToSet(c) \ {c[k]} /\ c[k] \in ToSet(c) /\ c[k] \in DOMAIN l.nodes
  <2>1. ToSet(d) = ToSet(c) \ {c[k]}
    BY RemovedIs
  <2>2. k \in DOMAIN c /\ c[k] \in DOMAIN l.nodes
    BY LinkedFacts
  <2> QED
    BY <2>1, <2>2 DEF ToSet
<1>3. r = DL_APPEND(rest, c[k])
  BY DEF Moved
<1> HIDE DEF rest, d
<1>4. c[k] \in DOMAIN rest.nodes /\ c[k] \notin ToSet(d)
  BY <1>1, <1>2 DEF Touched
<1>5. /\ r \in Lists(V) /\ Linked(r, Append(d, c[k]))
      /\ Touched(rest.nodes, r.nodes, ToSet(d) \cup {c[k]})
  BY <1>1, <1>3, <1>4, DL_APPENDIs
<1>6. Touched(l.nodes, r.nodes, ToSet(c))
  BY <1>1, <1>2, <1>5 DEF Touched
<1> QED
  BY <1>5, <1>6 DEF d

\* The memory r is m without node; of the others, at most pointers of the
\* nodes c have changed.
IsDeleted(m, c, node, r) ==
    /\ DOMAIN r = DOMAIN m \ {node}
    /\ \A x \in DOMAIN r :
        /\ r[x].value = m[x].value
        /\ x \notin ToSet(c) => r[x] = m[x]

LEMMA WithoutIs ==
    ASSUME NEW V, NEW l \in Lists(V), NEW c, Linked(l, c), NEW k \in 1..Len(c),
           NEW r, r = Without(l, c[k])
    PROVE  /\ r \in Lists(V) /\ Linked(r, RemoveAt(c, k))
           /\ IsDeleted(l.nodes, c, c[k], r.nodes)
<1> DEFINE rest == DL_DELETE(l, c[k])
           d == RemoveAt(c, k)
           m == [x \in DOMAIN rest.nodes \ {c[k]} |-> rest.nodes[x]]
<1>1. /\ rest \in Lists(V) /\ Linked(rest, d)
      /\ Touched(l.nodes, rest.nodes, ToSet(c))
  BY DL_DELETEIs
<1>2. ToSet(d) = ToSet(c) \ {c[k]}
  BY RemovedIs
<1>3. r = [rest EXCEPT !.nodes = m]
  BY DEF Without, Restrict
<1> HIDE DEF rest, d
<1>4. /\ DOMAIN m = DOMAIN rest.nodes \ {c[k]}
      /\ \A x \in DOMAIN rest.nodes \ {c[k]} : m[x] = rest.nodes[x]
  OBVIOUS
<1>5. m \in Heap(V)
  <2>1. DOMAIN rest.nodes \subseteq Nodes /\ rest.nodes \in [DOMAIN rest.nodes -> Cells(V)]
    BY <1>1 DEF Lists, Heap
  <2>2. DOMAIN m \subseteq Nodes /\ m \in [DOMAIN m -> Cells(V)]
    BY <2>1
  <2> QED
    BY <2>2, HeapIs
<1> HIDE DEF m
<1>6. r \in Lists(V) /\ r.head = rest.head /\ r.nodes = m
  <2>1. rest \in [head : Pointers, nodes : Heap(V)]
    BY <1>1 DEF Lists
  <2> QED
    BY <2>1, <1>3, <1>5 DEF Lists
<1>7. ToSet(d) \subseteq DOMAIN r.nodes
  <2>1. ToSet(d) \subseteq DOMAIN rest.nodes
    BY <1>1, LinkedFacts DEF ToSet
  <2> QED
    BY <1>2, <1>4, <1>6, <2>1
<1>8. \A x \in ToSet(d) : r.nodes[x] = rest.nodes[x]
  BY <1>4, <1>6, <1>7
<1>9. Linked(r, d)
  BY <1>1, <1>6, <1>7, <1>8, StaysLinked
<1>10. /\ DOMAIN r.nodes = DOMAIN l.nodes \ {c[k]}
       /\ \A x \in DOMAIN r.nodes :
            /\ r.nodes[x].value = l.nodes[x].value
            /\ x \notin ToSet(c) => r.nodes[x] = l.nodes[x]
  BY <1>1, <1>4, <1>6 DEF Touched
<1> QED
  BY <1>6, <1>9, <1>10 DEF IsDeleted, d

LEMMA WithIs ==
    ASSUME NEW V, NEW l \in Lists(V), NEW c, Linked(l, c),
           NEW node \in Nodes \ DOMAIN l.nodes, NEW value \in V,
           NEW r, r = With(l, node, value)
    PROVE  /\ r \in Lists(V) /\ Linked(r, Append(c, node))
           /\ DOMAIN r.nodes = DOMAIN l.nodes \cup {node}
           /\ r.nodes[node].value = value
           /\ \A x \in DOMAIN l.nodes :
                /\ r.nodes[x].value = l.nodes[x].value
                /\ x \notin ToSet(c) => r.nodes[x] = l.nodes[x]
<1> DEFINE cell == [prev |-> NULL, next |-> NULL, value |-> value]
           m == NewNode(l.nodes, node, value)
           l1 == [l EXCEPT !.nodes = m]
<1>1. /\ DOMAIN l.nodes \subseteq Nodes /\ l.nodes \in [DOMAIN l.nodes -> Cells(V)]
      /\ l \in [head : Pointers, nodes : Heap(V)]
  BY DEF Lists, Heap
<1>2. m = [x \in DOMAIN l.nodes \cup {node} |->
                IF x = node THEN cell ELSE l.nodes[x]]
  BY DEF NewNode
<1>3. cell \in Cells(V) /\ cell.value = value
  BY DEF Cells, Pointers
<1> HIDE DEF m, cell
<1>4. DOMAIN m = DOMAIN l.nodes \cup {node} /\ m \in [DOMAIN m -> Cells(V)]
  BY <1>1, <1>2, <1>3
<1>5. m[node] = cell /\ \A x \in DOMAIN l.nodes : m[x] = l.nodes[x]
  BY <1>2
<1>6. m \in Heap(V)
  BY <1>1, <1>4, HeapIs
<1>7. l1 \in Lists(V) /\ l1.head = l.head /\ l1.nodes = m
  BY <1>1, <1>6 DEF Lists
<1>8. r = DL_APPEND(l1, node)
  BY DEF With, m
<1> HIDE DEF l1
<1>9. ToSet(c) \subseteq DOMAIN l.nodes
  BY LinkedFacts DEF ToSet
<1>10. Linked(l1, c)
  BY <1>4, <1>5, <1>7, <1>9, StaysLinked
<1>11. node \in DOMAIN l1.nodes /\ node \notin ToSet(c)
  BY <1>4, <1>7, <1>9
<1>12. /\ r \in Lists(V) /\ Linked(r, Append(c, node))
       /\ Touched(l1.nodes, r.nodes, ToSet(c) \cup {node})
  BY <1>7, <1>8, <1>10, <1>11, DL_APPENDIs
<1>13. /\ DOMAIN r.nodes = DOMAIN l.nodes \cup {node}
       /\ r.nodes[node].value = value
       /\ \A x \in DOMAIN l.nodes :
            /\ r.nodes[x].value = l.nodes[x].value
            /\ x \notin ToSet(c) => r.nodes[x] = l.nodes[x]
  BY <1>3, <1>4, <1>5, <1>7, <1>12 DEF Touched
<1> QED
  BY <1>12, <1>13

------------------------------------------------------------------------------
(* What the walks along a list reach *)

LEMMA LeastNatural ==
    ASSUME NEW T, T \subseteq Nat, T # {}
    PROVE  \E n \in T : \A m \in T : n <= m
<1> DEFINE R == {pair \in Nat \X Nat : pair[1] < pair[2]}
<1>1. IsWellFoundedOn(R, Nat)
  BY NatLessThanWellFounded DEF OpToRel
<1>2. \E n \in T : \A m \in T : <<m, n>> \notin R
  <2> HIDE DEF R
  <2> QED
    BY <1>1, WFMin
<1>3. PICK n \in T : \A m \in T : <<m, n>> \notin R
  BY <1>2
<1>4. \A m \in T : n <= m
  <2> TAKE m \in T
  <2>1. <<m, n>> \notin R
    BY <1>3
  <2>2. m \in Nat /\ n \in Nat
    OBVIOUS
  <2>3. ~(m < n)
    BY <2>1, <2>2
  <2> QED
    BY <2>2, <2>3
<1> QED
  BY <1>4

\* What is said of each number by the numbers below it is said of one thing
\* only.
LEMMA SameWalk ==
    ASSUME NEW n \in Nat, NEW f, NEW g, DOMAIN f = 0..n, DOMAIN g = 0..n,
           f = [k \in 0..n |-> f[k]], g = [k \in 0..n |-> g[k]],
           f[0] = g[0],
           \A k \in 1..n : f[k - 1] = g[k - 1] => f[k] = g[k]
    PROVE  f = g
<1> DEFINE T == {k \in 0..n : f[k] # g[k]}
<1>1. T = {}
  <2> SUFFICES ASSUME T # {} PROVE FALSE
    OBVIOUS
  <2>1. T \subseteq Nat
    OBVIOUS
  <2>2. PICK k \in T : \A m \in T : k <= m
    <3> HIDE DEF T
    <3> QED
      BY <2>1, LeastNatural
  <2>3. k \in 1..n /\ f[k] # g[k]
    OBVIOUS
  <2>4. k - 1 \in 0..n /\ k - 1 \notin T
    BY <2>2, <2>3
  <2> QED
    BY <2>3, <2>4
<1>2. \A k \in 0..n : f[k] = g[k]
  BY <1>1
<1> QED
  BY <1>2

LEMMA ListFits ==
    ASSUME NEW V, NEW l \in Lists(V), NEW c, Linked(l, c)
    PROVE  Cardinality(Nodes) \in Nat /\ Len(c) <= Cardinality(Nodes)
<1> DEFINE n == Len(c)
<1>1. /\ n \in Nat /\ DOMAIN c = 1..n /\ \A i \in 1..n : c[i] \in Nodes
  BY LinkedFacts
<1>2. c = [i \in 1..n |-> c[i]]
  BY <1>1, SeqDef DEF Linked
<1>3. c \in Injection(1..n, Nodes)
  <2>1. c \in [1..n -> Nodes]
    BY <1>1, <1>2
  <2>2. IsInjective(c)
    BY <1>1 DEF Linked, IsInjective
  <2> QED
    BY <2>1, <2>2 DEF Injection
<1> HIDE DEF n
<1>4. Cardinality(1..n) <= Cardinality(Nodes)
  BY <1>3, FS_Injection, NodesAssumption
<1>5. Cardinality(1..n) = n
  BY <1>1, FS_Interval
<1>6. Cardinality(Nodes) \in Nat
  BY FS_CardinalityType, NodesAssumption
<1> QED
  BY <1>4, <1>5, <1>6 DEF n

\* next leads along c and then to NULL.
LEMMA ForwardIs ==
    ASSUME NEW V, NEW l \in Lists(V), NEW c, Linked(l, c)
    PROVE  Forward(l) = [k \in 0..Cardinality(Nodes) |->
                            IF k < Len(c) THEN c[k + 1] ELSE NULL]
<1> DEFINE N == Cardinality(Nodes)
           n == Len(c)
           g == [k \in 0..N |-> IF k < n THEN c[k + 1] ELSE NULL]
           IsWalk(h) == h = [k \in 0..N |->
                                IF k = 0 THEN l.head
                                ELSE IF h[k - 1] = NULL THEN NULL
                                     ELSE l.nodes[h[k - 1]].next]
<1>1. N \in Nat /\ n \in Nat /\ \A i \in 1..n : c[i] # NULL
  BY ListFits, LinkedFacts, NodesAssumption
<1>2. /\ l.head = IF n = 0 THEN NULL ELSE c[1]
      /\ \A i \in 1..n : l.nodes[c[i]].next = IF i = n THEN NULL ELSE c[i + 1]
  BY DEF Linked
<1>3. Forward(l) = CHOOSE h : IsWalk(h)
  BY DEF Forward
<1> HIDE DEF N, n
<1>4. IsWalk(g)
  <2>1. ASSUME NEW k \in 0..N
        PROVE  g[k] = IF k = 0 THEN l.head
                      ELSE IF g[k - 1] = NULL THEN NULL
                           ELSE l.nodes[g[k - 1]].next
    <3>1. CASE k = 0
      BY <1>1, <1>2, <3>1
    <3>2. CASE k # 0 /\ k - 1 < n
      <4>1. k \in 1..n /\ g[k - 1] = c[k] /\ c[k] # NULL
        BY <1>1, <3>2
      <4>2. l.nodes[c[k]].next = IF k = n THEN NULL ELSE c[k + 1]
        BY <1>2, <4>1
      <4>3. g[k] = IF k = n THEN NULL ELSE c[k + 1]
        BY <1>1, <4>1
      <4> HIDE DEF g
      <4> QED
        BY <3>2, <4>1, <4>2, <4>3
    <3>3. CASE k # 0 /\ ~(k - 1 < n)
      <4>1. g[k - 1] = NULL /\ g[k] = NULL
        BY <1>1, <3>3
      <4> HIDE DEF g
      <4> QED
        BY <3>3, <4>1
    <3> QED
      BY <3>1, <3>2, <3>3
  <2>2. g = [k \in 0..N |-> g[k]]
    OBVIOUS
  <2> HIDE DEF g
  <2> QED
    BY <2>1, <2>2
<1>5. ASSUME NEW h, IsWalk(h) PROVE h = g
  <2>1. DOMAIN h = 0..N /\ h = [k \in 0..N |-> h[k]]
    BY <1>5
  <2>2. DOMAIN g = 0..N /\ g = [k \in 0..N |-> g[k]]
    OBVIOUS
  <2> HIDE DEF g
  <2>3. h[0] = g[0]
    BY <1>1, <1>4, <1>5
  <2>4. ASSUME NEW k \in 1..N, h[k - 1] = g[k - 1] PROVE h[k] = g[k]
    <3>1. k \in 0..N /\ k # 0
      BY <1>1
    <3>2. h[k] = IF h[k - 1] = NULL THEN NULL ELSE l.nodes[h[k - 1]].next
      BY <1>5, <3>1
    <3>3. g[k] = IF g[k - 1] = NULL THEN NULL ELSE l.nodes[g[k - 1]].next
      BY <1>4, <3>1
    <3> QED
      BY <2>4, <3>2, <3>3
  <2> QED
    BY <1>1, <2>1, <2>2, <2>3, <2>4, SameWalk
<1>6. (CHOOSE h : IsWalk(h)) = g
  <2> HIDE DEF g, IsWalk
  <2> QED
    BY <1>4, <1>5
<1> QED
  BY <1>3, <1>6 DEF N, n

\* DL_FOREACH visits the nodes of c in their order, and a linked list is one
\* as IsList describes it.
LEMMA ChainIs ==
    ASSUME NEW V, NEW l \in Lists(V), NEW c, Linked(l, c)
    PROVE  /\ Chain(l) = c /\ IsList(l)
           /\ Values(l) = [i \in 1..Len(c) |-> l.nodes[c[i]].value]
<1> DEFINE N == Cardinality(Nodes)
           n == Len(c)
           at == Forward(l)
           visits == {k \in 1..N : at[k - 1] # NULL}
<1>1. /\ N \in Nat /\ n \in Nat /\ n <= N /\ DOMAIN c = 1..n
      /\ \A i \in 1..n : c[i] # NULL
  BY ListFits, LinkedFacts, NodesAssumption
<1>2. at = [k \in 0..N |-> IF k < n THEN c[k + 1] ELSE NULL]
  BY ForwardIs
<1>3. c = [i \in 1..n |-> c[i]]
  BY <1>1, SeqDef DEF Linked
<1> HIDE DEF N, n, at
<1>4. \A k \in 1..N : at[k - 1] = IF k <= n THEN c[k] ELSE NULL
  <2> TAKE k \in 1..N
  <2>1. k - 1 \in 0..N /\ (k - 1 < n <=> k <= n) /\ (k - 1) + 1 = k
    BY <1>1
  <2> QED
    BY <1>2, <2>1
<1>5. visits = 1..n
  <2>1. \A k \in 1..N : at[k - 1] # NULL <=> k \in 1..n
    <3> TAKE k \in 1..N
    <3>1. CASE k \in 1..n
      <4>1. at[k - 1] = c[k] /\ c[k] # NULL
        BY <1>1, <1>4, <3>1
      <4> QED
        BY <3>1, <4>1
    <3>2. CASE k \notin 1..n
      <4>1. ~(k <= n)
        BY <1>1, <3>2
      <4> QED
        BY <1>4, <3>2, <4>1
    <3> QED
      BY <3>1, <3>2
  <2>2. 1..n \subseteq 1..N
    BY <1>1
  <2> QED
    BY <2>1, <2>2
<1>6. Cardinality(visits) = n
  <2> HIDE DEF visits
  <2>1. Cardinality(1..n) = n
    BY <1>1, FS_Interval
  <2> QED
    BY <1>5, <2>1
<1>7. Chain(l) = [k \in 1..n |-> at[k - 1]]
  BY <1>6 DEF Chain, at, N
<1>8. \A k \in 1..n : at[k - 1] = c[k]
  BY <1>1, <1>4
<1>9. Chain(l) = c
  BY <1>3, <1>7, <1>8
<1>10. Values(l) = [i \in 1..n |-> l.nodes[c[i]].value]
  BY <1>1, <1>9 DEF Values
<1>11. IsList(l)
  <2>1. at[N] = NULL
    BY <1>1, <1>2
  <2>2. IsInjective(c)
    BY <1>1 DEF Linked, IsInjective, n
  <2>3. \A i \in 1..n : l.nodes[c[i]].prev = IF i = 1 THEN Last(c) ELSE c[i - 1]
    BY DEF Linked, n, Last
  <2> QED
    BY <1>1, <1>9, <2>1, <2>2, <2>3 DEF IsList, at, N
<1> QED
  BY <1>9, <1>10, <1>11 DEF n

------------------------------------------------------------------------------
(* The list of the last accesses *)

\* The list l of the nodes c and the size n hold the accesses of h.
HoldsIn(l, c, n, h) ==
    /\ l \in Lists(Accessed) /\ Linked(l, c) /\ ToSet(c) = DOMAIN l.nodes
    /\ h \in Seq(Accessed) /\ Len(h) = Len(c)
    /\ n = Len(c) /\ n <= MaxSize
    /\ \A i \in 1..Len(c) : l.nodes[c[i]].value = h[i]

\* An empty list is linked.
LEMMA EmptyIs ==
    ASSUME NEW V, NEW l, l = [head |-> NULL, nodes |-> [node \in {} |-> NULL]]
    PROVE  /\ l \in Lists(V) /\ Linked(l, << >>)
           /\ Len(<< >>) = 0 /\ ToSet(<< >>) = {} /\ DOMAIN l.nodes = {}
<1>1. l.nodes = [node \in {} |-> NULL] /\ DOMAIN l.nodes = {} /\ l.head = NULL
  OBVIOUS
<1>2. l.nodes \in Heap(V)
  <2> DEFINE m == l.nodes
  <2>1. DOMAIN m \subseteq Nodes /\ m \in [DOMAIN m -> Cells(V)]
    BY <1>1
  <2> HIDE DEF m
  <2>2. m \in Heap(V)
    BY <2>1, HeapIs
  <2> QED
    BY <2>2 DEF m
<1>3. l \in Lists(V)
  BY <1>1, <1>2 DEF Lists, Pointers
<1>4. << >> \in Seq(DOMAIN l.nodes) /\ Len(<< >>) = 0 /\ DOMAIN << >> = {}
  BY EmptySeq
<1>5. ToSet(<< >>) = {}
  BY <1>4 DEF ToSet
<1>6. Linked(l, << >>)
  BY <1>1, <1>4 DEF Linked
<1> QED
  BY <1>1, <1>3, <1>4, <1>5, <1>6

LEMMA AppendedHolds ==
    ASSUME NEW l, NEW c, NEW n, NEW h, HoldsIn(l, c, n, h), n < MaxSize,
           NEW node \in Nodes \ DOMAIN l.nodes, NEW adr \in Accessed
    PROVE  HoldsIn(With(l, node, adr), Append(c, node), n + 1, Append(h, adr))
<1> DEFINE r == With(l, node, adr)
           d == Append(c, node)
           g == Append(h, adr)
<1>1. /\ l \in Lists(Accessed) /\ Linked(l, c) /\ ToSet(c) = DOMAIN l.nodes
      /\ h \in Seq(Accessed) /\ Len(h) = n /\ n = Len(c) /\ n \in Nat
      /\ DOMAIN c = 1..n /\ c \in Seq(DOMAIN l.nodes)
      /\ \A i \in 1..n : l.nodes[c[i]].value = h[i] /\ c[i] \in DOMAIN l.nodes
  BY LinkedFacts DEF HoldsIn, Linked
<1>2. /\ r \in Lists(Accessed) /\ Linked(r, d)
      /\ DOMAIN r.nodes = DOMAIN l.nodes \cup {node}
      /\ r.nodes[node].value = adr
      /\ \A x \in DOMAIN l.nodes : r.nodes[x].value = l.nodes[x].value
  BY <1>1, WithIs
<1>3. /\ Len(d) = n + 1 /\ d[n + 1] = node /\ \A i \in 1..n : d[i] = c[i]
  BY <1>1, AppendProperties
<1>4. /\ g \in Seq(Accessed) /\ Len(g) = n + 1 /\ g[n + 1] = adr
      /\ \A i \in 1..n : g[i] = h[i]
  BY <1>1, AppendProperties
<1>5. ToSet(d) = ToSet(c) \cup {node}
  <2>1. c \in Seq(Nodes) /\ node \in Nodes
    <3>1. DOMAIN l.nodes \subseteq Nodes
      BY <1>1 DEF Lists, Heap
    <3> QED
      BY <1>1, <3>1, SeqMonotonic
  <2> QED
    BY <2>1, AppendedLines
<1> HIDE DEF r, d, g
<1>6. ASSUME NEW i \in 1..(n + 1) PROVE r.nodes[d[i]].value = g[i]
  <2>1. CASE i = n + 1
    BY <1>2, <1>3, <1>4, <2>1
  <2>2. CASE i # n + 1
    <3>1. i \in 1..n
      BY <1>1, <2>2
    <3> QED
      BY <1>1, <1>2, <1>3, <1>4, <3>1
  <2> QED
    BY <2>1, <2>2
<1>7. n + 1 <= MaxSize
  BY <1>1, StreamAssumption
<1> QED
  BY <1>1, <1>2, <1>3, <1>4, <1>5, <1>6, <1>7 DEF HoldsIn, r, d, g

LEMMA ShortenedHolds ==
    ASSUME NEW l, NEW c, NEW n, NEW h, HoldsIn(l, c, n, h), n # 0
    PROVE  /\ HoldsIn(Without(l, l.head), RemoveAt(c, 1), n - 1, Tail(h))
           /\ DOMAIN Without(l, l.head).nodes \subseteq DOMAIN l.nodes
<1> DEFINE r == Without(l, l.head)
           d == RemoveAt(c, 1)
           g == Tail(h)
<1>1. /\ l \in Lists(Accessed) /\ Linked(l, c) /\ ToSet(c) = DOMAIN l.nodes
      /\ h \in Seq(Accessed) /\ Len(h) = n /\ n = Len(c) /\ n \in Nat
      /\ n <= MaxSize /\ c \in Seq(DOMAIN l.nodes)
      /\ \A i \in 1..n : l.nodes[c[i]].value = h[i] /\ c[i] \in DOMAIN l.nodes
  BY LinkedFacts DEF HoldsIn, Linked
<1>2. 1 \in 1..Len(c) /\ l.head = c[1]
  BY <1>1 DEF Linked
<1>3. /\ r \in Lists(Accessed) /\ Linked(r, d)
      /\ DOMAIN r.nodes = DOMAIN l.nodes \ {c[1]}
      /\ \A x \in DOMAIN r.nodes : r.nodes[x].value = l.nodes[x].value
  <2>1. /\ r \in Lists(Accessed) /\ Linked(r, d)
        /\ IsDeleted(l.nodes, c, c[1], r.nodes)
    BY <1>1, <1>2, WithoutIs
  <2> QED
    BY <2>1 DEF IsDeleted
<1>4. /\ ToSet(d) = ToSet(c) \ {c[1]}
      /\ \A j \in 1..Len(d) : d[j] # c[1]
  BY <1>1, <1>2, RemovedIs
<1>5. /\ Len(d) = n - 1 /\ \A j \in 1..(n - 1) : d[j] = IF j < 1 THEN c[j] ELSE c[j + 1]
  BY <1>1, <1>2, RemoveAtProperties
<1>6. h # << >>
  BY <1>1, EmptySeq
<1>7. /\ g \in Seq(Accessed) /\ Len(g) = n - 1
      /\ \A i \in 1..(n - 1) : g[i] = h[i + 1]
  BY <1>1, <1>6, HeadTailProperties
<1> HIDE DEF r, d, g
<1>8. ASSUME NEW i \in 1..(n - 1) PROVE r.nodes[d[i]].value = g[i]
  <2>1. d[i] = c[i + 1] /\ i + 1 \in 1..n /\ g[i] = h[i + 1] /\ i \in 1..Len(d)
    <3>1. i + 1 \in 1..n /\ i \in 1..Len(d) /\ ~(i < 1)
      BY <1>1, <1>5
    <3>2. d[i] = c[i + 1]
      BY <1>5, <3>1
    <3> QED
      BY <1>7, <3>1, <3>2
  <2>2. d[i] \in DOMAIN r.nodes
    BY <1>1, <1>3, <1>4, <2>1
  <2> QED
    BY <1>1, <1>3, <2>1, <2>2
<1>9. n - 1 <= MaxSize
  BY <1>1, StreamAssumption
<1> QED
  BY <1>1, <1>3, <1>4, <1>5, <1>7, <1>8, <1>9 DEF HoldsIn, r, d, g

\* AccessList::add keeps what the list holds, be it full or not.
LEMMA AddHolds ==
    ASSUME NEW c, HoldsIn(list, c, listSize, history), NEW adr \in Accessed, Add(adr)
    PROVE  \E d : HoldsIn(list', d, listSize', history')
<1>1. PICK node \in Nodes \ DOMAIN list.nodes :
        list' = With(IF IsListFull THEN Without(list, list.head) ELSE list, node, adr)
  BY DEF Add
<1>2. /\ listSize' = (IF IsListFull THEN listSize - 1 ELSE listSize) + 1
      /\ history' = AddAccess(history, MaxSize, adr)
  BY DEF Add
<1>3. /\ listSize \in Nat /\ MaxSize \in Nat \ {0} /\ listSize <= MaxSize
      /\ Len(history) = listSize
  BY LinkedFacts, StreamAssumption DEF HoldsIn
<1>4. CASE IsListFull
  <2>1. listSize # 0 /\ listSize - 1 < MaxSize
    BY <1>3, <1>4 DEF IsListFull
  <2> DEFINE l == Without(list, list.head)
             b == RemoveAt(c, 1)
  <2>2. HoldsIn(l, b, listSize - 1, Tail(history)) /\ DOMAIN l.nodes \subseteq DOMAIN list.nodes
    BY <2>1, ShortenedHolds
  <2>3. list' = With(l, node, adr) /\ node \in Nodes \ DOMAIN l.nodes
    BY <1>1, <1>4, <2>2
  <2> HIDE DEF l, b
  <2>4. HoldsIn(With(l, node, adr), Append(b, node), (listSize - 1) + 1,
                Append(Tail(history), adr))
    BY <2>1, <2>2, <2>3, AppendedHolds
  <2>5. history' = Append(Tail(history), adr) /\ listSize' = (listSize - 1) + 1
    BY <1>2, <1>3, <1>4 DEF AddAccess, IsListFull
  <2> QED
    BY <2>3, <2>4, <2>5
<1>5. CASE ~IsListFull
  <2>1. listSize < MaxSize
    BY <1>3, <1>5 DEF IsListFull
  <2>2. HoldsIn(With(list, node, adr), Append(c, node), listSize + 1, Append(history, adr))
    BY <2>1, AppendedHolds
  <2>3. /\ history' = Append(history, adr) /\ listSize' = listSize + 1
        /\ list' = With(list, node, adr)
    BY <1>1, <1>2, <1>3, <1>5 DEF AddAccess, IsListFull
  <2> QED
    BY <2>2, <2>3
<1> QED
  BY <1>4, <1>5

\* prev leads back along the accesses, as far as there are any.
LEMMA BackIs ==
    ASSUME NEW c, HoldsIn(list, c, listSize, history),
           NEW steps \in Nat, steps < Len(c)
    PROVE  Back(steps) = [k \in 0..steps |-> c[Len(c) - k]]
<1> DEFINE n == Len(c)
           g == [k \in 0..steps |-> c[n - k]]
           IsWalk(f) == f = [k \in 0..steps |->
                                list.nodes[IF k = 0 THEN list.head ELSE f[k - 1]].prev]
<1>1. /\ n \in Nat /\ list.head = c[1]
      /\ \A i \in 1..n : list.nodes[c[i]].prev = IF i = 1 THEN c[n] ELSE c[i - 1]
  BY LinkedFacts DEF HoldsIn, Linked
<1>2. Back(steps) = CHOOSE f : IsWalk(f)
  BY DEF Back
<1> HIDE DEF n
<1>3. IsWalk(g)
  <2>1. ASSUME NEW k \in 0..steps
        PROVE  g[k] = list.nodes[IF k = 0 THEN list.head ELSE g[k - 1]].prev
    <3>1. CASE k = 0
      <4>1. 1 \in 1..n /\ list.nodes[c[1]].prev = c[n] /\ g[0] = c[n]
        BY <1>1 DEF n
      <4> HIDE DEF g
      <4> QED
        BY <1>1, <3>1, <4>1
    <3>2. CASE k # 0
      <4>1. k - 1 \in 0..steps /\ n - (k - 1) \in 1..n /\ n - (k - 1) # 1
            /\ (n - (k - 1)) - 1 = n - k
        BY <1>1, <3>2 DEF n
      <4>2. g[k - 1] = c[n - (k - 1)] /\ g[k] = c[n - k]
        BY <4>1
      <4> HIDE DEF g
      <4>3. list.nodes[c[n - (k - 1)]].prev = c[n - k]
        BY <1>1, <4>1
      <4> QED
        BY <3>2, <4>2, <4>3
    <3> QED
      BY <3>1, <3>2
  <2>2. g = [k \in 0..steps |-> g[k]]
    OBVIOUS
  <2> HIDE DEF g
  <2> QED
    BY <2>1, <2>2
<1>4. ASSUME NEW f, IsWalk(f) PROVE f = g
  <2>1. DOMAIN f = 0..steps /\ f = [k \in 0..steps |-> f[k]]
    BY <1>4
  <2>2. DOMAIN g = 0..steps /\ g = [k \in 0..steps |-> g[k]]
    OBVIOUS
  <2> HIDE DEF g
  <2>3. f[0] = g[0]
    BY <1>3, <1>4
  <2>4. ASSUME NEW k \in 1..steps, f[k - 1] = g[k - 1] PROVE f[k] = g[k]
    <3>1. k \in 0..steps /\ k # 0
      OBVIOUS
    <3>2. f[k] = list.nodes[f[k - 1]].prev
      BY <1>4, <3>1
    <3>3. g[k] = list.nodes[g[k - 1]].prev
      BY <1>3, <3>1
    <3> QED
      BY <2>4, <3>2, <3>3
  <2> QED
    BY <2>1, <2>2, <2>3, <2>4, SameWalk
<1>5. (CHOOSE f : IsWalk(f)) = g
  <2> HIDE DEF g, IsWalk
  <2> QED
    BY <1>3, <1>4
<1> QED
  BY <1>2, <1>5 DEF n

\* The line after the last access.
Following == (Last(history) + LineSize) % AddressSpace

\* The walk reads the accesses of Recent, last one first, and no other.
LEMMA StreamPrefetchIs ==
    ASSUME NEW c, HoldsIn(list, c, listSize, history), NEW order \in Orders
    PROVE  StreamPrefetch(order) =
                IF IsStream(order) /\ InSamePage(Recent[1], Following)
                THEN {[order |-> order, toFetch |-> Following, seqStart |-> Recent[1]]}
                ELSE {}
<1> DEFINE n == Len(history)
           T == SeqThreshold
           at == Back(LastStep)
<1>1. /\ n \in Nat /\ listSize = n /\ n = Len(c) /\ T \in Nat \ {0, 1}
      /\ history \in Seq(Accessed) /\ list.head = IF n = 0 THEN NULL ELSE c[1]
      /\ \A i, j \in 1..n : c[i] = c[j] => i = j
      /\ \A i \in 1..n : list.nodes[c[i]].value = history[i]
      /\ LastStep = T - 1
  BY LinkedFacts, StreamAssumption DEF HoldsIn, Linked, LastStep
<1> HIDE DEF n, T
<1>2. CASE n < T
  <2>1. ~(listSize >= SeqThreshold)
    BY <1>1, <1>2 DEF T
  <2>2. ~IsStream(order)
    BY <1>1, <1>2 DEF IsStream, n, T
  <2>3. StreamPrefetch(order) = {}
    BY <2>1 DEF StreamPrefetch
  <2> QED
    BY <2>2, <2>3
<1>3. CASE ~(n < T)
  <2>1. at = [k \in 0..(T - 1) |-> c[n - k]]
    <3>1. LastStep \in Nat /\ LastStep < Len(c)
      BY <1>1, <1>3
    <3>2. Back(LastStep) = [k \in 0..LastStep |-> c[Len(c) - k]]
      BY <3>1, BackIs
    <3> QED
      BY <1>1, <3>2
  <2> HIDE DEF at
  <2>2. ASSUME NEW k \in 0..(T - 1)
        PROVE  /\ n - k \in 1..n /\ at[k] = c[n - k]
               /\ list.nodes[at[k]].value = history[n - k]
    <3>1. n - k \in 1..n /\ at[k] = c[n - k]
      BY <1>1, <1>3, <2>1
    <3> QED
      BY <1>1, <3>1
  <2>3. \A i \in 1..T : Recent[i] = history[n - T + i]
    <3>1. Recent = SubSeq(history, n - T + 1, n)
      BY DEF Recent, n, T
    <3>2. n - T + 1 \in 1..n /\ n \in 1..n
      BY <1>1, <1>3
    <3>3. \A i \in 1..(n - (n - T + 1) + 1) :
            SubSeq(history, n - T + 1, n)[i] = history[(n - T + 1) + i - 1]
      BY <1>1, <3>2, SubSeqProperties DEF n
    <3> TAKE i \in 1..T
    <3>4. i \in 1..(n - (n - T + 1) + 1) /\ (n - T + 1) + i - 1 = n - T + i
      BY <1>1
    <3> QED
      BY <3>1, <3>3, <3>4
  <2>4. Recent[1] = history[n - (T - 1)] /\ Last(history) = history[n]
    <3>1. 1 \in 1..T /\ n - T + 1 = n - (T - 1)
      BY <1>1
    <3> QED
      BY <2>3, <3>1 DEF Last, n
  <2>5. 0 \in 0..(T - 1) /\ T - 1 \in 0..(T - 1) /\ n - 0 = n
    BY <1>1
  <2>6. /\ list.nodes[at[0]].value = Last(history)
        /\ list.nodes[at[T - 1]].value = Recent[1]
    BY <2>2, <2>4, <2>5
  <2> DEFINE adr(k) == list.nodes[at[k]].value
  <2>7. ASSUME NEW k \in 1..(T - 1)
        PROVE  /\ T - k + 1 \in 2..T
               /\ adr(k - 1) = Recent[T - k + 1] /\ adr(k) = Recent[(T - k + 1) - 1]
    <3>1. /\ k \in 0..(T - 1) /\ k - 1 \in 0..(T - 1)
          /\ T - k + 1 \in 2..T /\ T - k + 1 \in 1..T /\ (T - k + 1) - 1 \in 1..T
          /\ n - T + (T - k + 1) = n - (k - 1)
          /\ n - T + ((T - k + 1) - 1) = n - k
      BY <1>1
    <3>2. adr(k) = history[n - k] /\ adr(k - 1) = history[n - (k - 1)]
      BY <2>2, <3>1
    <3> HIDE DEF adr
    <3> QED
      BY <2>3, <3>1, <3>2
  <2> HIDE DEF adr
  <2>8. (\A k \in 1..(T - 1) : InOrder(order, adr(k - 1), adr(k))) <=> IsStream(order)
    <3>1. ASSUME \A k \in 1..(T - 1) : InOrder(order, adr(k - 1), adr(k)),
                 NEW i \in 2..T
          PROVE  InOrder(order, Recent[i], Recent[i - 1])
      <4>1. T - i + 1 \in 1..(T - 1) /\ T - (T - i + 1) + 1 = i
        BY <1>1
      <4>2. /\ adr((T - i + 1) - 1) = Recent[i]
            /\ adr(T - i + 1) = Recent[i - 1]
        BY <2>7, <4>1
      <4> QED
        BY <3>1, <4>1, <4>2
    <3>2. ASSUME \A i \in 2..T : InOrder(order, Recent[i], Recent[i - 1]),
                 NEW k \in 1..(T - 1)
          PROVE  InOrder(order, adr(k - 1), adr(k))
      BY <2>7, <3>2
    <3>3. n >= T
      BY <1>1, <1>3
    <3> QED
      BY <3>1, <3>2, <3>3 DEF IsStream, n, T
  <2>9. \A k \in 1..(T - 1 - 1) : at[k] # list.head
    <3> TAKE k \in 1..(T - 1 - 1)
    <3>1. k \in 0..(T - 1) /\ n - k # 1 /\ n # 0 /\ 1 \in 1..n
      BY <1>1, <1>3
    <3>2. at[k] = c[n - k] /\ n - k \in 1..n /\ list.head = c[1]
      BY <1>1, <2>2, <3>1
    <3> QED
      BY <1>1, <3>1, <3>2
  <2>10. listSize >= SeqThreshold
    BY <1>1, <1>3 DEF T
  <2>11. StreamPrefetch(order) =
            IF /\ listSize >= SeqThreshold
               /\ \A k \in 1..(T - 1) : InOrder(order, adr(k - 1), adr(k))
               /\ \A k \in 1..(T - 1 - 1) : at[k] # list.head
               /\ InSamePage(adr(T - 1), (adr(0) + LineSize) % AddressSpace)
            THEN {[order |-> order, toFetch |-> (adr(0) + LineSize) % AddressSpace,
                   seqStart |-> adr(T - 1)]}
            ELSE {}
    BY <1>1 DEF StreamPrefetch, at, adr
  <2>12. adr(0) = Last(history) /\ adr(T - 1) = Recent[1]
    BY <2>6 DEF adr
  <2>13. (adr(0) + LineSize) % AddressSpace = Following
    BY <2>12 DEF Following
  <2> QED
    BY <2>8, <2>9, <2>10, <2>11, <2>12, <2>13
<1> QED
  BY <1>2, <1>3

------------------------------------------------------------------------------
(* What an ascending stream proposes *)

LEMMA NextUnit ==
    ASSUME NEW u \in Nat \ {0}, NEW a \in Nat
    PROVE  (a + u) \div u = a \div u + 1 /\ a \div u \in Nat
BY Z3T(30)

LEMMA OnceAround ==
    ASSUME NEW u \in Nat \ {0}, NEW a \in 0..(u - 1)
    PROVE  (a + u) % u = a
<1>1. a \in Int /\ 1 \in Int
  OBVIOUS
<1>2. (a + 1 * u) % u = a % u
  BY ONLY <1>1, u \in Nat \ {0}, RemainderOfSum
<1>3. a + 1 * u = a + u /\ a % u = a
  BY Z3T(30)
<1> QED
  BY <1>2, <1>3

LEMMA UnitsOf ==
    ASSUME NEW u \in Nat \ {0}, NEW a \in Nat, NEW b \in Nat, a <= b
    PROVE  a \div u \in Nat /\ b \div u \in Nat /\ a \div u <= b \div u
<1> DEFINE p == a \div u
           q == b \div u
<1>1. p \in Nat /\ a = u * p + (a % u) /\ a % u \in 0..(u - 1)
  BY Z3T(30)
<1>2. q \in Nat /\ b = u * q + (b % u) /\ b % u \in 0..(u - 1)
  BY Z3T(30)
<1> HIDE DEF p, q
<1>3. p <= q
  <2> SUFFICES ASSUME ~(p <= q) PROVE FALSE
    OBVIOUS
  <2>1. p - q \in Int /\ p - q >= 1
    BY <1>1, <1>2
  <2>2. u * (p - q) >= u
    BY <2>1, MultipleIsLarge
  <2>3. u * (p - q) = (u * p) - (u * q)
    BY <1>1, <1>2
  <2>4. u * p \in Int /\ u * q \in Int
    BY <1>1, <1>2
  <2> QED
    BY <1>1, <1>2, <2>2, <2>3, <2>4
<1> QED
  BY <1>1, <1>2, <1>3 DEF p, q

\* Of numbers that rise by at most D at a time.
LEMMA SmallSteps ==
    ASSUME NEW T \in Nat \ {0}, NEW D \in Nat, NEW s,
           \A i \in 1..T : s[i] \in Nat,
           \A i \in 2..T : s[i - 1] <= s[i] /\ s[i] - s[i - 1] <= D
    PROVE  \A i \in 1..T : /\ s[1] <= s[i] /\ s[i] <= s[T]
                           /\ s[i] <= s[1] + (i - 1) * D
<1> DEFINE Near(i) == s[1] <= s[i] /\ s[i] <= s[1] + (i - 1) * D
           Far     == {i \in 1..T : ~Near(i)}
           Above   == {k \in 0..(T - 1) : ~(s[T - k] <= s[T])}
<1>1. Far = {}
  <2> SUFFICES ASSUME Far # {} PROVE FALSE
    OBVIOUS
  <2>1. Far \subseteq Nat
    OBVIOUS
  <2>2. PICK i \in Far : \A m \in Far : i <= m
    <3> HIDE DEF Far
    <3> QED
      BY <2>1, LeastNatural
  <2>3. i \in 1..T /\ ~Near(i)
    OBVIOUS
  <2>4. i # 1
    <3>1. 1 \in 1..T /\ (1 - 1) * D = 0
      OBVIOUS
    <3>2. Near(1)
      BY <3>1
    <3> HIDE DEF Near
    <3> QED
      BY <2>3, <3>2
  <2>5. i - 1 \in 1..T /\ i \in 2..T /\ Near(i - 1)
    <3>1. i - 1 \in 1..T /\ i \in 2..T /\ ~(i <= i - 1)
      BY <2>3, <2>4
    <3>2. i - 1 \notin Far
      <4> HIDE DEF Far
      <4> QED
        BY <2>2, <3>1
    <3> HIDE DEF Near
    <3> QED
      BY <3>1, <3>2
  <2>6. (i - 1) * D = ((i - 1) - 1) * D + D /\ ((i - 1) - 1) * D \in Int
    BY <2>5
  <2>7. s[i - 1] <= s[i] /\ s[i] - s[i - 1] <= D /\ s[i] \in Nat /\ s[i - 1] \in Nat
        /\ s[1] \in Nat
    BY <2>5
  <2> DEFINE y == ((i - 1) - 1) * D
             z == (i - 1) * D
  <2>8. s[1] <= s[i - 1] /\ s[i - 1] <= s[1] + y /\ z = y + D /\ y \in Int
    BY <2>5, <2>6
  <2> HIDE DEF y, z, Near
  <2>9. s[1] <= s[i] /\ s[i] <= s[1] + z
    BY <2>7, <2>8
  <2> QED
    BY <2>3, <2>9 DEF Near, z
<1>2. Above = {}
  <2> SUFFICES ASSUME Above # {} PROVE FALSE
    OBVIOUS
  <2>1. Above \subseteq Nat
    OBVIOUS
  <2>2. PICK k \in Above : \A m \in Above : k <= m
    <3> HIDE DEF Above
    <3> QED
      BY <2>1, LeastNatural
  <2>3. k \in 0..(T - 1) /\ ~(s[T - k] <= s[T])
    OBVIOUS
  <2>4. k # 0
    <3>1. T \in 1..T /\ T - 0 = T
      OBVIOUS
    <3> QED
      BY <2>3, <3>1
  <2>5. k - 1 \in 0..(T - 1) /\ ~(k <= k - 1)
    BY <2>3, <2>4
  <2>6. s[T - (k - 1)] <= s[T]
    <3>1. k - 1 \notin Above
      <4> HIDE DEF Above
      <4> QED
        BY <2>2, <2>5
    <3> QED
      BY <2>5, <3>1
  <2>7. T - (k - 1) \in 2..T /\ (T - (k - 1)) - 1 = T - k
    BY <2>3, <2>4
  <2>8. s[T - k] <= s[T - (k - 1)]
    BY <2>7
  <2>9. s[T - k] \in Nat /\ s[T - (k - 1)] \in Nat /\ s[T] \in Nat
    <3>1. T - k \in 1..T /\ T - (k - 1) \in 1..T /\ T \in 1..T
      BY <2>3, <2>4
    <3> QED
      BY <3>1
  <2> QED
    BY <2>3, <2>6, <2>8, <2>9
<1>3. ASSUME NEW i \in 1..T PROVE s[i] <= s[T]
  <2>1. T - i \in 0..(T - 1) /\ T - (T - i) = i
    OBVIOUS
  <2>2. T - i \notin Above
    BY <1>2
  <2> QED
    BY <2>1, <2>2
<1>4. ASSUME NEW i \in 1..T PROVE Near(i)
  BY <1>1
<1> QED
  BY <1>3, <1>4

\* The accesses of an ascending stream rise by less than two lines each.
LEMMA AscendingAccesses ==
    ASSUME history \in Seq(Accessed), IsStream("ascending")
    PROVE  /\ DOMAIN Recent = 1..SeqThreshold /\ Last(history) = Recent[SeqThreshold]
           /\ \A i \in 1..SeqThreshold :
                /\ Recent[i] \in Accessed /\ Recent[i] \in Nat
                /\ Recent[1] <= Recent[i] /\ Recent[i] <= Recent[SeqThreshold]
                /\ Recent[i] <= Recent[1] + (i - 1) * (2 * LineSize - 1)
<1> DEFINE T == SeqThreshold
           n == Len(history)
           D == 2 * LineSize - 1
<1>1. /\ T \in Nat \ {0} /\ T \in 1..T /\ D \in Nat /\ n \in Nat /\ n >= T
      /\ Accessed \subseteq Nat
  BY StreamAssumption, LenProperties DEF IsStream
<1>2. /\ DOMAIN Recent = 1..T
      /\ \A i \in 1..T : Recent[i] = history[n - T + i] /\ n - T + i \in 1..n
  <2> HIDE DEF n, T
  <2>1. Recent = SubSeq(history, n - T + 1, n)
    BY DEF Recent, n, T
  <2>2. n - T + 1 \in 1..n /\ n \in 1..n
    BY <1>1
  <2>3. /\ Len(Recent) = n - (n - T + 1) + 1 /\ Recent \in Seq(Accessed)
        /\ \A i \in 1..(n - (n - T + 1) + 1) : Recent[i] = history[(n - T + 1) + i - 1]
    BY <1>1, <2>1, <2>2, SubSeqProperties DEF n
  <2>4. Len(Recent) = T /\ n - (n - T + 1) + 1 = T
    BY <1>1, <2>3
  <2>5. DOMAIN Recent = 1..T
    BY <2>3, <2>4, LenProperties
  <2>6. ASSUME NEW i \in 1..T
        PROVE  Recent[i] = history[n - T + i] /\ n - T + i \in 1..n
    <3>1. (n - T + 1) + i - 1 = n - T + i /\ n - T + i \in 1..n
      BY <1>1
    <3> QED
      BY <2>3, <2>4, <3>1
  <2> QED
    BY <2>5, <2>6
<1>3. \A i \in 1..T : Recent[i] \in Accessed /\ Recent[i] \in Nat
  BY <1>1, <1>2, ElementOfSeq
<1>4. Last(history) = Recent[T]
  <2>1. n - T + T = n
    BY <1>1
  <2> QED
    BY <1>1, <1>2, <2>1 DEF Last
<1>5. ASSUME NEW i \in 2..T
      PROVE  Recent[i - 1] <= Recent[i] /\ Recent[i] - Recent[i - 1] <= D
  <2>1. IsAscending(Recent[i], Recent[i - 1])
    BY DEF IsStream, InOrder
  <2>2. Recent[i] \in Nat /\ Recent[i - 1] \in Nat
    <3>1. i \in 1..T /\ i - 1 \in 1..T
      BY <1>1
    <3> QED
      BY <1>3, <3>1
  <2> QED
    BY <2>1, <2>2, StreamAssumption DEF IsAscending
<1> DEFINE s == Recent
<1>6. \A i \in 1..T : s[i] \in Nat
  BY <1>3
<1>7. \A i \in 2..T : s[i - 1] <= s[i] /\ s[i] - s[i - 1] <= D
  BY <1>5
<1> HIDE DEF s, T, D
<1>8. \A i \in 1..T : s[1] <= s[i] /\ s[i] <= s[T] /\ s[i] <= s[1] + (i - 1) * D
  BY <1>1, <1>6, <1>7, SmallSteps
<1> QED
  BY <1>2, <1>3, <1>4, <1>8 DEF s, T, D

LEMMA AscendingPrefetch ==
    ASSUME history \in Seq(Accessed), IsStream("ascending"),
           InSamePage(Recent[1], Following)
    PROVE  \A i \in DOMAIN Recent :
                /\ Following \div LineSize > Recent[i] \div LineSize
                /\ Following \div PageSize = Recent[i] \div PageSize
<1> DEFINE T == SeqThreshold
           X == (T - 1) * (2 * LineSize - 1)
           first == Recent[1]
           last == Recent[T]
<1>1. /\ T \in Nat \ {0} /\ 1 \in 1..T /\ T \in 1..T
      /\ LineSize \in Nat \ {0} /\ PageSize \in Nat \ {0} /\ AddressSpace \in Nat \ {0}
      /\ Accessed \subseteq 0..(AddressSpace - 1)
  BY StreamAssumption
<1>2. /\ DOMAIN Recent = 1..T /\ Last(history) = last
      /\ \A i \in 1..T :
            /\ Recent[i] \in Accessed /\ Recent[i] \in Nat
            /\ first <= Recent[i] /\ Recent[i] <= last
            /\ Recent[i] <= first + (i - 1) * (2 * LineSize - 1)
  BY AscendingAccesses
<1>3. /\ first \in Nat /\ last \in 0..(AddressSpace - 1) /\ last <= first + X
  BY <1>1, <1>2
<1>4. X \in Nat /\ PageSize + LineSize + X <= AddressSpace
  <2>1. T - 1 \in Nat /\ 2 * LineSize - 1 \in Nat
    BY <1>1
  <2>2. X \in Nat
    BY <2>1
  <2> QED
    BY <2>2, SpaceAssumption
<1>5. Following = (last + LineSize) % AddressSpace
  BY <1>2 DEF Following
<1> HIDE DEF X, first, last, T
<1>6. last + LineSize < AddressSpace
  <2> SUFFICES ASSUME ~(last + LineSize < AddressSpace) PROVE FALSE
    OBVIOUS
  <2> DEFINE w == last + LineSize - AddressSpace
  <2>1. w \in 0..(AddressSpace - 1) /\ last + LineSize = w + AddressSpace
    BY <1>1, <1>3, <1>4
  <2>2. w + PageSize <= first
    BY <1>1, <1>3, <1>4
  <2> HIDE DEF w
  <2>3. Following = w
    <3>1. (w + AddressSpace) % AddressSpace = w
      BY <1>1, <2>1, OnceAround
    <3> QED
      BY <1>5, <2>1, <3>1
  <2>4. (w + PageSize) \div PageSize = w \div PageSize + 1 /\ w \div PageSize \in Nat
    <3>1. w \in Nat
      BY <1>1, <2>1
    <3> QED
      BY <1>1, <3>1, NextUnit
  <2>5. (w + PageSize) \div PageSize <= first \div PageSize
    <3>1. w + PageSize \in Nat
      BY <1>1, <2>1
    <3> QED
      BY <1>1, <1>3, <2>2, <3>1, UnitsOf
  <2>6. first \div PageSize = w \div PageSize
    BY <2>3 DEF InSamePage, first
  <2> QED
    BY <2>4, <2>5, <2>6
<1>7. Following = last + LineSize
  BY <1>1, <1>3, <1>5, <1>6
<1>8. ASSUME NEW i \in 1..T
      PROVE  /\ Following \div LineSize > Recent[i] \div LineSize
             /\ Following \div PageSize = Recent[i] \div PageSize
  <2> DEFINE a == Recent[i]
             b == last + LineSize
  <2>1. /\ a \in Nat /\ last \in Nat /\ b \in Nat
        /\ first <= a /\ a <= last /\ a <= b
    BY <1>1, <1>2, <1>3
  <2> HIDE DEF a
  <2>2. a \div LineSize <= last \div LineSize /\ a \div LineSize \in Nat /\ last \div LineSize \in Nat
    BY <1>1, <2>1, UnitsOf
  <2>3. b \div LineSize = last \div LineSize + 1
    BY <1>1, <2>1, NextUnit
  <2> HIDE DEF b
  <2>4. /\ first \div PageSize <= a \div PageSize /\ a \div PageSize <= b \div PageSize
        /\ first \div PageSize \in Nat /\ a \div PageSize \in Nat /\ b \div PageSize \in Nat
    BY <1>1, <1>3, <2>1, UnitsOf
  <2>5. first \div PageSize = b \div PageSize
    BY <1>7 DEF InSamePage, first, b
  <2> QED
    BY <1>7, <2>2, <2>3, <2>4, <2>5 DEF a, b
<1> QED
  BY <1>2, <1>8 DEF T

------------------------------------------------------------------------------
(* The stream prefetcher *)

\* What FollowsStreams and AscendsWithinPage say of one state: the cache by
\* has run the prefetcher after the accesses h, and loaded fetches.
FollowsIn(h, by, fetches) ==
    LET recent    == SubSeq(h, Len(h) - SeqThreshold + 1, Len(h))
        following == (Last(h) + LineSize) % AddressSpace
    IN  \A order \in Orders :
            (\E prefetch \in fetches : prefetch.order = order)
            <=> /\ by = "L2" \/ (by = "L1D" /\ order = "ascending")
                /\ Len(h) >= SeqThreshold
                /\ \A i \in 2..SeqThreshold : InOrder(order, recent[i], recent[i - 1])
                /\ InSamePage(recent[1], following)

AscendsIn(h, fetches) ==
    LET recent == SubSeq(h, Len(h) - SeqThreshold + 1, Len(h))
    IN  \A prefetch \in fetches :
            prefetch.order = "ascending" =>
                \A i \in DOMAIN recent :
                    /\ prefetch.toFetch \div LineSize > recent[i] \div LineSize
                    /\ prefetch.toFetch \div PageSize = recent[i] \div PageSize

LEMMA FollowsStreamsIs ==
    /\ FollowsStreams <=> FollowsIn(history, ran, loads)
    /\ FollowsStreams' <=> FollowsIn(history', ran', loads')
    /\ AscendsWithinPage <=> AscendsIn(history, loads)
    /\ AscendsWithinPage' <=> AscendsIn(history', loads')
BY DEF FollowsStreams, FollowsIn, AscendsWithinPage, AscendsIn, IsStream, Recent

Fetches == [order : Orders, toFetch : 0..(AddressSpace - 1), seqStart : Accessed]

\* The induction needs to know of the list which nodes it links, in which
\* order: what HoldsLastAccesses says of what the walks reach follows from it.
StreamInv ==
    /\ \E c : HoldsIn(list, c, listSize, history)
    /\ ran \in {"none", "L1D", "L2"}
    /\ loads \subseteq Fetches
    /\ FollowsStreams
    /\ AscendsWithinPage

\* What is loaded is what StreamPrefetch proposes, of streams only.
LEMMA ProposalIs ==
    ASSUME NEW c, HoldsIn(list, c, listSize, history), NEW order \in Orders
    PROVE  LET goes == IsStream(order) /\ InSamePage(Recent[1], Following)
           IN  \A prefetch :
                    prefetch \in StreamPrefetch(order) <=>
                        /\ goes
                        /\ prefetch = [order |-> order, toFetch |-> Following,
                                       seqStart |-> Recent[1]]
BY StreamPrefetchIs

LEMMA RecentIs ==
    ASSUME history \in Seq(Accessed), NEW order \in Orders, IsStream(order)
    PROVE  Recent[1] \in Accessed /\ Following \in 0..(AddressSpace - 1)
<1> DEFINE n == Len(history)
           T == SeqThreshold
<1>1. /\ T \in Nat \ {0} /\ n \in Nat /\ n >= T /\ Accessed \subseteq Nat
      /\ LineSize \in Nat /\ AddressSpace \in Nat \ {0}
  BY StreamAssumption, LenProperties DEF IsStream
<1>2. Recent[1] = history[n - T + 1] /\ n - T + 1 \in 1..n /\ n \in 1..n
  <2> HIDE DEF n, T
  <2>1. n - T + 1 \in 1..n /\ n \in 1..n
    BY <1>1
  <2>2. Recent = SubSeq(history, n - T + 1, n)
    BY DEF Recent, n, T
  <2>3. \A i \in 1..(n - (n - T + 1) + 1) :
            SubSeq(history, n - T + 1, n)[i] = history[(n - T + 1) + i - 1]
    BY <1>1, <2>1, SubSeqProperties DEF n
  <2>4. 1 \in 1..(n - (n - T + 1) + 1) /\ (n - T + 1) + 1 - 1 = n - T + 1
    BY <1>1
  <2> QED
    BY <2>1, <2>2, <2>3, <2>4
<1>3. Recent[1] \in Accessed /\ history[n] \in Accessed
  BY <1>2, ElementOfSeq
<1>4. Last(history) \in Nat
  BY <1>1, <1>3 DEF Last
<1>5. Last(history) + LineSize \in Nat
  BY <1>1, <1>4
<1> DEFINE a == Last(history) + LineSize
<1> HIDE DEF a
<1>6. a % AddressSpace \in 0..(AddressSpace - 1)
  BY <1>1, <1>5 DEF a
<1> QED
  BY <1>3, <1>6 DEF Following, a

LEMMA StreamInitInv == StreamInit => StreamInv
<1> SUFFICES ASSUME StreamInit PROVE StreamInv
  OBVIOUS
<1>1. /\ list = [head |-> NULL, nodes |-> [node \in {} |-> NULL]]
      /\ listSize = 0 /\ ran = "none" /\ loads = {} /\ history = << >>
  BY DEF StreamInit
<1>2. HoldsIn(list, << >>, listSize, history)
  <2>1. /\ list \in Lists(Accessed) /\ Linked(list, << >>)
        /\ Len(<< >>) = 0 /\ ToSet(<< >>) = {} /\ DOMAIN list.nodes = {}
    BY <1>1, EmptyIs
  <2>2. << >> \in Seq(Accessed)
    BY EmptySeq
  <2> QED
    BY <1>1, <2>1, <2>2, StreamAssumption DEF HoldsIn
<1>3. FollowsStreams /\ AscendsWithinPage
  <2>1. Len(history) = 0 /\ SeqThreshold \in Nat \ {0, 1}
    BY <1>1, EmptySeq, StreamAssumption
  <2>2. ~(Len(history) >= SeqThreshold)
    BY <2>1
  <2> QED
    BY <1>1, <2>2 DEF FollowsStreams, AscendsWithinPage, IsStream
<1> QED
  BY <1>1, <1>2, <1>3 DEF StreamInv

LEMMA AddInv ==
    ASSUME StreamInv, NEW adr \in Accessed, Add(adr)
    PROVE  StreamInv'
<1>1. ran' = "none" /\ loads' = {}
  BY DEF Add
<1>2. \E d : HoldsIn(list', d, listSize', history')
  BY AddHolds DEF StreamInv
<1>3. FollowsIn(history', ran', loads') /\ AscendsIn(history', loads')
  BY <1>1 DEF FollowsIn, AscendsIn
<1> QED
  BY <1>1, <1>2, <1>3, FollowsStreamsIs DEF StreamInv

\* A run of the prefetcher that loads fetches for the orders in S.
LEMMA RunInv ==
    ASSUME StreamInv, UNCHANGED <<list, listSize, history>>,
           ran' \in {"L1D", "L2"}, NEW S \in SUBSET Orders,
           \A order \in Orders :
                order \in S <=> ran' = "L2" \/ (ran' = "L1D" /\ order = "ascending"),
           \A prefetch : prefetch \in loads' <=>
                \E order \in S : prefetch \in StreamPrefetch(order)
    PROVE  StreamInv'
<1>1. PICK c : HoldsIn(list, c, listSize, history)
  BY DEF StreamInv
<1>2. \E d : HoldsIn(list', d, listSize', history')
  BY <1>1
<1> DEFINE Goes(order) == IsStream(order) /\ InSamePage(Recent[1], Following)
           Proposed(order) == [order |-> order, toFetch |-> Following,
                               seqStart |-> Recent[1]]
<1>3. \A order \in Orders : \A prefetch :
        prefetch \in StreamPrefetch(order) <=> Goes(order) /\ prefetch = Proposed(order)
  BY <1>1, ProposalIs
<1>4. \A prefetch : prefetch \in loads' <=>
            \E order \in S : Goes(order) /\ prefetch = Proposed(order)
  BY <1>3
<1>5. history \in Seq(Accessed)
  BY <1>1 DEF HoldsIn
<1>6. \A order \in Orders : Goes(order) =>
            Recent[1] \in Accessed /\ Following \in 0..(AddressSpace - 1)
  BY <1>5, RecentIs
<1>7. loads' \subseteq Fetches
  <2> SUFFICES ASSUME NEW prefetch \in loads' PROVE prefetch \in Fetches
    OBVIOUS
  <2>1. PICK order \in S : Goes(order) /\ prefetch = Proposed(order)
    BY <1>4
  <2> QED
    BY <1>6, <2>1 DEF Fetches
<1>8. FollowsIn(history', ran', loads')
  <2>1. ASSUME NEW order \in Orders
        PROVE  (\E prefetch \in loads' : prefetch.order = order)
                <=> order \in S /\ Goes(order)
    <3>1. \A o : Proposed(o).order = o
      OBVIOUS
    <3> HIDE DEF Goes, Proposed
    <3> QED
      BY <1>4, <3>1
  <2>2. FollowsIn(history, ran', loads')
    BY <2>1 DEF FollowsIn, Following, IsStream, Recent
  <2> QED
    BY <2>2
<1>9. AscendsIn(history', loads')
  <2>1. ASSUME NEW prefetch \in loads', prefetch.order = "ascending"
        PROVE  /\ prefetch.toFetch = Following
               /\ IsStream("ascending") /\ InSamePage(Recent[1], Following)
    <3>1. PICK order \in S : Goes(order) /\ prefetch = Proposed(order)
      BY <1>4
    <3>2. order = "ascending" /\ prefetch.toFetch = Following
      BY <2>1, <3>1
    <3> QED
      BY <3>1, <3>2
  <2>2. ASSUME NEW prefetch \in loads', prefetch.order = "ascending"
        PROVE  \A i \in DOMAIN Recent :
                    /\ prefetch.toFetch \div LineSize > Recent[i] \div LineSize
                    /\ prefetch.toFetch \div PageSize = Recent[i] \div PageSize
    BY <1>5, <2>1, <2>2, AscendingPrefetch
  <2>3. AscendsIn(history, loads')
    BY <2>2 DEF AscendsIn, Recent
  <2> QED
    BY <2>3
<1> QED
  BY <1>2, <1>7, <1>8, <1>9, FollowsStreamsIs DEF StreamInv

LEMMA RunL1DPrefetcherInv ==
    ASSUME StreamInv, NEW writePolicy \in WritePolicy, RunL1DPrefetcher(writePolicy)
    PROVE  StreamInv'
<1>1. /\ ran' = "L1D" /\ loads' = StreamPrefetch("ascending")
      /\ UNCHANGED <<list, listSize, history>>
  BY DEF RunL1DPrefetcher
<1> DEFINE S == {"ascending"}
<1>2. S \in SUBSET Orders
  BY DEF Orders
<1>3. \A order \in Orders :
        order \in S <=> ran' = "L2" \/ (ran' = "L1D" /\ order = "ascending")
  BY <1>1
<1>4. \A prefetch : prefetch \in loads' <=>
            \E order \in S : prefetch \in StreamPrefetch(order)
  BY <1>1
<1> HIDE DEF S
<1> QED
  BY <1>1, <1>2, <1>3, <1>4, RunInv

LEMMA RunL2PrefetcherInv ==
    ASSUME StreamInv, RunL2Prefetcher
    PROVE  StreamInv'
<1>1. /\ ran' = "L2"
      /\ loads' = {prefetch \in StreamPrefetch("ascending") \cup StreamPrefetch("descending") :
                        InSamePage(prefetch.toFetch, prefetch.seqStart)}
      /\ UNCHANGED <<list, listSize, history>>
  BY DEF RunL2Prefetcher
<1>2. PICK c : HoldsIn(list, c, listSize, history)
  BY DEF StreamInv
<1>3. ASSUME NEW order \in Orders, NEW prefetch \in StreamPrefetch(order)
      PROVE  InSamePage(prefetch.toFetch, prefetch.seqStart)
  <2>1. /\ InSamePage(Recent[1], Following)
        /\ prefetch = [order |-> order, toFetch |-> Following, seqStart |-> Recent[1]]
    BY <1>2, <1>3, ProposalIs
  <2>2. prefetch.toFetch = Following /\ prefetch.seqStart = Recent[1]
    BY <2>1
  <2> QED
    BY <2>1, <2>2 DEF InSamePage
<1>4. \A order \in Orders :
        order \in Orders <=> ran' = "L2" \/ (ran' = "L1D" /\ order = "ascending")
  BY <1>1
<1>5. \A prefetch : prefetch \in loads' <=>
            \E order \in Orders : prefetch \in StreamPrefetch(order)
  BY <1>1, <1>3 DEF Orders
<1>6. ran' \in {"L1D", "L2"} /\ Orders \in SUBSET Orders
  BY <1>1
<1> QED
  BY <1>1, <1>4, <1>5, <1>6, RunInv

LEMMA StreamInvariance == StreamSpec => []StreamInv
<1>1. StreamInv /\ [StreamNext]_streamVars => StreamInv'
  <2> SUFFICES ASSUME StreamInv, [StreamNext]_streamVars PROVE StreamInv'
    OBVIOUS
  <2>1. ASSUME NEW adr \in Accessed, Add(adr) PROVE StreamInv'
    BY <2>1, AddInv
  <2>2. ASSUME NEW writePolicy \in WritePolicy, RunL1DPrefetcher(writePolicy)
        PROVE  StreamInv'
    BY <2>2, RunL1DPrefetcherInv
  <2>3. CASE RunL2Prefetcher
    BY <2>3, RunL2PrefetcherInv
  <2>4. CASE UNCHANGED streamVars
    <3>1. /\ list' = list /\ listSize' = listSize /\ history' = history
          /\ ran' = ran /\ loads' = loads
      BY <2>4 DEF streamVars
    <3>2. FollowsStreams' /\ AscendsWithinPage'
      BY <3>1, FollowsStreamsIs DEF StreamInv
    <3>3. \E c : HoldsIn(list', c, listSize', history')
      BY <3>1 DEF StreamInv
    <3> QED
      BY <3>1, <3>2, <3>3 DEF StreamInv
  <2> QED
    BY <2>1, <2>2, <2>3, <2>4 DEF StreamNext
<1> QED
  BY <1>1, StreamInitInv, PTL DEF StreamSpec

\* Types of the stream prefetcher: its list never holds more than MaxSize
\* accesses and what it proposes is an address.
THEOREM StreamTypeCorrect == StreamSpec => []StreamTypeOK
<1>1. StreamInv => StreamTypeOK
  <2> SUFFICES ASSUME StreamInv PROVE StreamTypeOK
    OBVIOUS
  <2>1. PICK c : HoldsIn(list, c, listSize, history)
    BY DEF StreamInv
  <2>2. /\ list \in [head : Pointers, nodes : Heap(Accessed)]
        /\ history \in Seq(Accessed) /\ listSize \in Nat /\ listSize <= MaxSize
    BY <2>1, LinkedFacts DEF HoldsIn, Lists
  <2>3. /\ list.head \in Pointers /\ DOMAIN list.nodes \subseteq Nodes
        /\ list.nodes \in [DOMAIN list.nodes -> Cells(Accessed)]
    BY <2>2 DEF Heap
  <2>4. \A node \in DOMAIN list.nodes : list.nodes[node].value \in Accessed
    BY <2>3 DEF Cells
  <2> QED
    BY <2>2, <2>3, <2>4, StreamAssumption DEF StreamTypeOK, StreamInv, Pointers, Fetches
<1> QED
  BY <1>1, StreamInvariance, PTL

\* AccessList holds the last MaxSize accesses, oldest first, on a list that is
\* as good backwards as forwards, after any number of calls of add: no node
\* dangles, none leaks.
THEOREM AccessesAreHeld == StreamSpec => []HoldsLastAccesses
<1>1. StreamInv => HoldsLastAccesses
  <2> SUFFICES ASSUME StreamInv PROVE HoldsLastAccesses
    OBVIOUS
  <2>1. PICK c : HoldsIn(list, c, listSize, history)
    BY DEF StreamInv
  <2>2. /\ Chain(list) = c /\ IsList(list)
        /\ Values(list) = [i \in 1..Len(c) |-> list.nodes[c[i]].value]
    BY <2>1, ChainIs DEF HoldsIn
  <2>3. history = [i \in 1..Len(c) |-> history[i]]
    <3>1. history \in Seq(Accessed) /\ Len(history) = Len(c)
      BY <2>1 DEF HoldsIn
    <3> QED
      BY <3>1, SeqDef
  <2>4. Values(list) = history
    BY <2>1, <2>2, <2>3 DEF HoldsIn
  <2> QED
    BY <2>1, <2>2, <2>4 DEF HoldsIn, HoldsLastAccesses
<1> QED
  BY <1>1, StreamInvariance, PTL

\* The walk by prev finds a stream just when the last SeqThreshold accesses
\* are one, for every length of the list, threshold and line size.
THEOREM StreamsAreFollowed == StreamSpec => []FollowsStreams
<1>1. StreamInv => FollowsStreams
  BY DEF StreamInv
<1> QED
  BY <1>1, StreamInvariance, PTL

\* An ascending prefetch is a line above all of its stream, in the page of all
\* its accesses, although the code looks at the page of the first one only.
THEOREM PrefetchesAscend == StreamSpec => []AscendsWithinPage
<1>1. StreamInv => AscendsWithinPage
  BY DEF StreamInv
<1> QED
  BY <1>1, StreamInvariance, PTL

------------------------------------------------------------------------------
(* The sets of a cache on their lists *)

ListOf(hd, m) == [head |-> hd, nodes |-> m]

\* What the nodes c hold.
LinesAt(m, c) == [i \in 1..Len(c) |-> m[c[i]].value]

\* What DL_FOREACH meets on each list.
TableOf(hd, m) == [t \in LocTags |-> Values(ListOf(hd[t], m))]

\* In the memory m, the set of the lines tb[t] is the list of the nodes cs[t]
\* that begins at hd[t], of the size sz[t]; each node is on one of them.
SetsIn(m, hd, sz, tb, cs) ==
    /\ m \in Heap(Lines)
    /\ hd \in [LocTags -> Pointers]
    /\ sz \in [LocTags -> Nat]
    /\ DOMAIN cs = LocTags /\ cs = [t \in LocTags |-> cs[t]]
    /\ tb = [t \in LocTags |-> LinesAt(m, cs[t])]
    /\ \A t \in LocTags : Linked(ListOf(hd[t], m), cs[t]) /\ sz[t] = Len(cs[t])
    /\ \A x \in DOMAIN m : \E t \in LocTags : x \in ToSet(cs[t])
    /\ \A t, u \in LocTags : t # u => ToSet(cs[t]) \cap ToSet(cs[u]) = {}

\* In the memory r, nodes d stand where the nodes c stood in m; the others are
\* the same.
IsTaken(m, c, r, d) ==
    /\ DOMAIN r = (DOMAIN m \ ToSet(c)) \cup ToSet(d)
    /\ (DOMAIN m \ ToSet(c)) \cap ToSet(d) = {}
    /\ \A x \in DOMAIN m \ ToSet(c) : r[x] = m[x]

\* The set k has the size n now.
IsResized(sz, k, n, sz2) ==
    /\ sz2 \in [LocTags -> Nat] /\ sz2[k] = n
    /\ \A t \in LocTags \ {k} : sz2[t] = sz[t]

\* The list l of the nodes d becomes the set k.
IsPlaced(m, hd, sz, cs, k, l, d, hd2, sz2, tb2) ==
    /\ IsTaken(m, cs[k], l.nodes, d)
    /\ hd2 = [hd EXCEPT ![k] = l.head]
    /\ IsResized(sz, k, Len(d), sz2)
    /\ tb2 = TableOf(hd2, l.nodes)

IsDistinct(c) == \A i, j \in 1..Len(c) : c[i] = c[j] => i = j

LEMMA ListOfIs ==
    ASSUME NEW V, NEW hd \in Pointers, NEW m \in Heap(V)
    PROVE  /\ ListOf(hd, m) \in Lists(V)
           /\ ListOf(hd, m).head = hd /\ ListOf(hd, m).nodes = m
BY DEF ListOf, Lists

\* One set becomes the list l of the nodes d, and l leaves the nodes of the
\* other sets alone.
LEMMA BecomesIs ==
    ASSUME NEW m, NEW hd, NEW sz, NEW tb, NEW cs, SetsIn(m, hd, sz, tb, cs),
           NEW k \in LocTags, NEW l \in Lists(Lines), NEW d, Linked(l, d),
           NEW hd2, NEW sz2, NEW tb2, IsPlaced(m, hd, sz, cs, k, l, d, hd2, sz2, tb2)
    PROVE  /\ SetsIn(l.nodes, hd2, sz2, tb2, [cs EXCEPT ![k] = d])
           /\ tb2 = [tb EXCEPT ![k] = LinesAt(l.nodes, d)]
<1> DEFINE kept == DOMAIN m \ ToSet(cs[k])
           ds == [cs EXCEPT ![k] = d]
           Held(t) == LinesAt(l.nodes, ds[t])
<1>0. /\ DOMAIN l.nodes = kept \cup ToSet(d) /\ kept \cap ToSet(d) = {}
      /\ \A x \in kept : l.nodes[x] = m[x]
      /\ sz2 \in [LocTags -> Nat] /\ sz2[k] = Len(d)
      /\ \A t \in LocTags \ {k} : sz2[t] = sz[t]
      /\ hd2 = [hd EXCEPT ![k] = l.head] /\ tb2 = TableOf(hd2, l.nodes)
  BY DEF IsPlaced, IsTaken, IsResized
<1>1. /\ m \in Heap(Lines) /\ hd \in [LocTags -> Pointers] /\ sz \in [LocTags -> Nat]
      /\ DOMAIN cs = LocTags /\ cs = [t \in LocTags |-> cs[t]]
      /\ tb = [t \in LocTags |-> LinesAt(m, cs[t])]
      /\ \A t \in LocTags : Linked(ListOf(hd[t], m), cs[t]) /\ sz[t] = Len(cs[t])
      /\ \A x \in DOMAIN m : \E t \in LocTags : x \in ToSet(cs[t])
      /\ \A t, u \in LocTags : t # u => ToSet(cs[t]) \cap ToSet(cs[u]) = {}
  BY DEF SetsIn
<1>2. l.nodes \in Heap(Lines) /\ l.head \in Pointers /\ l = ListOf(l.head, l.nodes)
  BY DEF Lists, ListOf
<1>3. /\ hd2 \in [LocTags -> Pointers] /\ hd2[k] = l.head
      /\ \A t \in LocTags \ {k} : hd2[t] = hd[t]
  BY <1>0, <1>1, <1>2
<1>4. /\ DOMAIN ds = LocTags /\ ds = [t \in LocTags |-> ds[t]] /\ ds[k] = d
      /\ \A t \in LocTags \ {k} : ds[t] = cs[t]
  <2>1. ds = [t \in LocTags |-> IF t = k THEN d ELSE cs[t]]
    BY <1>1
  <2> HIDE DEF ds
  <2> QED
    BY <2>1
<1> HIDE DEF ds
<1>5. ASSUME NEW t \in LocTags \ {k}
      PROVE  /\ Linked(ListOf(hd[t], m), cs[t]) /\ DOMAIN cs[t] = 1..Len(cs[t])
             /\ ListOf(hd[t], m) \in Lists(Lines)
             /\ ListOf(hd[t], m).head = hd[t] /\ ListOf(hd[t], m).nodes = m
             /\ ToSet(cs[t]) \subseteq kept
  <2>1. /\ ListOf(hd[t], m) \in Lists(Lines)
        /\ ListOf(hd[t], m).head = hd[t] /\ ListOf(hd[t], m).nodes = m
    BY <1>1, ListOfIs
  <2>2. Linked(ListOf(hd[t], m), cs[t])
    BY <1>1
  <2>3. ToSet(cs[t]) \subseteq DOMAIN m /\ DOMAIN cs[t] = 1..Len(cs[t])
    <3> DEFINE r == ListOf(hd[t], m)
               e == cs[t]
    <3>1. Linked(r, e) /\ r \in Lists(Lines) /\ r.nodes = m
      BY <2>1, <2>2
    <3> HIDE DEF r, e
    <3>2. DOMAIN e = 1..Len(e) /\ \A i \in 1..Len(e) : e[i] \in DOMAIN r.nodes
      BY <3>1, LinkedFacts
    <3> QED
      BY <3>1, <3>2 DEF ToSet, e
  <2>4. ToSet(cs[t]) \cap ToSet(cs[k]) = {}
    BY <1>1
  <2> QED
    BY <2>1, <2>2, <2>3, <2>4
<1>6. ASSUME NEW t \in LocTags
      PROVE  /\ Linked(ListOf(hd2[t], l.nodes), ds[t])
             /\ ListOf(hd2[t], l.nodes) \in Lists(Lines)
             /\ ListOf(hd2[t], l.nodes).head = hd2[t]
             /\ ListOf(hd2[t], l.nodes).nodes = l.nodes
  <2>1. /\ ListOf(hd2[t], l.nodes) \in Lists(Lines)
        /\ ListOf(hd2[t], l.nodes).head = hd2[t]
        /\ ListOf(hd2[t], l.nodes).nodes = l.nodes
    BY <1>2, <1>3, ListOfIs
  <2>2. CASE t = k
    BY <1>2, <1>3, <1>4, <2>1, <2>2
  <2>3. CASE t # k
    <3> DEFINE old == ListOf(hd[t], m)
               r   == ListOf(hd2[t], l.nodes)
    <3>1. /\ Linked(old, cs[t]) /\ old \in Lists(Lines) /\ old.head = hd[t]
          /\ old.nodes = m /\ ToSet(cs[t]) \subseteq kept
      BY <1>5, <2>3
    <3>2. r.head = hd[t] /\ r.nodes = l.nodes
      BY <1>3, <2>1, <2>3
    <3> HIDE DEF old, r
    <3>3. r.head = old.head /\ ToSet(cs[t]) \subseteq DOMAIN r.nodes
          /\ \A x \in ToSet(cs[t]) : r.nodes[x] = old.nodes[x]
      BY <1>0, <3>1, <3>2
    <3>4. Linked(r, cs[t])
      BY <3>1, <3>3, StaysLinked
    <3> QED
      BY <1>4, <2>1, <2>3, <3>4 DEF r
  <2> QED
    BY <2>2, <2>3
<1>7. ASSUME NEW t \in LocTags
      PROVE  Values(ListOf(hd2[t], l.nodes)) = Held(t)
  <2> DEFINE r == ListOf(hd2[t], l.nodes)
             e == ds[t]
  <2>1. Linked(r, e) /\ r \in Lists(Lines) /\ r.nodes = l.nodes
    BY <1>6
  <2> HIDE DEF r, e
  <2>2. Values(r) = [i \in 1..Len(e) |-> r.nodes[e[i]].value]
    BY <2>1, ChainIs
  <2>3. Values(r) = LinesAt(l.nodes, e)
    BY <2>1, <2>2 DEF LinesAt
  <2> QED
    BY <2>3 DEF r, e
<1>8. tb2 = [t \in LocTags |-> Held(t)]
  <2> HIDE DEF Held
  <2> QED
    BY <1>0, <1>7 DEF TableOf
<1>9. tb2 = [tb EXCEPT ![k] = LinesAt(l.nodes, d)]
  <2>1. Held(k) = LinesAt(l.nodes, d)
    BY <1>4
  <2>2. ASSUME NEW t \in LocTags \ {k} PROVE Held(t) = tb[t]
    <3>1. ds[t] = cs[t] /\ tb[t] = LinesAt(m, cs[t])
      BY <1>1, <1>4
    <3>2. \A i \in 1..Len(cs[t]) : cs[t][i] \in kept
      BY <1>5 DEF ToSet
    <3>3. \A i \in 1..Len(cs[t]) : l.nodes[cs[t][i]].value = m[cs[t][i]].value
      BY <1>0, <3>2
    <3> QED
      BY <3>1, <3>3 DEF LinesAt
  <2> HIDE DEF Held
  <2> DEFINE new == LinesAt(l.nodes, d)
  <2>3. DOMAIN tb = LocTags
    BY <1>1
  <2>4. Held(k) = new
    BY <2>1
  <2> HIDE DEF new
  <2>5. [tb EXCEPT ![k] = new] = [t \in LocTags |-> IF t = k THEN new ELSE tb[t]]
    BY <2>3
  <2>6. \A t \in LocTags : Held(t) = IF t = k THEN new ELSE tb[t]
    BY <2>2, <2>4
  <2> QED
    BY <1>8, <2>5, <2>6 DEF new
<1>10. \A x \in DOMAIN l.nodes : \E t \in LocTags : x \in ToSet(ds[t])
  <2> TAKE x \in DOMAIN l.nodes
  <2>1. CASE x \in ToSet(d)
    BY <1>4, <2>1
  <2>2. CASE x \in kept
    <3>1. PICK t \in LocTags : x \in ToSet(cs[t])
      BY <1>1, <2>2
    <3>2. t # k
      BY <2>2, <3>1
    <3> QED
      BY <1>4, <3>1, <3>2
  <2> QED
    BY <1>0, <2>1, <2>2
<1>11. \A t, u \in LocTags : t # u => ToSet(ds[t]) \cap ToSet(ds[u]) = {}
  <2>1. ASSUME NEW t \in LocTags \ {k} PROVE ToSet(ds[t]) \cap ToSet(d) = {}
    BY <1>0, <1>4, <1>5
  <2> QED
    BY <1>1, <1>4, <2>1
<1>12. \A t \in LocTags : sz2[t] = Len(ds[t])
  BY <1>0, <1>1, <1>4
<1>13. SetsIn(l.nodes, hd2, sz2, tb2, ds)
  BY <1>0, <1>2, <1>3, <1>4, <1>6, <1>8, <1>10, <1>11, <1>12 DEF SetsIn
<1> QED
  BY <1>9, <1>13 DEF ds

\* A node of a list can hold something else.
SetValue(l, node, v) == [l EXCEPT !.nodes[node].value = v]

HoldsNow(m, node, v, r) ==
    /\ DOMAIN r = DOMAIN m /\ r[node].value = v
    /\ \A x \in DOMAIN m : x # node => r[x] = m[x]

LEMMA RevaluedIs ==
    ASSUME NEW V, NEW l \in Lists(V), NEW c, Linked(l, c), NEW k \in 1..Len(c),
           NEW v \in V
    PROVE  /\ SetValue(l, c[k], v) \in Lists(V) /\ Linked(SetValue(l, c[k], v), c)
           /\ HoldsNow(l.nodes, c[k], v, SetValue(l, c[k], v).nodes)
<1> DEFINE r    == SetValue(l, c[k], v)
           node == c[k]
           m    == l.nodes
           cell == [m[node] EXCEPT !.value = v]
           mr   == [m EXCEPT ![node] = cell]
<1>1. /\ l \in [head : Pointers, nodes : Heap(V)] /\ node \in DOMAIN m
      /\ DOMAIN m \subseteq Nodes /\ m \in [DOMAIN m -> Cells(V)]
  BY LinkedFacts DEF Lists, Heap
<1>2. m[node] \in Cells(V)
  BY <1>1
<1>3. /\ cell \in Cells(V) /\ cell.value = v
      /\ cell.next = m[node].next /\ cell.prev = m[node].prev
  BY <1>2 DEF Cells
<1>4. r = [l EXCEPT !.nodes = mr]
  BY <1>1 DEF SetValue
<1> HIDE DEF cell, r
<1>5. /\ DOMAIN mr = DOMAIN m /\ mr \in [DOMAIN m -> Cells(V)] /\ mr[node] = cell
      /\ \A x \in DOMAIN m : x # node => mr[x] = m[x]
  BY <1>1, <1>3
<1>6. mr \in Heap(V)
  BY <1>1, <1>5, HeapIs
<1> HIDE DEF mr
<1>7. r \in Lists(V) /\ r.head = l.head /\ r.nodes = mr
  BY <1>1, <1>4, <1>6 DEF Lists
<1>8. \A x \in DOMAIN m : mr[x].next = m[x].next /\ mr[x].prev = m[x].prev
  BY <1>3, <1>5
<1>9. \A i \in 1..Len(c) : c[i] \in DOMAIN m
  BY LinkedFacts
<1>10. Linked(r, c)
  BY <1>5, <1>7, <1>8, <1>9 DEF Linked
<1> QED
  BY <1>3, <1>5, <1>7, <1>10 DEF HoldsNow, r

\* The set of adr, its nodes, its list and where the scan of it stops.
IsSetOf(adr, cs, k, c, l, e) ==
    /\ k = LocTag(Config, adr) /\ c = cs[k] /\ l = Set(k)
    /\ e = EntryOf(table[k], DataTag(Config, adr))

\* The list l of the nodes c holds the set k.
SetIsOn(k, c, l) ==
    /\ k \in LocTags /\ size[k] = Len(c)
    /\ l \in Lists(Lines) /\ Linked(l, c) /\ l.nodes = nodes /\ l.head = head[k]
    /\ table[k] = LinesAt(nodes, c)
    /\ Len(c) \in Nat /\ Len(table[k]) = Len(c) /\ DOMAIN table[k] = 1..Len(c)

\* The loop ends at the node of the entry e.
EntryIs(adr, k, c, e) ==
    /\ e \in 1..Len(c) /\ Entry(adr) = c[e]
    /\ nodes[c[e]].value = table[k][e]

\* What the loop over a set finds on its list is what the scan of a sequence
\* finds: one node at most has the tag.
LEMMA SetFacts ==
    ASSUME IInv, NEW cs, SetsIn(nodes, head, size, table, cs), NEW adr \in Addresses,
           NEW k, NEW c, NEW l, NEW e, IsSetOf(adr, cs, k, c, l, e)
    PROVE  /\ SetIsOn(k, c, l)
           /\ Found(adr) # {} <=> IsCached(Config, table, adr)
           /\ IsCached(Config, table, adr) => EntryIs(adr, k, c, e)
<1> DEFINE dtag == DataTag(Config, adr)
           set  == table[k]
           n    == Len(c)
<1>0. /\ k = LocTag(Config, adr) /\ c = cs[k] /\ l = Set(k)
      /\ e = EntryOf(table[k], DataTag(Config, adr))
  BY DEF IsSetOf
<1>1. /\ nodes \in Heap(Lines) /\ head \in [LocTags -> Pointers]
      /\ table = [t \in LocTags |-> LinesAt(nodes, cs[t])]
      /\ \A t \in LocTags : Linked(ListOf(head[t], nodes), cs[t]) /\ size[t] = Len(cs[t])
  BY DEF SetsIn
<1>2. k \in LocTags
  BY <1>0, AddressProperties DEF LocTags
<1>3. l = ListOf(head[k], nodes) /\ head[k] \in Pointers
  BY <1>0, <1>1, <1>2 DEF Set, ListOf
<1>4. l \in Lists(Lines) /\ l.nodes = nodes /\ l.head = head[k]
  BY <1>1, <1>3, ListOfIs
<1>5. Linked(l, c) /\ size[k] = Len(c)
  BY <1>0, <1>1, <1>2, <1>3
<1>6. set = [i \in 1..n |-> nodes[c[i]].value]
  BY <1>0, <1>1, <1>2 DEF LinesAt
<1>7. Chain(l) = c /\ n \in Nat /\ DOMAIN c = 1..n
  BY <1>4, <1>5, ChainIs, LinkedFacts
<1>8. /\ set \in Seq(Lines) /\ DOMAIN set = 1..Len(set)
      /\ \A i, j \in 1..Len(set) : set[i].tag = set[j].tag => i = j
  BY <1>0, SetProperties DEF IInv
<1> HIDE DEF n, set
<1>9. DOMAIN set = 1..n /\ Len(set) = n
  <2>1. DOMAIN set = 1..n
    BY <1>6
  <2>2. Len(set) \in Nat
    BY <1>8, LenProperties
  <2>3. \A i : i \in 1..Len(set) <=> i \in 1..n
    BY <1>8, <2>1
  <2> DEFINE size1 == Len(set)
  <2> HIDE DEF size1
  <2>4. size1 \in Nat /\ \A i : i \in 1..size1 <=> i \in 1..n
    BY <2>2, <2>3 DEF size1
  <2>5. (n > 0 => n \in 1..n) /\ (size1 > 0 => size1 \in 1..size1)
    BY <1>7, <2>4
  <2>6. size1 = n
    BY <1>7, <2>4, <2>5, SMTT(30)
  <2> QED
    BY <2>1, <2>6 DEF size1
<1>10. Found(adr) = {i \in 1..n : set[i].tag = dtag}
  <2>1. Found(adr) = {i \in DOMAIN c : nodes[c[i]].value.tag = dtag}
    BY <1>0, <1>7 DEF Found
  <2>2. \A i \in 1..n : set[i] = nodes[c[i]].value
    BY <1>6
  <2> QED
    BY <1>7, <2>1, <2>2
<1>11. IsCached(Config, table, adr) <=> \E i \in 1..n : set[i].tag = dtag
  BY <1>0, <1>9 DEF IsCached, SetOf, set
<1>12. Found(adr) # {} <=> IsCached(Config, table, adr)
  BY <1>10, <1>11
<1>13. ASSUME IsCached(Config, table, adr)
       PROVE  e \in 1..n /\ Entry(adr) = c[e] /\ nodes[c[e]].value = set[e]
  <2>1. e \in 1..n /\ set[e].tag = dtag
    BY <1>0, <1>9, <1>11, <1>13, EntryOfProperties DEF set
  <2>2. Found(adr) = {e}
    BY <1>8, <1>9, <1>10, <2>1
  <2>3. Min({e}) = e
    <3>1. \A x \in {e} : x = e /\ \A y \in {e} : x <= y
      BY <1>7, <2>1
    <3> QED
      BY <3>1 DEF Min
  <2>4. Entry(adr) = c[e]
    BY <1>0, <1>7, <2>2, <2>3 DEF Entry
  <2> QED
    BY <1>6, <2>1, <2>4
<1> QED
  BY <1>2, <1>4, <1>5, <1>6, <1>7, <1>9, <1>12, <1>13 DEF SetIsOn, EntryIs, LinesAt, n, set

\* r is s without its entry i, and with x at the end.
IsReplaced(s, i, x, r) ==
    /\ Len(r) = Len(s) /\ r[Len(s)] = x
    /\ \A j \in 1..(Len(s) - 1) : r[j] = IF j < i THEN s[j] ELSE s[j + 1]
    /\ ToSet(r) = ToSet(RemoveAt(s, i)) \cup {x}

LEMMA EntryMoved ==
    ASSUME NEW S, NEW s \in Seq(S), NEW i \in 1..Len(s), NEW x \in S
    PROVE  /\ Append(RemoveAt(s, i), x) \in Seq(S)
           /\ IsReplaced(s, i, x, Append(RemoveAt(s, i), x))
<1> DEFINE rest == RemoveAt(s, i)
           r == Append(rest, x)
<1>1. /\ rest \in Seq(S) /\ Len(rest) = Len(s) - 1 /\ Len(s) \in Nat
      /\ \A j \in 1..(Len(s) - 1) : rest[j] = IF j < i THEN s[j] ELSE s[j + 1]
  BY RemoveAtProperties, LenProperties
<1> HIDE DEF rest
<1>2. /\ Append(rest, x) \in Seq(S) /\ Len(Append(rest, x)) = Len(rest) + 1
      /\ Append(rest, x)[Len(rest) + 1] = x
      /\ \A j \in 1..Len(rest) : Append(rest, x)[j] = rest[j]
  BY <1>1, AppendProperties
<1>3. ToSet(Append(rest, x)) = ToSet(rest) \cup {x}
  BY <1>1, AppendedLines
<1>4. Len(rest) + 1 = Len(s) /\ Len(rest) = Len(s) - 1
  BY <1>1
<1>5. IsReplaced(s, i, x, r)
  BY <1>1, <1>2, <1>3, <1>4 DEF IsReplaced, rest
<1> QED
  BY <1>2, <1>5 DEF rest

\* d are the nodes c with the node of the entry e at the end.
IsToEnd(c, e, d) == d = Append(RemoveAt(c, e), c[e])

\* The nodes c hold the lines set, but the entry e holds v.
IsRevalued(f, c, e, v, set) ==
    \A i \in 1..Len(c) : f[c[i]].value = IF i = e THEN v ELSE set[i]

\* When the node of an entry moves to the end of c and holds v then, the lines
\* of the set do what MoveToEnd says.
LEMMA MovedLines ==
    ASSUME NEW M, NEW c \in Seq(M), NEW set \in Seq(Lines), Len(set) = Len(c),
           IsDistinct(c), NEW e \in 1..Len(c), NEW v \in Lines, NEW f,
           IsRevalued(f, c, e, v, set), NEW d, IsToEnd(c, e, d)
    PROVE  /\ Len(d) = Len(c)
           /\ MoveToEnd(set, e, v) = LinesAt(f, d)
<1> DEFINE n   == Len(c)
           new == Append(RemoveAt(set, e), v)
<1>1. n \in Nat /\ e \in 1..n /\ c[e] \in M /\ e \in 1..Len(set)
  BY LenProperties, ElementOfSeq
<1>2. /\ Len(d) = n /\ d[n] = c[e]
      /\ \A j \in 1..(n - 1) : d[j] = IF j < e THEN c[j] ELSE c[j + 1]
  <2>1. IsReplaced(c, e, c[e], d)
    BY <1>1, EntryMoved DEF IsToEnd
  <2> QED
    BY <2>1 DEF IsReplaced
<1>3. /\ new \in Seq(Lines) /\ Len(new) = Len(set) /\ new[Len(set)] = v
      /\ \A j \in 1..(Len(set) - 1) : new[j] = IF j < e THEN set[j] ELSE set[j + 1]
  <2>1. new \in Seq(Lines) /\ IsReplaced(set, e, v, new)
    BY <1>1, EntryMoved
  <2> QED
    BY <2>1 DEF IsReplaced
<1> HIDE DEF n, new
<1>4. \A i \in 1..n : f[d[i]].value = new[i]
  <2> TAKE i \in 1..n
  <2>1. Len(set) = n /\ \A j \in 1..n : f[c[j]].value = IF j = e THEN v ELSE set[j]
    BY DEF IsRevalued, n
  <2>2. CASE i = n
    BY <1>1, <1>2, <1>3, <2>1, <2>2
  <2>3. CASE i # n
    <3> DEFINE j == IF i < e THEN i ELSE i + 1
    <3>1. i \in 1..(n - 1) /\ j \in 1..n /\ j # e
      BY <1>1, <2>3
    <3>2. d[i] = c[j] /\ new[i] = set[j]
      BY <1>2, <1>3, <2>1, <3>1
    <3> HIDE DEF j
    <3> QED
      BY <2>1, <3>1, <3>2
  <2> QED
    BY <2>2, <2>3
<1>5. Len(new) = n /\ new = [i \in 1..n |-> new[i]]
  <2>1. Len(new) = n
    BY <1>3 DEF n
  <2> QED
    BY <1>3, <2>1, SeqDef
<1>6. new = [i \in 1..n |-> f[d[i]].value]
  BY <1>4, <1>5
<1> QED
  BY <1>2, <1>6 DEF LinesAt, MoveToEnd, n, new

LEMMA RemovedNodes ==
    ASSUME NEW S, NEW c \in Seq(S), NEW e \in 1..Len(c), IsDistinct(c)
    PROVE  ToSet(RemoveAt(c, e)) = ToSet(c) \ {c[e]}
<1>1. Len(c) \in Nat /\ DOMAIN c = 1..Len(c)
  BY LenProperties
<1>2. /\ RemoveAt(c, e) \in Seq(S) /\ Len(RemoveAt(c, e)) = Len(c) - 1
      /\ \A j \in 1..(Len(c) - 1) : RemoveAt(c, e)[j] = IF j < e THEN c[j] ELSE c[j + 1]
  BY RemoveAtProperties
<1>3. DOMAIN RemoveAt(c, e) = 1..(Len(c) - 1)
  BY <1>2, LenProperties
<1> DEFINE n == Len(c)
           r == RemoveAt(c, e)
<1> HIDE DEF n, r
<1>4. /\ n \in Nat /\ DOMAIN c = 1..n /\ e \in 1..n /\ DOMAIN r = 1..(n - 1)
      /\ \A j \in 1..(n - 1) : r[j] = IF j < e THEN c[j] ELSE c[j + 1]
      /\ \A i, j \in 1..n : c[i] = c[j] => i = j
  BY <1>1, <1>2, <1>3 DEF IsDistinct, n, r
<1>5. ASSUME NEW j \in 1..(n - 1) PROVE r[j] \in ToSet(c) \ {c[e]}
  <2>1. j \in 1..n /\ j + 1 \in 1..n
    BY <1>4
  <2>2. CASE j < e
    BY <1>4, <2>1, <2>2 DEF ToSet
  <2>3. CASE ~(j < e)
    <3>1. r[j] = c[j + 1] /\ j + 1 # e
      BY <1>4, <2>3
    <3> QED
      BY <1>4, <2>1, <3>1 DEF ToSet
  <2> QED
    BY <2>2, <2>3
<1>6. ASSUME NEW i \in 1..n, i # e PROVE c[i] \in ToSet(r)
  <2>1. CASE i < e
    <3>1. i \in 1..(n - 1) /\ r[i] = c[i]
      BY <1>4, <2>1
    <3> QED
      BY <1>4, <3>1 DEF ToSet
  <2>2. CASE i > e
    <3>1. i - 1 \in 1..(n - 1) /\ r[i - 1] = c[i]
      BY <1>4, <2>2
    <3> QED
      BY <1>4, <3>1 DEF ToSet
  <2> QED
    BY <1>4, <1>6, <2>1, <2>2
<1>7. ToSet(r) = ToSet(c) \ {c[e]}
  <2>1. \A x \in ToSet(r) : x \in ToSet(c) \ {c[e]}
    BY <1>4, <1>5 DEF ToSet
  <2>2. \A x \in ToSet(c) \ {c[e]} : x \in ToSet(r)
    <3> TAKE x \in ToSet(c) \ {c[e]}
    <3>1. PICK i \in 1..n : x = c[i]
      BY <1>4 DEF ToSet
    <3> QED
      BY <1>6, <3>1
  <2> QED
    BY <2>1, <2>2
<1> QED
  BY <1>7 DEF r

\* The node of a hit, holding the line v now, goes to the end of its list: the
\* set is what MoveToEnd makes of it.
LEMMA HitBecomes ==
    ASSUME IInv, NEW cs, SetsIn(nodes, head, size, table, cs), NEW adr \in Addresses,
           IsCached(Config, table, adr),
           NEW k, NEW c, NEW e, IsSetOf(adr, cs, k, c, Set(k), e), NEW v \in Lines,
           NEW l \in Lists(Lines), Linked(l, c), DOMAIN l.nodes = DOMAIN nodes,
           l.nodes[c[e]].value = v,
           \A x \in DOMAIN nodes : x # c[e] => l.nodes[x] = nodes[x],
           Becomes(adr, Moved(l, c[e])), size' = size
    PROVE  /\ table' = [table EXCEPT ![k] = MoveToEnd(table[k], e, v)]
           /\ \E ds : SetsIn(nodes', head', size', table', ds)
<1> DEFINE n    == Len(c)
           set  == table[k]
           r    == Moved(l, c[e])
           d    == Append(RemoveAt(c, e), c[e])
           ds   == [cs EXCEPT ![k] = d]
<1>1. /\ k \in LocTags /\ size[k] = n /\ n \in Nat
      /\ set = [i \in 1..n |-> nodes[c[i]].value] /\ Len(set) = n
      /\ e \in 1..n /\ nodes[c[e]].value = set[e]
  <2>1. SetIsOn(k, c, Set(k)) /\ EntryIs(adr, k, c, e)
    BY SetFacts
  <2> QED
    BY <2>1 DEF SetIsOn, EntryIs, LinesAt
<1>0. k = LocTag(Config, adr) /\ c = cs[k]
  BY DEF IsSetOf
<1>2. /\ c \in Seq(DOMAIN nodes) /\ DOMAIN c = 1..n
      /\ \A i, j \in 1..n : c[i] = c[j] => i = j
      /\ \A i \in 1..n : c[i] \in DOMAIN nodes
      /\ IsDistinct(c) /\ e \in 1..Len(c)
  <2>1. DOMAIN c = 1..n /\ \A i \in 1..n : c[i] \in DOMAIN l.nodes
    BY LinkedFacts
  <2> QED
    BY <1>1, <2>1 DEF IsDistinct, Linked
<1>3. r \in Lists(Lines) /\ Linked(r, d) /\ Touched(l.nodes, r.nodes, ToSet(c))
  BY <1>1, MovedIs
<1>4. ToSet(d) = ToSet(c) /\ \A i \in 1..n : c[i] \in ToSet(c)
  <2>1. ToSet(RemoveAt(c, e)) = ToSet(c) \ {c[e]}
    BY <1>2, RemovedNodes
  <2>2. ToSet(d) = ToSet(RemoveAt(c, e)) \cup {c[e]}
    <3>1. c[e] \in DOMAIN nodes /\ e \in 1..Len(c)
      BY <1>1, <1>2
    <3>2. IsReplaced(c, e, c[e], d)
      BY <1>2, <3>1, EntryMoved
    <3> QED
      BY <3>2 DEF IsReplaced
  <2>3. \A i \in 1..n : c[i] \in ToSet(c)
    BY <1>2 DEF ToSet
  <2> QED
    BY <1>2, <2>1, <2>2, <2>3
<1>5. set \in Seq(Lines)
  BY <1>0, SetProperties DEF IInv
<1>6. \A i \in 1..n : set[i] = nodes[c[i]].value
  BY <1>1
<1> HIDE DEF n, set, r, d
<1>7. \A i \in 1..n : r.nodes[c[i]].value = IF i = e THEN v ELSE set[i]
  <2> TAKE i \in 1..n
  <2>1. c[i] \in DOMAIN l.nodes /\ c[i] \in DOMAIN nodes
    BY <1>2
  <2>2. r.nodes[c[i]].value = l.nodes[c[i]].value
    BY <1>3, <2>1 DEF Touched
  <2>3. i # e => l.nodes[c[i]] = nodes[c[i]]
    BY <1>1, <1>2, <2>1
  <2> QED
    BY <1>6, <2>2, <2>3
<1>8. Len(d) = n /\ MoveToEnd(set, e, v) = LinesAt(r.nodes, d)
  <2> DEFINE f == r.nodes
             M == DOMAIN nodes
  <2>1. /\ c \in Seq(M) /\ Len(set) = Len(c) /\ e \in 1..Len(c)
        /\ IsDistinct(c)
        /\ IsRevalued(f, c, e, v, set) /\ IsToEnd(c, e, d)
    BY <1>1, <1>2, <1>7 DEF IsRevalued, IsToEnd, n, d
  <2> HIDE DEF f, M
  <2>2. Len(d) = Len(c) /\ MoveToEnd(set, e, v) = LinesAt(f, d)
    BY ONLY <1>5, <2>1, v \in Lines, MovedLines
  <2> QED
    BY <2>2 DEF f, n
<1>9. IsTaken(nodes, c, r.nodes, d)
  <2>1. ToSet(c) \subseteq DOMAIN nodes
    BY <1>2 DEF ToSet
  <2>2. DOMAIN r.nodes = DOMAIN nodes
    BY <1>3 DEF Touched
  <2>3. ASSUME NEW x \in DOMAIN nodes \ ToSet(c) PROVE r.nodes[x] = nodes[x]
    <3>1. x \in DOMAIN l.nodes /\ x \notin ToSet(c) /\ x # c[e]
      BY <1>1, <1>4
    <3> QED
      BY <1>3, <3>1 DEF Touched
  <2> QED
    BY <1>4, <2>1, <2>2, <2>3 DEF IsTaken
<1>10. /\ nodes' = r.nodes /\ head' = [head EXCEPT ![k] = r.head]
       /\ table' = TableOf(head', r.nodes)
  BY <1>0 DEF Becomes, ListOf, TableOf, r
<1>11. IsResized(size, k, Len(d), size')
  BY <1>1, <1>8 DEF SetsIn, n, IsResized
<1>12. IsPlaced(nodes, head, size, cs, k, r, d, head', size', table')
  BY <1>0, <1>9, <1>10, <1>11 DEF IsPlaced
<1>13. /\ SetsIn(r.nodes, head', size', table', ds)
       /\ table' = [table EXCEPT ![k] = LinesAt(r.nodes, d)]
  BY <1>0, <1>1, <1>3, <1>12, BecomesIs
<1>14. table' = [table EXCEPT ![k] = MoveToEnd(set, e, v)]
  BY <1>8, <1>13
<1> QED
  BY <1>10, <1>13, <1>14 DEF set

------------------------------------------------------------------------------
(* What read and write do to the lists is what they do to the sequences *)

\* The lists say what the table says.
Represents == \E cs : SetsIn(nodes, head, size, table, cs)

LEMMA LinkedReadHitIs ==
    ASSUME IInv, Represents, NEW adr \in Addresses, LinkedReadHit(adr)
    PROVE  ReadHit(adr) /\ Represents'
<1> DEFINE k   == LocTag(Config, adr)
           set == table[k]
           e   == EntryOf(set, DataTag(Config, adr))
           l   == Set(k)
<1>1. PICK cs : SetsIn(nodes, head, size, table, cs)
  BY DEF Represents
<1> DEFINE c == cs[k]
<1>2. /\ k = LocTag(Config, adr) /\ set = table[k] /\ l = Set(k)
      /\ e = EntryOf(table[k], DataTag(Config, adr)) /\ IsSetOf(adr, cs, k, c, l, e)
  BY DEF IsSetOf
<1> HIDE DEF k, set, l, c, e
<1>3. /\ k \in LocTags /\ l \in Lists(Lines) /\ Linked(l, c) /\ l.nodes = nodes
      /\ Len(set) = Len(c) /\ IsCached(Config, table, adr)
      /\ e \in 1..Len(set) /\ Entry(adr) = c[e] /\ nodes[c[e]].value = set[e]
  <2>1. Found(adr) # {}
    BY DEF LinkedReadHit
  <2>2. IsCached(Config, table, adr)
    BY <1>1, <1>2, <2>1, SetFacts
  <2>3. SetIsOn(k, c, l) /\ EntryIs(adr, k, c, e)
    BY <1>1, <1>2, <2>2, SetFacts
  <2> QED
    BY <1>2, <2>2, <2>3 DEF SetIsOn, EntryIs
<1>4. set \in Seq(Lines) /\ set[e] \in Lines
  BY <1>2, <1>3, SetProperties DEF IInv
<1>5. Becomes(adr, Moved(l, c[e])) /\ size' = size /\ returned' = {set[e]} /\ Use(adr)
  BY <1>2, <1>3 DEF LinkedReadHit
<1>6. /\ table' = [table EXCEPT ![k] = MoveToEnd(set, e, set[e])]
      /\ \E ds : SetsIn(nodes', head', size', table', ds)
  <2>1. /\ l.nodes[c[e]].value = set[e]
        /\ \A x \in DOMAIN nodes : x # c[e] => l.nodes[x] = nodes[x]
    BY <1>3
  <2> QED
    BY <1>1, <1>2, <1>3, <1>4, <1>5, <2>1, HitBecomes
<1>7. Last(table'[k]) = set[e]
  <2> DEFINE new == MoveToEnd(set, e, set[e])
  <2>1. IsReplaced(set, e, set[e], new)
    BY <1>3, <1>4, EntryMoved DEF MoveToEnd
  <2> HIDE DEF new
  <2>2. Last(new) = set[e]
    BY <2>1 DEF IsReplaced, Last
  <2>3. table'[k] = new
    BY <1>3, <1>6 DEF IInv, TypeOK, LocTags, new
  <2> QED
    BY <2>2, <2>3
<1>8. ReadHit(adr)
  BY <1>2, <1>3, <1>5, <1>6, <1>7 DEF ReadHit, Read, SetOf
<1> QED
  BY <1>6, <1>8 DEF Represents

LEMMA LinkedReadMissIs ==
    ASSUME IInv, Represents, NEW adr \in Addresses, LinkedReadMiss(adr)
    PROVE  ReadMiss(adr) /\ Represents'
<1> DEFINE k == LocTag(Config, adr)
           e == EntryOf(table[k], DataTag(Config, adr))
<1>1. PICK cs : SetsIn(nodes, head, size, table, cs)
  BY DEF Represents
<1>2. IsSetOf(adr, cs, k, cs[k], Set(k), e)
  BY DEF IsSetOf
<1> HIDE DEF k, e
<1>3. ~IsCached(Config, table, adr)
  BY <1>1, <1>2, SetFacts DEF LinkedReadMiss
<1>4. ReadMiss(adr)
  BY <1>3 DEF LinkedReadMiss, ReadMiss, Read
<1> QED
  BY <1>1, <1>4 DEF LinkedReadMiss, Represents

\* A line that is marked as dirty stands for the same store.
LEMMA RewrittenIs ==
    ASSUME NEW line \in Lines
    PROVE  /\ SetEntryInvalid(line) \in Lines
           /\ [SetEntryInvalid(line) EXCEPT !.data = 0] = SetEntryInvalid(line)
<1>1. line \in [tag : Tags, invalid : BOOLEAN, evacuated : BOOLEAN, data : {0}]
  BY DEF Lines, CacheLine
<1> DEFINE dirty == [line EXCEPT !.invalid = TRUE]
<1>2. dirty \in [tag : Tags, invalid : BOOLEAN, evacuated : BOOLEAN, data : {0}]
  BY <1>1
<1>3. dirty.data = 0
  BY <1>2
<1> HIDE DEF dirty
<1>4. [dirty EXCEPT !.data = 0] = dirty
  BY <1>2, <1>3
<1> QED
  BY <1>2, <1>4 DEF Lines, CacheLine, SetEntryInvalid, dirty

LEMMA LinkedWriteHitIs ==
    ASSUME IInv, Represents, NEW adr \in Addresses, LinkedWriteHit(adr)
    PROVE  WriteLine(adr) /\ Represents'
<1> DEFINE k    == LocTag(Config, adr)
           set  == table[k]
           e    == EntryOf(set, DataTag(Config, adr))
           old  == Set(k)
           line == SetEntryInvalid(set[e])
<1>1. PICK cs : SetsIn(nodes, head, size, table, cs)
  BY DEF Represents
<1> DEFINE c == cs[k]
           l == SetValue(old, c[e], line)
<1>2. /\ k = LocTag(Config, adr) /\ set = table[k] /\ old = Set(k)
      /\ e = EntryOf(table[k], DataTag(Config, adr))
      /\ IsSetOf(adr, cs, k, c, old, e)
  BY DEF IsSetOf
<1> HIDE DEF k, set, old, c, e
<1>3. /\ k \in LocTags /\ old \in Lists(Lines) /\ Linked(old, c) /\ old.nodes = nodes
      /\ Len(set) = Len(c) /\ IsCached(Config, table, adr)
      /\ e \in 1..Len(set) /\ Entry(adr) = c[e] /\ nodes[c[e]].value = set[e]
  <2>1. Found(adr) # {}
    BY DEF LinkedWriteHit
  <2>2. IsCached(Config, table, adr)
    BY <1>1, <1>2, <2>1, SetFacts
  <2>3. SetIsOn(k, c, old) /\ EntryIs(adr, k, c, e)
    BY <1>1, <1>2, <2>2, SetFacts
  <2> QED
    BY <1>2, <2>2, <2>3 DEF SetIsOn, EntryIs
<1>4. set \in Seq(Lines) /\ set[e] \in Lines
  BY <1>2, <1>3, SetProperties DEF IInv
<1>5. line \in Lines /\ [line EXCEPT !.data = 0] = line
  BY <1>4, RewrittenIs
<1>6. Becomes(adr, Moved(l, c[e])) /\ size' = size /\ returned' = {line} /\ Use(adr)
  BY <1>2, <1>3 DEF LinkedWriteHit, SetValue
<1>7. /\ l \in Lists(Lines) /\ Linked(l, c) /\ DOMAIN l.nodes = DOMAIN nodes
      /\ l.nodes[c[e]].value = line
      /\ \A x \in DOMAIN nodes : x # c[e] => l.nodes[x] = nodes[x]
  <2> HIDE DEF line
  <2>1. e \in 1..Len(c)
    BY <1>3
  <2>2. /\ l \in Lists(Lines) /\ Linked(l, c)
        /\ HoldsNow(old.nodes, c[e], line, l.nodes)
    BY <1>3, <1>5, <2>1, RevaluedIs
  <2> QED
    BY <1>3, <2>2 DEF HoldsNow
<1> HIDE DEF l
<1>8. /\ table' = [table EXCEPT ![k] = MoveToEnd(set, e, line)]
      /\ \E ds : SetsIn(nodes', head', size', table', ds)
  <2> HIDE DEF line
  <2>1. IsSetOf(adr, cs, k, c, Set(k), e)
    BY <1>2
  <2> QED
    BY <1>1, <1>2, <1>3, <1>5, <1>6, <1>7, <2>1, HitBecomes
<1>9. WriteLine(adr)
  <2>1. Write(Config, table, adr, 0).table = [table EXCEPT ![k] = MoveToEnd(set, e, line)]
    BY <1>2, <1>3, <1>5 DEF Write, SetOf
  <2>2. Write(Config, table, adr, 0).line = {line}
    BY <1>2, <1>3, <1>5 DEF Write, SetOf
  <2> HIDE DEF line
  <2> QED
    BY <1>6, <1>8, <2>1, <2>2 DEF WriteLine
<1> QED
  BY <1>8, <1>9 DEF Represents

LEMMA AppendedLinesAt ==
    ASSUME NEW l \in Lists(Lines), NEW c, Linked(l, c), NEW r \in Lists(Lines),
           NEW node, Linked(r, Append(c, node)), Len(Append(c, node)) = Len(c) + 1,
           \A i \in 1..Len(c) : Append(c, node)[i] = c[i],
           Append(c, node)[Len(c) + 1] = node,
           \A x \in DOMAIN l.nodes : r.nodes[x].value = l.nodes[x].value
    PROVE  LinesAt(r.nodes, Append(c, node)) =
                Append(LinesAt(l.nodes, c), r.nodes[node].value)
<1> DEFINE d    == Append(c, node)
           old  == LinesAt(l.nodes, c)
           n    == Len(c)
           last == r.nodes[node].value
<1>1. /\ n \in Nat /\ \A i \in 1..n : c[i] \in DOMAIN l.nodes
      /\ l.nodes \in [DOMAIN l.nodes -> Cells(Lines)]
  BY LinkedFacts DEF Lists, Heap
<1>2. /\ \A i \in 1..Len(d) : d[i] \in DOMAIN r.nodes
      /\ r.nodes \in [DOMAIN r.nodes -> Cells(Lines)]
  BY LinkedFacts DEF Lists, Heap
<1> HIDE DEF d, n
<1>3. Len(d) = n + 1 /\ d[n + 1] = node /\ \A i \in 1..n : d[i] = c[i]
  BY DEF d, n
<1>4. last \in Lines
  <2>1. n + 1 \in 1..Len(d)
    BY <1>1, <1>3
  <2>2. r.nodes[node] \in Cells(Lines)
    BY <1>2, <1>3, <2>1
  <2> QED
    BY <2>2 DEF Cells
<1>5. \A i \in 1..n : l.nodes[c[i]].value \in Lines
  BY <1>1 DEF Cells
<1>6. old = [i \in 1..n |-> l.nodes[c[i]].value]
  BY DEF LinesAt, n
<1>7. old \in Seq(Lines) /\ Len(old) = n
  <2>1. old \in [1..n -> Lines]
    BY <1>5, <1>6
  <2> HIDE DEF old
  <2> QED
    BY <1>1, <2>1, SeqDef, LenProperties
<1> HIDE DEF old, last
<1>8. /\ Append(old, last) \in Seq(Lines) /\ Len(Append(old, last)) = n + 1
      /\ \A i \in 1..n : Append(old, last)[i] = old[i]
      /\ Append(old, last)[n + 1] = last
  BY <1>4, <1>7, AppendProperties
<1>9. Append(old, last) = [i \in 1..(n + 1) |-> Append(old, last)[i]]
  <2> DEFINE new == Append(old, last)
  <2>1. new \in Seq(Lines) /\ Len(new) = n + 1
    BY <1>8
  <2> HIDE DEF new
  <2>2. new = [i \in 1..(n + 1) |-> new[i]]
    BY <2>1, SeqDef
  <2> QED
    BY <2>2 DEF new
<1>10. \A i \in 1..(n + 1) : Append(old, last)[i] = r.nodes[d[i]].value
  <2> TAKE i \in 1..(n + 1)
  <2>1. CASE i = n + 1
    BY <1>3, <1>8, <2>1 DEF last
  <2>2. CASE i # n + 1
    <3>1. i \in 1..n
      BY <1>1, <2>2
    <3> QED
      BY <1>1, <1>3, <1>6, <1>8, <3>1
  <2> QED
    BY <2>1, <2>2
<1>11. LinesAt(r.nodes, d) = [i \in 1..(n + 1) |-> r.nodes[d[i]].value]
  BY <1>3 DEF LinesAt
<1> QED
  BY <1>9, <1>10, <1>11 DEF d, old, last

\* The list l of the nodes c, where the nodes of the set of adr were, gets a
\* new node with the line of adr and becomes that set.
LEMMA AllocateIs ==
    ASSUME NEW cs, SetsIn(nodes, head, size, table, cs), NEW adr \in Addresses,
           NEW k, k = LocTag(Config, adr),
           NEW l \in Lists(Lines), NEW c, Linked(l, c), IsTaken(nodes, cs[k], l.nodes, c),
           Allocate(adr, l), IsResized(size, k, Len(c) + 1, size')
    PROVE  /\ table' = [table EXCEPT ![k] =
                            Append(LinesAt(l.nodes, c), NewCacheLine(DataTag(Config, adr), 0))]
           /\ \E ds : SetsIn(nodes', head', size', table', ds)
<1> DEFINE fresh == NewCacheLine(DataTag(Config, adr), 0)
<1>1. PICK node \in Nodes \ DOMAIN l.nodes : Becomes(adr, With(l, node, fresh))
  BY DEF Allocate
<1> DEFINE r == With(l, node, fresh)
           d == Append(c, node)
<1>2. fresh \in Lines /\ k \in LocTags
  BY AddressProperties DEF Lines, CacheLine, NewCacheLine, LocTags
<1> HIDE DEF fresh
<1>3. /\ r \in Lists(Lines) /\ Linked(r, d) /\ DOMAIN r.nodes = DOMAIN l.nodes \cup {node}
      /\ r.nodes[node].value = fresh
      /\ \A x \in DOMAIN l.nodes :
            /\ r.nodes[x].value = l.nodes[x].value
            /\ x \notin ToSet(c) => r.nodes[x] = l.nodes[x]
  BY <1>2, WithIs
<1>4. /\ Len(d) = Len(c) + 1 /\ d[Len(c) + 1] = node
      /\ \A i \in 1..Len(c) : d[i] = c[i]
      /\ ToSet(d) = ToSet(c) \cup {node}
  <2>1. c \in Seq(Nodes) /\ node \in Nodes
    <3>1. c \in Seq(DOMAIN l.nodes) /\ \A i \in 1..Len(c) : c[i] \in Nodes
      BY LinkedFacts DEF Linked
    <3>2. Len(c) \in Nat /\ c = [i \in 1..Len(c) |-> c[i]]
      BY <3>1, LenProperties, SeqDef
    <3> QED
      BY <3>1, <3>2, SeqDef
  <2> QED
    BY <2>1, AppendProperties, AppendedLines
<1> HIDE DEF r
<1>5. LinesAt(r.nodes, d) = Append(LinesAt(l.nodes, c), fresh)
  BY <1>3, <1>4, AppendedLinesAt
<1> HIDE DEF d
<1>6. IsTaken(nodes, cs[k], r.nodes, d)
  <2>1. /\ DOMAIN l.nodes = (DOMAIN nodes \ ToSet(cs[k])) \cup ToSet(c)
        /\ (DOMAIN nodes \ ToSet(cs[k])) \cap ToSet(c) = {}
        /\ \A x \in DOMAIN nodes \ ToSet(cs[k]) : l.nodes[x] = nodes[x]
    BY DEF IsTaken
  <2>2. DOMAIN r.nodes = (DOMAIN nodes \ ToSet(cs[k])) \cup ToSet(d)
    BY <1>3, <1>4, <2>1
  <2>3. (DOMAIN nodes \ ToSet(cs[k])) \cap ToSet(d) = {}
    BY <1>1, <1>4, <2>1
  <2>4. \A x \in DOMAIN nodes \ ToSet(cs[k]) : r.nodes[x] = nodes[x]
    BY <1>3, <2>1
  <2> QED
    BY <2>2, <2>3, <2>4 DEF IsTaken
<1>7. /\ nodes' = r.nodes /\ head' = [head EXCEPT ![k] = r.head]
      /\ table' = TableOf(head', r.nodes)
  BY <1>1 DEF Becomes, ListOf, TableOf, r
<1>8. IsPlaced(nodes, head, size, cs, k, r, d, head', size', table')
  BY <1>4, <1>6, <1>7 DEF IsPlaced
<1>9. /\ SetsIn(r.nodes, head', size', table', [cs EXCEPT ![k] = d])
      /\ table' = [table EXCEPT ![k] = LinesAt(r.nodes, d)]
  BY <1>2, <1>3, <1>8, BecomesIs
<1> QED
  BY <1>5, <1>7, <1>9 DEF fresh

LEMMA LinkedAddIs ==
    ASSUME IInv, Represents, NEW adr \in Addresses, LinkedAdd(adr)
    PROVE  WriteLine(adr) /\ Represents'
<1> DEFINE k     == LocTag(Config, adr)
           set   == table[k]
           e     == EntryOf(set, DataTag(Config, adr))
           l     == Set(k)
           fresh == NewCacheLine(DataTag(Config, adr), 0)
<1>1. PICK cs : SetsIn(nodes, head, size, table, cs)
  BY DEF Represents
<1> DEFINE c == cs[k]
<1>2. /\ k = LocTag(Config, adr) /\ set = table[k] /\ l = Set(k) /\ c = cs[k]
      /\ IsSetOf(adr, cs, k, c, l, e)
  BY DEF IsSetOf
<1> HIDE DEF k, set, l, c, e, fresh
<1>3. ~IsCached(Config, table, adr) /\ SetIsOn(k, c, l)
  <2>1. Found(adr) = {}
    BY DEF LinkedAdd
  <2> QED
    BY <1>1, <1>2, <2>1, SetFacts
<1>4. /\ k \in LocTags /\ l \in Lists(Lines) /\ Linked(l, c) /\ l.nodes = nodes
      /\ set = LinesAt(nodes, c) /\ size[k] = Len(c) /\ Len(set) = Len(c)
      /\ Len(c) \in Nat
  BY <1>2, <1>3 DEF SetIsOn
<1>5. ~IsFull(Config, set)
  BY <1>2, <1>4 DEF LinkedAdd, IsSetFull, IsFull
<1>6. IsTaken(nodes, c, l.nodes, c)
  <2>1. ToSet(c) \subseteq DOMAIN l.nodes
    BY <1>4, LinkedFacts DEF ToSet
  <2> QED
    BY <1>4, <2>1 DEF IsTaken
<1>7. IsResized(size, k, Len(c) + 1, size')
  <2>1. size' = [size EXCEPT ![k] = @ + 1] /\ size \in [LocTags -> Nat]
    BY <1>1, <1>2 DEF LinkedAdd, SetsIn
  <2> QED
    BY <1>4, <2>1 DEF IsResized
<1>8. Allocate(adr, l) /\ returned' = {} /\ Use(adr)
  BY <1>2 DEF LinkedAdd
<1>9. /\ table' = [table EXCEPT ![k] = Append(LinesAt(l.nodes, c), fresh)]
      /\ \E ds : SetsIn(nodes', head', size', table', ds)
  BY <1>1, <1>2, <1>4, <1>6, <1>7, <1>8, AllocateIs DEF fresh
<1>10. table' = [table EXCEPT ![k] = Append(set, fresh)]
  BY <1>4, <1>9
<1>11. WriteLine(adr)
  <2>1. Write(Config, table, adr, 0).table = [table EXCEPT ![k] = Append(set, fresh)]
    BY <1>2, <1>3, <1>5 DEF Write, SetOf, fresh
  <2>2. Write(Config, table, adr, 0).line = {}
    BY <1>2, <1>3, <1>5 DEF Write, SetOf
  <2> QED
    BY <1>8, <1>10, <2>1, <2>2 DEF WriteLine
<1> QED
  BY <1>9, <1>11 DEF Represents

\* Without its first node, a list holds what its set holds without the first line.
LEMMA FirstRemoved ==
    ASSUME NEW l \in Lists(Lines), NEW c, Linked(l, c), 1 \in 1..Len(c),
           NEW set \in Seq(Lines), set = LinesAt(l.nodes, c), Len(set) = Len(c),
           NEW r, r = Without(l, c[1])
    PROVE  /\ r \in Lists(Lines) /\ Linked(r, RemoveAt(c, 1))
           /\ IsTaken(l.nodes, c, r.nodes, RemoveAt(c, 1))
           /\ LinesAt(r.nodes, RemoveAt(c, 1)) = RemoveAt(set, 1)
           /\ Len(RemoveAt(c, 1)) = Len(c) - 1
<1> DEFINE d == RemoveAt(c, 1)
           n == Len(c)
           rest == RemoveAt(set, 1)
<1>1. /\ r \in Lists(Lines) /\ Linked(r, d) /\ DOMAIN r.nodes = DOMAIN l.nodes \ {c[1]}
      /\ \A x \in DOMAIN r.nodes :
            /\ r.nodes[x].value = l.nodes[x].value
            /\ x \notin ToSet(c) => r.nodes[x] = l.nodes[x]
  <2> DEFINE i == 1
  <2>1. i \in 1..Len(c) /\ r = Without(l, c[i])
    OBVIOUS
  <2> HIDE DEF i, d
  <2>2. /\ r \in Lists(Lines) /\ Linked(r, RemoveAt(c, i))
        /\ IsDeleted(l.nodes, c, c[i], r.nodes)
    BY <2>1, WithoutIs
  <2> QED
    BY <2>2 DEF IsDeleted, i, d
<1>2. /\ n \in Nat /\ DOMAIN c = 1..n /\ c \in Seq(DOMAIN l.nodes) /\ IsDistinct(c)
      /\ \A i \in 1..n : c[i] \in DOMAIN l.nodes
  BY LinkedFacts DEF Linked, IsDistinct
<1>3. ToSet(d) = ToSet(c) \ {c[1]}
  BY <1>2, RemovedNodes
<1>4. Len(d) = n - 1 /\ \A j \in 1..(n - 1) : d[j] = c[j + 1]
  <2>1. /\ Len(d) = n - 1
        /\ \A j \in 1..(n - 1) : d[j] = IF j < 1 THEN c[j] ELSE c[j + 1]
    BY <1>2, RemoveAtProperties
  <2> HIDE DEF d, n
  <2> QED
    BY <1>2, <2>1
<1>5. /\ rest \in Seq(Lines) /\ Len(rest) = n - 1
      /\ \A j \in 1..(n - 1) : rest[j] = set[j + 1]
  <2>1. /\ rest \in Seq(Lines) /\ Len(rest) = Len(set) - 1
        /\ \A j \in 1..(Len(set) - 1) : rest[j] = IF j < 1 THEN set[j] ELSE set[j + 1]
    BY RemoveAtProperties
  <2> HIDE DEF rest
  <2>2. Len(set) = n
    OBVIOUS
  <2> HIDE DEF n
  <2> QED
    BY <1>2, <2>1, <2>2
<1>6. ToSet(c) \subseteq DOMAIN l.nodes /\ c[1] \in ToSet(c)
  BY <1>2 DEF ToSet
<1> HIDE DEF d, n, rest
<1>7. IsTaken(l.nodes, c, r.nodes, d)
  BY <1>1, <1>3, <1>6 DEF IsTaken
<1>8. rest = [j \in 1..(n - 1) |-> rest[j]]
  BY <1>5, SeqDef
<1>9. \A j \in 1..(n - 1) : rest[j] = r.nodes[d[j]].value
  <2> TAKE j \in 1..(n - 1)
  <2>1. j + 1 \in 1..n /\ j + 1 # 1 /\ 1 \in 1..n
    BY <1>2
  <2>2. d[j] = c[j + 1] /\ rest[j] = l.nodes[c[j + 1]].value
    BY <1>4, <1>5, <2>1 DEF LinesAt, n
  <2>3. c[j + 1] \in DOMAIN l.nodes \ {c[1]}
    BY <1>2, <2>1 DEF IsDistinct, n
  <2> QED
    BY <1>1, <2>2, <2>3
<1>10. LinesAt(r.nodes, d) = rest
  BY <1>4, <1>8, <1>9 DEF LinesAt
<1> QED
  BY <1>1, <1>4, <1>7, <1>10 DEF d, n, rest

LEMMA LinkedReplaceIs ==
    ASSUME IInv, Represents, NEW adr \in Addresses, LinkedReplace(adr)
    PROVE  WriteLine(adr) /\ Represents'
<1> DEFINE k     == LocTag(Config, adr)
           set   == table[k]
           e     == EntryOf(set, DataTag(Config, adr))
           old   == Set(k)
           fresh == NewCacheLine(DataTag(Config, adr), 0)
<1>1. PICK cs : SetsIn(nodes, head, size, table, cs)
  BY DEF Represents
<1> DEFINE c == cs[k]
           l == Without(old, c[1])
           d == RemoveAt(c, 1)
<1>2. /\ k = LocTag(Config, adr) /\ set = table[k] /\ old = Set(k) /\ c = cs[k]
      /\ IsSetOf(adr, cs, k, c, old, e)
  BY DEF IsSetOf
<1> HIDE DEF k, set, old, c, e, fresh, l, d
<1>3. ~IsCached(Config, table, adr) /\ SetIsOn(k, c, old)
  <2>1. Found(adr) = {}
    BY DEF LinkedReplace
  <2> QED
    BY <1>1, <1>2, <2>1, SetFacts
<1>4. /\ k \in LocTags /\ old \in Lists(Lines) /\ Linked(old, c) /\ old.nodes = nodes
      /\ set = LinesAt(nodes, c) /\ size[k] = Len(c) /\ Len(set) = Len(c)
      /\ Len(c) \in Nat
  BY <1>2, <1>3 DEF SetIsOn
<1>5. IsFull(Config, set)
  BY <1>2, <1>4 DEF LinkedReplace, IsSetFull, IsFull
<1>6. 1 \in 1..Len(c) /\ set \in Seq(Lines)
  <2>1. set \in Seq(Lines)
    BY <1>2, SetProperties DEF IInv
  <2>2. Config.setSize \in Nat \ {0}
    BY ConfigAssumption DEF IsCacheConfig
  <2> QED
    BY <1>4, <1>5, <2>1, <2>2 DEF IsFull
<1>7. ToDelete(old) = c[1] /\ nodes[c[1]].value = set[1]
  <2>1. old.head = c[1]
    BY <1>4, <1>6 DEF Linked
  <2> QED
    BY <1>4, <1>6, <2>1 DEF ToDelete, LinesAt
<1>8. /\ l \in Lists(Lines) /\ Linked(l, d) /\ IsTaken(nodes, c, l.nodes, d)
      /\ LinesAt(l.nodes, d) = RemoveAt(set, 1) /\ Len(d) = Len(c) - 1
  <2>1. set = LinesAt(old.nodes, c) /\ l = Without(old, c[1])
    BY <1>4 DEF l
  <2>2. /\ l \in Lists(Lines) /\ Linked(l, RemoveAt(c, 1))
        /\ IsTaken(old.nodes, c, l.nodes, RemoveAt(c, 1))
        /\ LinesAt(l.nodes, RemoveAt(c, 1)) = RemoveAt(set, 1)
        /\ Len(RemoveAt(c, 1)) = Len(c) - 1
    BY <1>4, <1>6, <2>1, FirstRemoved
  <2> QED
    BY <1>4, <2>2 DEF d
<1>9. IsResized(size, k, Len(d) + 1, size')
  <2>1. size' = [size EXCEPT ![k] = (@ - 1) + 1] /\ size \in [LocTags -> Nat]
    BY <1>1, <1>2 DEF LinkedReplace, SetsIn
  <2> QED
    BY <1>4, <1>8, <2>1 DEF IsResized
<1>10. Allocate(adr, l) /\ returned' = {SetEvacuated(set[1])} /\ Use(adr)
  BY <1>2, <1>7 DEF LinkedReplace, l
<1>11. /\ table' = [table EXCEPT ![k] = Append(LinesAt(l.nodes, d), fresh)]
       /\ \E ds : SetsIn(nodes', head', size', table', ds)
  BY <1>1, <1>2, <1>8, <1>9, <1>10, AllocateIs DEF fresh
<1>12. table' = [table EXCEPT ![k] = Append(RemoveAt(set, 1), fresh)]
  BY <1>8, <1>11
<1>13. WriteLine(adr)
  <2>1. Write(Config, table, adr, 0).table =
            [table EXCEPT ![k] = Append(RemoveAt(set, 1), fresh)]
    BY <1>2, <1>3, <1>5 DEF Write, SetOf, Victim, fresh
  <2>2. Write(Config, table, adr, 0).line = {SetEvacuated(set[1])}
    BY <1>2, <1>3, <1>5 DEF Write, SetOf, Victim
  <2> QED
    BY <1>10, <1>12, <2>1, <2>2 DEF WriteLine
<1> QED
  BY <1>11, <1>13 DEF Represents

LEMMA LinkedInitIs == LinkedInit => Init /\ Represents
<1> SUFFICES ASSUME LinkedInit PROVE Init /\ Represents
  OBVIOUS
<1> DEFINE empty == [head |-> NULL, nodes |-> [node \in {} |-> NULL]]
           cs    == [t \in LocTags |-> << >>]
<1>1. /\ empty \in Lists(Lines) /\ Linked(empty, << >>)
      /\ Len(<< >>) = 0 /\ ToSet(<< >>) = {} /\ DOMAIN empty.nodes = {}
  BY EmptyIs
<1>2. /\ nodes = empty.nodes /\ \A t \in LocTags : head[t] = empty.head
      /\ head = [t \in LocTags |-> NULL] /\ size = [t \in LocTags |-> 0]
      /\ table = [t \in LocTags |-> << >>] /\ Init
  BY DEF LinkedInit, Init, EmptyTable, LocTags
<1>3. nodes \in Heap(Lines) /\ head \in [LocTags -> Pointers] /\ size \in [LocTags -> Nat]
  BY <1>1, <1>2 DEF Lists, Pointers
<1>4. \A t \in LocTags : ListOf(head[t], nodes) = empty
  BY <1>2 DEF ListOf
<1>5. DOMAIN cs = LocTags /\ cs = [t \in LocTags |-> cs[t]] /\ \A t \in LocTags : cs[t] = << >>
  OBVIOUS
<1>6. \A t \in LocTags : LinesAt(nodes, cs[t]) = << >>
  <2> TAKE t \in LocTags
  <2>1. LinesAt(nodes, << >>) = [i \in {} |-> nodes[(<< >>)[i]].value]
    BY <1>1 DEF LinesAt
  <2>2. << >> = [i \in {} |-> nodes[(<< >>)[i]].value]
    BY EmptySeq
  <2> QED
    BY <1>5, <2>1, <2>2
<1> HIDE DEF empty, cs
<1>7. table = [t \in LocTags |-> LinesAt(nodes, cs[t])]
  BY <1>2, <1>6
<1>8. \A t \in LocTags : Linked(ListOf(head[t], nodes), cs[t]) /\ size[t] = Len(cs[t])
  BY <1>1, <1>2, <1>4, <1>5
<1>9. /\ \A x \in DOMAIN nodes : \E t \in LocTags : x \in ToSet(cs[t])
      /\ \A t, u \in LocTags : t # u => ToSet(cs[t]) \cap ToSet(cs[u]) = {}
  BY <1>1, <1>2, <1>5
<1>10. SetsIn(nodes, head, size, table, cs)
  BY <1>3, <1>5, <1>7, <1>8, <1>9 DEF SetsIn
<1> QED
  BY <1>2, <1>10 DEF Represents

\* The lists are what the table is, and the table is sorted.
LinkInv == IInv /\ Represents

LEMMA LinkedStep == LinkInv /\ [LinkedNext]_linkedVars => LinkInv' /\ [Next]_vars
<1> SUFFICES ASSUME LinkInv, [LinkedNext]_linkedVars PROVE LinkInv' /\ [Next]_vars
  OBVIOUS
<1>1. IInv /\ Represents
  BY DEF LinkInv
<1>2. CASE LinkedNext
  <2>1. PICK adr \in Addresses :
            \/ LinkedReadHit(adr)
            \/ LinkedReadMiss(adr)
            \/ LinkedWriteHit(adr)
            \/ LinkedAdd(adr)
            \/ LinkedReplace(adr)
    BY <1>2 DEF LinkedNext
  <2>2. CASE LinkedReadHit(adr)
    <3>1. ReadHit(adr) /\ Represents'
      BY <1>1, <2>2, LinkedReadHitIs
    <3> QED
      BY <1>1, <3>1, ReadHitInv DEF LinkInv, Next
  <2>3. CASE LinkedReadMiss(adr)
    <3>1. ReadMiss(adr) /\ Represents'
      BY <1>1, <2>3, LinkedReadMissIs
    <3> QED
      BY <1>1, <3>1, ReadMissInv DEF LinkInv, Next
  <2>4. CASE LinkedWriteHit(adr) \/ LinkedAdd(adr) \/ LinkedReplace(adr)
    <3>1. WriteLine(adr) /\ Represents'
      BY <1>1, <2>4, LinkedWriteHitIs, LinkedAddIs, LinkedReplaceIs
    <3> QED
      BY <1>1, <3>1, WriteLineInv DEF LinkInv, Next
  <2> QED
    BY <2>1, <2>2, <2>3, <2>4
<1>3. CASE UNCHANGED linkedVars
  <2>1. UNCHANGED vars /\ UNCHANGED <<nodes, head, size>>
    BY <1>3 DEF linkedVars
  <2>2. UNCHANGED <<table, returned, clock, lastUse>>
    BY <2>1 DEF vars
  <2>3. IInv'
    BY <1>1, <2>2 DEF IInv, TypeOK, RecencyOrder, KeepsMostRecent, IsCached, SetOf
  <2>4. Represents'
    BY <1>1, <2>1, <2>2 DEF Represents
  <2> QED
    BY <2>1, <2>3, <2>4 DEF LinkInv
<1> QED
  BY <1>2, <1>3

\* SetAccessor on its linked lists does, call by call, what the accessor on
\* sequences does: whatever number of nodes memory has and wherever a new one
\* is put, no list operation changes which line is returned or evicted.
THEOREM ListsImplementSequences == LinkedSpec => ImplementsLru
<1>1. LinkedInit => LinkInv /\ Init
  BY LinkedInitIs, InitInv DEF LinkInv
<1> QED
  BY <1>1, LinkedStep, PTL DEF LinkedSpec, ImplementsLru, Spec

\* In every set the list is as utlist keeps it and as long as its size says,
\* and each node in memory is on one list only: DL_DELETE and DL_APPEND leave
\* no dangling pointer, and read and write neither leak nor share a node.
THEOREM ListsStaySound == LinkedSpec => []ListsAreSound
<1>1. LinkedInit => LinkInv
  BY LinkedInitIs, InitInv DEF LinkInv
<1>2. LinkInv => ListsAreSound
  <2> SUFFICES ASSUME LinkInv PROVE ListsAreSound
    OBVIOUS
  <2>1. PICK cs : SetsIn(nodes, head, size, table, cs)
    BY DEF LinkInv, Represents
  <2> DEFINE chains == [ltag \in LocTags |-> Chain(Set(ltag))]
  <2>2. /\ nodes \in Heap(Lines) /\ head \in [LocTags -> Pointers]
        /\ \A t \in LocTags : Linked(ListOf(head[t], nodes), cs[t]) /\ size[t] = Len(cs[t])
        /\ \A x \in DOMAIN nodes : \E t \in LocTags : x \in ToSet(cs[t])
        /\ \A t, u \in LocTags : t # u => ToSet(cs[t]) \cap ToSet(cs[u]) = {}
    BY <2>1 DEF SetsIn
  <2>3. ASSUME NEW t \in LocTags
        PROVE  Chain(Set(t)) = cs[t] /\ IsList(Set(t)) /\ DOMAIN cs[t] = 1..Len(cs[t])
    <3> DEFINE l == Set(t)
               c == cs[t]
    <3>1. l = ListOf(head[t], nodes) /\ head[t] \in Pointers
      BY <2>2 DEF ListOf, Set
    <3>2. l \in Lists(Lines) /\ Linked(l, c)
      BY <2>2, <3>1, ListOfIs
    <3> HIDE DEF l, c
    <3>3. Chain(l) = c /\ IsList(l) /\ DOMAIN c = 1..Len(c)
      BY <3>2, ChainIs, LinkedFacts
    <3> QED
      BY <3>3 DEF l, c
  <2>4. \A t \in LocTags : chains[t] = cs[t]
    BY <2>3
  <2> HIDE DEF chains
  <2>5. \A t \in LocTags : IsList(Set(t)) /\ size[t] = Len(chains[t])
    BY <2>2, <2>3, <2>4
  <2>6. \A x \in DOMAIN nodes : \E t \in LocTags : Contains(chains[t], x)
    <3> TAKE x \in DOMAIN nodes
    <3>1. PICK t \in LocTags : x \in ToSet(cs[t])
      BY <2>2
    <3>2. \E i \in 1..Len(cs[t]) : cs[t][i] = x
      BY <2>3, <3>1 DEF ToSet
    <3> QED
      BY <2>4, <3>2 DEF Contains
  <2>7. \A t, u \in LocTags : t # u => ToSet(chains[t]) \cap ToSet(chains[u]) = {}
    BY <2>2, <2>4
  <2> QED
    BY <2>5, <2>6, <2>7 DEF ListsAreSound, chains
<1> QED
  BY <1>1, <1>2, LinkedStep, PTL DEF LinkedSpec

=============================================================================
