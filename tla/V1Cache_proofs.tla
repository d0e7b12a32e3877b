--------------------------- MODULE V1Cache_proofs ---------------------------
(***************************************************************************)
(* The caches of version 1, for every configuration of one or two levels:  *)
(* their types, what a line that is not dirty holds, that fully            *)
(* associative caches lose no store, and that without prefetching the      *)
(* order lists never name a line that is not there.                        *)
(*                                                                         *)
(* The operators of V1Cache map a state to a state, so the lemmas are      *)
(* about those: what one write to one set changes, then what a request to  *)
(* the last level changes, then what one to the first level does.          *)
(***************************************************************************)
EXTENDS V1Cache, SetAccessor_proofs, FiniteSetTheorems

------------------------------------------------------------------------------
(* States *)

Lines == CacheLine(Tags, BOOLEAN)

Sets(k) == 0..(Level(k).numberOfSets - 1)

Outcomes == {"running", "exception", "undefined"}

Tables ==
    {t \in [Levels -> UNION {[Sets(k) -> SUBSET Lines] : k \in Levels}] :
        \A k \in Levels : t[k] \in [Sets(k) -> SUBSET Lines]}

Orders ==
    {o \in [Levels -> UNION {[Sets(k) -> Seq(Tags)] : k \in Levels}] :
        \A k \in Levels : o[k] \in [Sets(k) -> Seq(Tags)]}

States == [table : Tables, order : Orders, outcome : Outcomes,
           mem : [Tags -> BOOLEAN]]

\* What a set holds, whatever the order in which it was filled.
IsSet(k, i, set) ==
    /\ IsFiniteSet(set)
    /\ Cardinality(set) <= Level(k).setSize
    /\ set \subseteq Lines
    /\ \A line \in set : Index(k, line.tag) = i /\ ~line.evacuated
    /\ \A one, other \in set : one.tag = other.tag => one = other

Good(s) ==
    /\ s \in States
    /\ \A k \in Levels : \A i \in Sets(k) :
        /\ IsSet(k, i, s.table[k][i])
        /\ Len(s.order[k][i]) <= Level(k).setSize

\* The addresses that are loaded, stored or prefetched.
Asked == {adr \in Nat : Tag(adr) \in Tags}

\* Configurations are as the assumption on the constants says.
LEMMA Configured ==
    ASSUME config \in Configs
    PROVE  /\ config.prefetchTrigger \in BOOLEAN
           /\ Len(config.levels) \in {1, 2}
           /\ Levels = 1..Len(config.levels)
           /\ 1 \in Levels
           /\ Levels \subseteq {1, 2}
           /\ \A k \in Levels :
                /\ Level(k).assoc \in {"SET_ASSOC", "FULL_ASSOC"}
                /\ Level(k).numberOfSets \in Nat \ {0}
                /\ Level(k).setSize \in Nat \ {0}
                /\ Level(k).writePolicy \in WritePolicy
                /\ Level(k).assoc = "FULL_ASSOC" => Sets(k) = {0}
<1>1. /\ config.prefetchTrigger \in BOOLEAN
      /\ Len(config.levels) \in 1..2
      /\ \A k \in 1..Len(config.levels) :
            /\ config.levels[k].assoc \in {"SET_ASSOC", "FULL_ASSOC"}
            /\ config.levels[k].numberOfSets \in Nat \ {0}
            /\ config.levels[k].setSize \in Nat \ {0}
            /\ config.levels[k].writePolicy \in WritePolicy
            /\ config.levels[k].assoc = "FULL_ASSOC" =>
                    config.levels[k].numberOfSets = 1
  BY V1CacheAssumption
<1>2. /\ Levels = 1..Len(config.levels)
      /\ \A k \in Levels : Level(k) = config.levels[k]
  BY DEF Levels, Level
<1>3. Len(config.levels) \in {1, 2} /\ 1 \in Levels /\ Levels \subseteq {1, 2}
  BY <1>1, <1>2
<1>4. \A k \in Levels : Level(k).assoc = "FULL_ASSOC" => Sets(k) = {0}
  <2>1. SUFFICES ASSUME NEW k \in Levels, Level(k).assoc = "FULL_ASSOC"
                 PROVE  Sets(k) = {0}
    OBVIOUS
  <2>2. Level(k).numberOfSets = 1
    BY <1>1, <1>2, <2>1
  <2> QED
    BY <2>2 DEF Sets
<1> QED
  BY <1>1, <1>2, <1>3, <1>4

LEMMA LevelsAre ==
    ASSUME config \in Configs
    PROVE  Levels \in {{1}, {1, 2}}
<1>1. Len(config.levels) \in {1, 2} /\ Levels = 1..Len(config.levels)
  BY Configured
<1>2. 1..1 = {1} /\ 1..2 = {1, 2}
  OBVIOUS
<1>3. CASE Len(config.levels) = 1
  <2>1. Levels = {1}
    BY <1>1, <1>2, <1>3
  <2> QED
    BY <2>1
<1>4. CASE Len(config.levels) = 2
  <2>1. Levels = {1, 2}
    BY <1>1, <1>2, <1>4
  <2> QED
    BY <2>1
<1> QED
  BY <1>1, <1>3, <1>4

\* The least element of a set of levels.
LEMMA LeastLevel ==
    ASSUME config \in Configs, NEW H, H \subseteq Levels, H # {}
    PROVE  Min(H) \in H /\ \A j \in H : Min(H) <= j
<1>1. Levels \subseteq {1, 2}
  BY LevelsAre
<1>2. \E x \in H : \A y \in H : x <= y
  <2>1. CASE 1 \in H
    <3>1. \A y \in H : 1 <= y
      BY <1>1
    <3> QED
      BY <2>1, <3>1
  <2>2. CASE 1 \notin H
    <3>1. H = {2}
      BY <1>1, <2>2
    <3> QED
      BY <3>1
  <2> QED
    BY <2>1, <2>2
<1> QED
  BY <1>2 DEF Min

\* A tag is an address of its own line and falls in the same set.
LEMMA TagOfTag ==
    ASSUME NEW adr \in Nat
    PROVE  /\ Tag(adr) \in Nat
           /\ Tag(Tag(adr)) = Tag(adr)
           /\ Tag(Tag(adr) + LineSize) = Tag(adr) + LineSize
           /\ Tag(adr + LineSize) = Tag(adr) + LineSize
<1>1. LineSize \in Nat \ {0}
  BY V1CacheAssumption
<1> DEFINE t == Tag(adr)
<1>2. t \in Nat /\ t % LineSize = 0 /\ t = adr - (adr % LineSize)
  BY <1>1, DivisionOfMultiple DEF Tag
<1>3. \A a \in Nat : (a + LineSize) % LineSize = a % LineSize
  <2>1. ASSUME NEW a \in Nat
        PROVE  (a + LineSize) % LineSize = a % LineSize
    <3> DEFINE one == 1
    <3>1. one \in Int /\ a \in Int /\ one * LineSize = LineSize
      BY <1>1, <2>1
    <3> HIDE DEF one
    <3>2. (a + one * LineSize) % LineSize = a % LineSize
      BY <1>1, <3>1, RemainderOfSum
    <3> QED
      BY <3>1, <3>2
  <2> QED
    BY <1>1, <2>1
<1>4. adr % LineSize \in Nat
  BY <1>1
<1> HIDE DEF t
<1>5. Tag(t) = t
  <2>1. Tag(t) = t - (t % LineSize)
    BY DEF Tag
  <2> QED
    BY <1>2, <2>1
<1>6. Tag(t + LineSize) = t + LineSize
  <2>1. Tag(t + LineSize) = (t + LineSize) - ((t + LineSize) % LineSize)
    BY DEF Tag
  <2>2. (t + LineSize) % LineSize = t % LineSize
    BY <1>2, <1>3
  <2> QED
    BY <1>1, <1>2, <2>1, <2>2
<1>7. Tag(adr + LineSize) = t + LineSize
  <2>1. Tag(adr + LineSize) = (adr + LineSize) - ((adr + LineSize) % LineSize)
    BY DEF Tag
  <2>2. (adr + LineSize) % LineSize = adr % LineSize
    BY <1>3
  <2> QED
    BY <1>1, <1>2, <1>4, <2>1, <2>2
<1> QED
  BY <1>2, <1>5, <1>6, <1>7 DEF t

LEMMA TagsAreAsked ==
    /\ \A t \in Tags : t \in Asked /\ Tag(t) = t
    /\ \A adr \in Addresses : adr \in Asked /\ adr + LineSize \in Asked
<1>1. Addresses \subseteq Nat /\ LineSize \in Nat
  BY V1CacheAssumption
<1>2. ASSUME NEW t \in Tags
      PROVE  t \in Asked /\ Tag(t) = t
  <2>1. PICK adr \in Addresses : t = Tag(adr) \/ t = Tag(adr) + LineSize
    BY <1>2 DEF Tags
  <2>2. t \in Nat /\ Tag(t) = t
    BY <1>1, <2>1, TagOfTag
  <2> QED
    BY <1>2, <2>2 DEF Asked
<1>3. ASSUME NEW adr \in Addresses
      PROVE  adr \in Asked /\ adr + LineSize \in Asked
  <2>1. Tag(adr) \in Tags /\ Tag(adr) + LineSize \in Tags
    BY <1>3 DEF Tags
  <2>2. Tag(adr + LineSize) = Tag(adr) + LineSize
    BY <1>1, TagOfTag
  <2> QED
    BY <1>1, <2>1, <2>2 DEF Asked
<1> QED
  BY <1>2, <1>3

LEMMA AskedTag ==
    ASSUME NEW adr \in Asked
    PROVE  adr \in Nat /\ Tag(adr) \in Tags /\ Tag(Tag(adr)) = Tag(adr)
BY TagOfTag DEF Asked

LEMMA IndexOfTag ==
    ASSUME config \in Configs, NEW k \in Levels, NEW adr \in Asked
    PROVE  /\ Index(k, adr) \in Sets(k)
           /\ Index(k, Tag(adr)) = Index(k, adr)
<1>1. LineSize \in Nat \ {0} /\ Level(k).numberOfSets \in Nat \ {0} /\ adr \in Nat
  BY V1CacheAssumption, Configured, AskedTag
<1>2. adr \div LineSize \in Nat
  BY <1>1, Z3T(30)
<1>3. ASSUME NEW q \in Nat, NEW n \in Nat \ {0}
      PROVE  q % n \in 0..(n - 1)
  BY <1>3
<1>4. Tag(adr) \div LineSize = adr \div LineSize
  BY <1>1, DivisionOfMultiple DEF Tag
<1> QED
  BY <1>1, <1>2, <1>3, <1>4 DEF Index, Sets

\* A table and an order, entry by entry.
LEMMA TablesAre ==
    ASSUME NEW t \in Tables, NEW k \in Levels, NEW i \in Sets(k),
           NEW set \in SUBSET Lines
    PROVE  /\ t[k][i] \subseteq Lines
           /\ [t EXCEPT ![k][i] = set] \in Tables
           /\ \A j \in Levels : j # k => [t EXCEPT ![k][i] = set][j] = t[j]
           /\ \A j \in Levels : \A l \in Sets(j) :
                [t EXCEPT ![k][i] = set][j][l] =
                    IF j = k /\ l = i THEN set ELSE t[j][l]
<1> DEFINE row == [t[k] EXCEPT ![i] = set]
           U   == UNION {[Sets(j) -> SUBSET Lines] : j \in Levels}
           new == [t EXCEPT ![k] = row]
<1>1. /\ t \in [Levels -> U]
      /\ \A j \in Levels : t[j] \in [Sets(j) -> SUBSET Lines]
  BY DEF Tables
<1>2. /\ row \in [Sets(k) -> SUBSET Lines]
      /\ \A l \in Sets(k) : row[l] = IF l = i THEN set ELSE t[k][l]
  BY <1>1
<1>3. row \in U
  BY <1>2
<1> HIDE DEF U, row
<1>4. /\ new \in [Levels -> U]
      /\ \A j \in Levels : new[j] = IF j = k THEN row ELSE t[j]
  BY <1>1, <1>3
<1>5. [t EXCEPT ![k][i] = set] = new
  BY DEF row
<1> HIDE DEF new
<1>6. new \in Tables
  BY <1>1, <1>2, <1>4 DEF Tables, U
<1> QED
  BY <1>1, <1>2, <1>4, <1>5, <1>6

LEMMA OrdersAre ==
    ASSUME NEW o \in Orders, NEW k \in Levels, NEW i \in Sets(k),
           NEW list \in Seq(Tags)
    PROVE  /\ o[k][i] \in Seq(Tags)
           /\ [o EXCEPT ![k][i] = list] \in Orders
           /\ \A j \in Levels : j # k => [o EXCEPT ![k][i] = list][j] = o[j]
           /\ \A j \in Levels : \A l \in Sets(j) :
                [o EXCEPT ![k][i] = list][j][l] =
                    IF j = k /\ l = i THEN list ELSE o[j][l]
<1> DEFINE row == [o[k] EXCEPT ![i] = list]
           U   == UNION {[Sets(j) -> Seq(Tags)] : j \in Levels}
           new == [o EXCEPT ![k] = row]
<1>1. /\ o \in [Levels -> U]
      /\ \A j \in Levels : o[j] \in [Sets(j) -> Seq(Tags)]
  BY DEF Orders
<1>2. /\ row \in [Sets(k) -> Seq(Tags)]
      /\ \A l \in Sets(k) : row[l] = IF l = i THEN list ELSE o[k][l]
  BY <1>1
<1>3. row \in U
  BY <1>2
<1> HIDE DEF U, row
<1>4. /\ new \in [Levels -> U]
      /\ \A j \in Levels : new[j] = IF j = k THEN row ELSE o[j]
  BY <1>1, <1>3
<1>5. [o EXCEPT ![k][i] = list] = new
  BY DEF row
<1> HIDE DEF new
<1>6. new \in Orders
  BY <1>1, <1>2, <1>4 DEF Orders, U
<1> QED
  BY <1>1, <1>2, <1>4, <1>5, <1>6

LEMMA GoodSet ==
    ASSUME config \in Configs, NEW s, Good(s), NEW k \in Levels, NEW i \in Sets(k)
    PROVE  /\ IsSet(k, i, s.table[k][i])
           /\ s.order[k][i] \in Seq(Tags)
           /\ Len(s.order[k][i]) <= Level(k).setSize
<1>1. s.order \in Orders
  BY DEF Good, States
<1> QED
  BY <1>1, OrdersAre, EmptySeq DEF Good

\* States that differ in a set, in an order list, in memory or in how the
\* program ended.
LEMMA PutSet ==
    ASSUME config \in Configs, NEW s, Good(s), NEW k \in Levels, NEW i \in Sets(k),
           NEW set, IsSet(k, i, set)
    PROVE  LET r == [s EXCEPT !.table[k][i] = set]
           IN  /\ Good(r)
               /\ r.order = s.order /\ r.outcome = s.outcome /\ r.mem = s.mem
               /\ \A j \in Levels : j # k => r.table[j] = s.table[j]
               /\ \A l \in Sets(k) :
                    r.table[k][l] = IF l = i THEN set ELSE s.table[k][l]
<1> DEFINE t == [s.table EXCEPT ![k][i] = set]
           r == [s EXCEPT !.table = t]
<1>1. s \in States /\ s.table \in Tables /\ set \in SUBSET Lines
  BY DEF Good, States, IsSet
<1>2. /\ t \in Tables
      /\ \A j \in Levels : j # k => t[j] = s.table[j]
      /\ \A j \in Levels : \A l \in Sets(j) :
            t[j][l] = IF j = k /\ l = i THEN set ELSE s.table[j][l]
  <2> DEFINE old == s.table
  <2>1. old \in Tables
    BY <1>1
  <2> HIDE DEF old
  <2>2. /\ [old EXCEPT ![k][i] = set] \in Tables
        /\ \A j \in Levels : j # k => [old EXCEPT ![k][i] = set][j] = old[j]
        /\ \A j \in Levels : \A l \in Sets(j) :
              [old EXCEPT ![k][i] = set][j][l] =
                  IF j = k /\ l = i THEN set ELSE old[j][l]
    BY <1>1, <2>1, TablesAre
  <2> QED
    BY <2>2 DEF old
<1> HIDE DEF t
<1>3. /\ r \in States
      /\ r.table = t /\ r.order = s.order /\ r.outcome = s.outcome /\ r.mem = s.mem
  BY <1>1, <1>2 DEF States
<1>4. [s EXCEPT !.table[k][i] = set] = r
  BY DEF t
<1> HIDE DEF r
<1>5. Good(r)
  <2>1. SUFFICES ASSUME NEW j \in Levels, NEW l \in Sets(j)
                 PROVE  /\ IsSet(j, l, r.table[j][l])
                        /\ Len(r.order[j][l]) <= Level(j).setSize
    BY <1>3 DEF Good
  <2>2. IsSet(j, l, s.table[j][l]) /\ Len(s.order[j][l]) <= Level(j).setSize
    BY DEF Good
  <2> QED
    BY <1>2, <1>3, <2>2
<1> QED
  BY <1>2, <1>3, <1>4, <1>5, ZenonT(60)

LEMMA PutList ==
    ASSUME config \in Configs, NEW s, Good(s), NEW k \in Levels, NEW i \in Sets(k),
           NEW list \in Seq(Tags), Len(list) <= Level(k).setSize
    PROVE  LET r == [s EXCEPT !.order[k][i] = list]
           IN  /\ Good(r)
               /\ r.table = s.table /\ r.outcome = s.outcome /\ r.mem = s.mem
               /\ \A j \in Levels : j # k => r.order[j] = s.order[j]
               /\ \A l \in Sets(k) :
                    r.order[k][l] = IF l = i THEN list ELSE s.order[k][l]
<1> DEFINE o == [s.order EXCEPT ![k][i] = list]
           r == [s EXCEPT !.order = o]
<1>1. s \in States /\ s.order \in Orders
  BY DEF Good, States
<1>2. /\ o \in Orders
      /\ \A j \in Levels : j # k => o[j] = s.order[j]
      /\ \A j \in Levels : \A l \in Sets(j) :
            o[j][l] = IF j = k /\ l = i THEN list ELSE s.order[j][l]
  BY <1>1, OrdersAre
<1> HIDE DEF o
<1>3. /\ r \in States
      /\ r.order = o /\ r.table = s.table /\ r.outcome = s.outcome /\ r.mem = s.mem
  BY <1>1, <1>2 DEF States
<1>4. [s EXCEPT !.order[k][i] = list] = r
  BY DEF o
<1> HIDE DEF r
<1>5. Good(r)
  <2>1. SUFFICES ASSUME NEW j \in Levels, NEW l \in Sets(j)
                 PROVE  /\ IsSet(j, l, r.table[j][l])
                        /\ Len(r.order[j][l]) <= Level(j).setSize
    BY <1>3 DEF Good
  <2>2. IsSet(j, l, s.table[j][l]) /\ Len(s.order[j][l]) <= Level(j).setSize
    BY DEF Good
  <2> QED
    BY <1>2, <1>3, <2>2
<1> QED
  BY <1>2, <1>3, <1>4, <1>5, ZenonT(60)

LEMMA PutMem ==
    ASSUME NEW s, Good(s), NEW t \in Tags, NEW d \in BOOLEAN
    PROVE  LET r == [s EXCEPT !.mem[t] = d]
           IN  /\ Good(r)
               /\ r.table = s.table /\ r.order = s.order /\ r.outcome = s.outcome
               /\ \A u \in Tags : r.mem[u] = IF u = t THEN d ELSE s.mem[u]
<1> DEFINE m == [s.mem EXCEPT ![t] = d]
           r == [s EXCEPT !.mem = m]
<1>1. s \in States /\ s.mem \in [Tags -> BOOLEAN]
  BY DEF Good, States
<1>2. /\ m \in [Tags -> BOOLEAN]
      /\ \A u \in Tags : m[u] = IF u = t THEN d ELSE s.mem[u]
  BY <1>1
<1> HIDE DEF m
<1>3. /\ r \in States /\ r.mem = m
      /\ r.table = s.table /\ r.order = s.order /\ r.outcome = s.outcome
  BY <1>1, <1>2 DEF States
<1>4. [s EXCEPT !.mem[t] = d] = r
  BY DEF m
<1> HIDE DEF r
<1>5. Good(r)
  BY <1>3 DEF Good
<1> QED
  BY <1>2, <1>3, <1>4, <1>5

LEMMA PutOutcome ==
    ASSUME NEW s, Good(s), NEW o \in Outcomes
    PROVE  LET r == [s EXCEPT !.outcome = o]
           IN  /\ Good(r) /\ r.outcome = o
               /\ r.table = s.table /\ r.order = s.order /\ r.mem = s.mem
<1> DEFINE r == [s EXCEPT !.outcome = o]
<1>1. /\ r \in States /\ r.outcome = o
      /\ r.table = s.table /\ r.order = s.order /\ r.mem = s.mem
  BY DEF Good, States
<1> HIDE DEF r
<1>2. Good(r)
  BY <1>1 DEF Good
<1> QED
  BY <1>1, <1>2 DEF r

------------------------------------------------------------------------------
(* Lines *)

\* A set has at most one line of an address, and each line is found.
LEMMA LookupIs ==
    ASSUME config \in Configs, NEW s, Good(s), NEW k \in Levels, NEW adr \in Asked
    PROVE  /\ Lookup(s, k, adr) \subseteq s.table[k][Index(k, adr)]
           /\ Lookup(s, k, Tag(adr)) = Lookup(s, k, adr)
           /\ \A line \in Lookup(s, k, adr) :
                /\ line \in Lines /\ line.tag = Tag(adr) /\ ~line.evacuated
                /\ Lookup(s, k, adr) = {line}
                /\ TheLine(Lookup(s, k, adr)) = line
<1>1. Index(k, adr) \in Sets(k) /\ Index(k, Tag(adr)) = Index(k, adr)
  BY IndexOfTag
<1>2. IsSet(k, Index(k, adr), s.table[k][Index(k, adr)])
  BY <1>1, GoodSet
<1>3. Tag(Tag(adr)) = Tag(adr)
  BY AskedTag
<1>4. Lookup(s, k, Tag(adr)) = Lookup(s, k, adr)
  BY <1>1, <1>3 DEF Lookup
<1>5. ASSUME NEW line \in Lookup(s, k, adr)
      PROVE  /\ line \in Lines /\ line.tag = Tag(adr) /\ ~line.evacuated
             /\ Lookup(s, k, adr) = {line}
  BY <1>2, <1>5 DEF Lookup, IsSet
<1>6. ASSUME NEW line \in Lookup(s, k, adr)
      PROVE  TheLine(Lookup(s, k, adr)) = line
  BY <1>5, <1>6 DEF TheLine
<1>7. Lookup(s, k, adr) \subseteq s.table[k][Index(k, adr)]
  BY DEF Lookup
<1> QED
  BY <1>4, <1>5, <1>6, <1>7

LEMMA LineFields ==
    ASSUME NEW line \in Lines
    PROVE  /\ line.tag \in Tags /\ line.data \in BOOLEAN
           /\ line.invalid \in BOOLEAN /\ line.evacuated \in BOOLEAN
BY DEF Lines, CacheLine

LEMMA LineIsFound ==
    ASSUME config \in Configs, NEW s, Good(s), NEW k \in Levels, NEW i \in Sets(k),
           NEW line \in s.table[k][i]
    PROVE  /\ line \in Lines /\ line.tag \in Tags /\ ~line.evacuated
           /\ Index(k, line.tag) = i
           /\ Lookup(s, k, line.tag) = {line}
<1>1. IsSet(k, i, s.table[k][i])
  BY GoodSet
<1>2. line \in Lines /\ ~line.evacuated /\ Index(k, line.tag) = i
  BY <1>1 DEF IsSet
<1>3. line.tag \in Tags
  BY <1>2, LineFields
<1>4. line.tag \in Asked /\ Tag(line.tag) = line.tag
  BY <1>3, TagsAreAsked
<1>5. line \in Lookup(s, k, line.tag)
  BY <1>2, <1>4 DEF Lookup
<1> QED
  BY <1>2, <1>3, <1>4, <1>5, LookupIs

\* The flags and data a line is given.
LEMMA NewLines ==
    ASSUME NEW line \in Lines, NEW t \in Tags, NEW d \in BOOLEAN
    PROVE  /\ NewCacheLine(t, d) \in Lines
           /\ NewCacheLine(t, d).tag = t /\ NewCacheLine(t, d).data = d
           /\ ~NewCacheLine(t, d).invalid /\ ~NewCacheLine(t, d).evacuated
           /\ SetEvacuated(line) \in Lines
           /\ SetEvacuated(line).tag = line.tag
           /\ SetEvacuated(line).data = line.data
           /\ SetEvacuated(line).invalid = line.invalid
           /\ SetEvacuated(line).evacuated
           /\ SetEntryValid(line) \in Lines
           /\ SetEntryValid(line).tag = line.tag
           /\ SetEntryValid(line).data = line.data
           /\ ~SetEntryValid(line).invalid
           /\ SetEntryValid(line).evacuated = line.evacuated
<1>1. line = [tag |-> line.tag, invalid |-> line.invalid,
              evacuated |-> line.evacuated, data |-> line.data]
  BY DEF Lines, CacheLine
<1>2. /\ line.tag \in Tags /\ line.data \in BOOLEAN
      /\ line.invalid \in BOOLEAN /\ line.evacuated \in BOOLEAN
  BY LineFields
<1>3. /\ NewCacheLine(t, d) \in Lines
      /\ NewCacheLine(t, d).tag = t /\ NewCacheLine(t, d).data = d
      /\ ~NewCacheLine(t, d).invalid /\ ~NewCacheLine(t, d).evacuated
  BY DEF NewCacheLine, Lines, CacheLine
<1>4. /\ SetEvacuated(line) \in Lines
      /\ SetEvacuated(line).tag = line.tag
      /\ SetEvacuated(line).data = line.data
      /\ SetEvacuated(line).invalid = line.invalid
      /\ SetEvacuated(line).evacuated
  BY DEF SetEvacuated, Lines, CacheLine
<1>5. /\ SetEntryValid(line) \in Lines
      /\ SetEntryValid(line).tag = line.tag
      /\ SetEntryValid(line).data = line.data
      /\ ~SetEntryValid(line).invalid
      /\ SetEntryValid(line).evacuated = line.evacuated
  BY DEF SetEntryValid, Lines, CacheLine
<1> QED
  BY <1>3, <1>4, <1>5

LEMMA RewrittenLine ==
    ASSUME NEW line \in Lines, NEW d \in BOOLEAN
    PROVE  LET new == [SetEntryInvalid(line) EXCEPT !.data = d]
           IN  /\ new \in Lines
               /\ new.tag = line.tag /\ new.data = d
               /\ new.invalid /\ new.evacuated = line.evacuated
<1> DEFINE dirty == SetEntryInvalid(line)
<1>1. /\ dirty \in Lines
      /\ dirty.tag = line.tag /\ dirty.invalid
      /\ dirty.evacuated = line.evacuated
  BY DEF SetEntryInvalid, Lines, CacheLine
<1> HIDE DEF dirty
<1>2. LET new == [dirty EXCEPT !.data = d]
      IN  /\ new \in Lines
          /\ new.tag = dirty.tag /\ new.data = d
          /\ new.invalid = dirty.invalid /\ new.evacuated = dirty.evacuated
  BY <1>1 DEF Lines, CacheLine
<1> QED
  BY <1>1, <1>2 DEF dirty

\* r is s after line took the place of the lines gone, in the set of adr in
\* level k.
Replaced(s, r, k, adr, gone, line) ==
    /\ Good(r)
    /\ r.order = s.order /\ r.outcome = s.outcome /\ r.mem = s.mem
    /\ \A j \in Levels : j # k => r.table[j] = s.table[j]
    /\ \A i \in Sets(k) :
        r.table[k][i] = IF i = Index(k, adr) THEN (s.table[k][i] \ gone) \cup {line}
                        ELSE s.table[k][i]

LEMMA Replace ==
    ASSUME config \in Configs, NEW s, Good(s), NEW k \in Levels, NEW adr \in Asked,
           NEW gone, gone \subseteq s.table[k][Index(k, adr)],
           Lookup(s, k, adr) \subseteq gone,
           \/ Cardinality(s.table[k][Index(k, adr)]) < Level(k).setSize
           \/ gone # {},
           NEW line \in Lines, line.tag = Tag(adr), ~line.evacuated
    PROVE  Replaced(s, [s EXCEPT !.table[k][Index(k, adr)] = (@ \ gone) \cup {line}],
                    k, adr, gone, line)
<1> DEFINE i == Index(k, adr)
           set == s.table[k][i]
           rest == set \ gone
           new == rest \cup {line}
<1>1. i \in Sets(k) /\ Index(k, line.tag) = i
  BY IndexOfTag
<1>2. IsSet(k, i, set)
  BY <1>1, GoodSet
<1>3. /\ IsFiniteSet(set) /\ Cardinality(set) \in Nat
      /\ Cardinality(set) <= Level(k).setSize /\ Level(k).setSize \in Nat
  BY <1>2, FS_CardinalityType, Configured DEF IsSet
<1>4. /\ IsFiniteSet(rest) /\ Cardinality(rest) \in Nat
      /\ Cardinality(rest) + 1 <= Level(k).setSize
  <2>1. IsFiniteSet(rest) /\ Cardinality(rest) \in Nat
        /\ Cardinality(rest) <= Cardinality(set)
        /\ (Cardinality(set) = Cardinality(rest) => set = rest)
    <3>1. rest \in SUBSET set
      OBVIOUS
    <3> HIDE DEF rest, set
    <3> QED
      BY <1>3, <3>1, FS_Subset, FS_CardinalityType
  <2>2. gone # {} => set # rest
    OBVIOUS
  <2> QED
    BY <1>3, <2>1, <2>2
<1>5. IsFiniteSet(new) /\ Cardinality(new) <= Level(k).setSize
  <2> HIDE DEF rest
  <2>1. /\ IsFiniteSet(rest \cup {line})
        /\ Cardinality(rest \cup {line}) =
                IF line \in rest THEN Cardinality(rest) ELSE Cardinality(rest) + 1
    BY <1>4, FS_AddElement
  <2> QED
    BY <1>3, <1>4, <2>1
<1>6. new \subseteq Lines /\ \A l \in new : Index(k, l.tag) = i /\ ~l.evacuated
  BY <1>1, <1>2 DEF IsSet
<1>7. \A one, other \in new : one.tag = other.tag => one = other
  <2>1. \A one \in rest : one.tag # line.tag
    BY DEF Lookup
  <2> QED
    BY <1>2, <2>1 DEF IsSet
<1>8. IsSet(k, i, new)
  BY <1>5, <1>6, <1>7 DEF IsSet
<1> HIDE DEF new
<1> DEFINE r == [s EXCEPT !.table[k][i] = new]
<1>9. /\ Good(r)
      /\ r.order = s.order /\ r.outcome = s.outcome /\ r.mem = s.mem
      /\ \A j \in Levels : j # k => r.table[j] = s.table[j]
      /\ \A l \in Sets(k) : r.table[k][l] = IF l = i THEN new ELSE s.table[k][l]
  BY <1>1, <1>8, PutSet
<1>10. r = [s EXCEPT !.table[k][Index(k, adr)] = (@ \ gone) \cup {line}]
  BY DEF new
<1> HIDE DEF r
<1>11. Replaced(s, r, k, adr, gone, line)
  BY <1>9 DEF Replaced, new
<1> QED
  BY <1>10, <1>11

LEMMA ReplacedLookup ==
    ASSUME config \in Configs, NEW s, Good(s), NEW r,
           NEW k \in Levels, NEW adr \in Asked,
           NEW gone, gone \subseteq s.table[k][Index(k, adr)],
           Lookup(s, k, adr) \subseteq gone,
           NEW line, line.tag = Tag(adr),
           Replaced(s, r, k, adr, gone, line)
    PROVE  /\ Lookup(r, k, adr) = {line}
           /\ \A u \in Asked : Tag(u) # Tag(adr) =>
                Lookup(r, k, u) = Lookup(s, k, u) \ gone
           /\ \A j \in Levels : \A u \in Asked : j # k =>
                Lookup(r, j, u) = Lookup(s, j, u)
<1> DEFINE i == Index(k, adr)
<1>1. i \in Sets(k)
  BY IndexOfTag
<1>2. r.table[k][i] = (s.table[k][i] \ gone) \cup {line}
  BY <1>1 DEF Replaced
<1>3. Lookup(r, k, adr) = {line}
  <2>1. \A l \in s.table[k][i] \ gone : l.tag # Tag(adr)
    BY DEF Lookup
  <2> QED
    BY <1>2, <2>1 DEF Lookup
<1>4. ASSUME NEW u \in Asked, Tag(u) # Tag(adr)
      PROVE  Lookup(r, k, u) = Lookup(s, k, u) \ gone
  <2>1. Index(k, u) \in Sets(k)
    BY IndexOfTag
  <2>2. CASE Index(k, u) = i
    BY <1>2, <1>4, <2>2 DEF Lookup
  <2>3. CASE Index(k, u) # i
    <3>1. r.table[k][Index(k, u)] = s.table[k][Index(k, u)]
      BY <2>1, <2>3 DEF Replaced
    <3>2. Lookup(r, k, u) = Lookup(s, k, u)
      BY <3>1 DEF Lookup
    <3>3. \A one \in Lookup(s, k, u) : Index(k, one.tag) = Index(k, u)
      BY <2>1, GoodSet DEF IsSet, Lookup
    <3>4. \A one \in gone : Index(k, one.tag) = i
      BY <1>1, GoodSet DEF IsSet
    <3> QED
      BY <2>3, <3>2, <3>3, <3>4
  <2> QED
    BY <2>2, <2>3
<1>5. ASSUME NEW j \in Levels, NEW u \in Asked, j # k
      PROVE  Lookup(r, j, u) = Lookup(s, j, u)
  BY <1>5 DEF Replaced, Lookup
<1> QED
  BY <1>3, <1>4, <1>5

\* What a load from level k gets: the line of the level, or what the level
\* below would get, down to memory.
LEMMA DataFromIs ==
    ASSUME config \in Configs, NEW s, Good(s), NEW adr \in Asked, NEW k \in 1..3
    PROVE  /\ k \in Levels => \A line \in Lookup(s, k, adr) :
                DataFrom(s, k, adr) = line.data
           /\ k \in Levels /\ Lookup(s, k, adr) = {} =>
                DataFrom(s, k, adr) = DataFrom(s, k + 1, adr)
           /\ k \notin Levels => DataFrom(s, k, adr) = s.mem[Tag(adr)]
           /\ DataFrom(s, k, Tag(adr)) = DataFrom(s, k, adr)
<1> DEFINE Holders(n, a) == {j \in Levels : j >= n /\ Lookup(s, j, a) # {}}
<1>1. Levels \in {{1}, {1, 2}}
  BY LevelsAre
<1>2. \A n \in 1..4 : \A a : DataFrom(s, n, a) =
        IF Holders(n, a) = {} THEN s.mem[Tag(a)]
        ELSE TheLine(Lookup(s, Min(Holders(n, a)), a)).data
  BY DEF DataFrom
<1>3. ASSUME k \in Levels, NEW line \in Lookup(s, k, adr)
      PROVE  DataFrom(s, k, adr) = line.data
  <2>1. k \in Holders(k, adr) /\ \A j \in Holders(k, adr) : k <= j /\ j \in Nat
    BY <1>1, <1>3
  <2>2. Min(Holders(k, adr)) = k
    <3>1. Holders(k, adr) \subseteq Levels
      OBVIOUS
    <3> HIDE DEF Holders
    <3>2. Min(Holders(k, adr)) \in Holders(k, adr) /\ Min(Holders(k, adr)) <= k
      BY <2>1, <3>1, LeastLevel
    <3> QED
      BY <2>1, <3>2
  <2>3. DataFrom(s, k, adr) = TheLine(Lookup(s, k, adr)).data
    <3>1. k \in 1..4 /\ Holders(k, adr) # {}
      BY <2>1
    <3> HIDE DEF Holders
    <3> QED
      BY <1>2, <2>2, <3>1
  <2> QED
    BY <1>3, <2>3, LookupIs
<1>4. ASSUME k \in Levels, Lookup(s, k, adr) = {}
      PROVE  DataFrom(s, k, adr) = DataFrom(s, k + 1, adr)
  <2>1. Holders(k, adr) = Holders(k + 1, adr)
    BY <1>1, <1>4
  <2> HIDE DEF Holders
  <2> QED
    BY <1>2, <2>1
<1>5. ASSUME k \notin Levels
      PROVE  DataFrom(s, k, adr) = s.mem[Tag(adr)]
  <2>1. Holders(k, adr) = {}
    BY <1>1, <1>5
  <2> HIDE DEF Holders
  <2> QED
    BY <1>2, <2>1
<1>6. DataFrom(s, k, Tag(adr)) = DataFrom(s, k, adr)
  <2>1. \A j \in Levels : Lookup(s, j, Tag(adr)) = Lookup(s, j, adr)
    BY LookupIs
  <2>2. Holders(k, Tag(adr)) = Holders(k, adr)
    BY <2>1
  <2>3. Tag(Tag(adr)) = Tag(adr)
    BY AskedTag
  <2>4. Holders(k, adr) # {} => Min(Holders(k, adr)) \in Levels
    <3>1. SUFFICES ASSUME Holders(k, adr) # {}
                   PROVE  Min(Holders(k, adr)) \in Holders(k, adr)
      OBVIOUS
    <3>2. Holders(k, adr) \subseteq Levels
      OBVIOUS
    <3> HIDE DEF Holders
    <3> QED
      BY <3>1, <3>2, LeastLevel
  <2> HIDE DEF Holders
  <2> QED
    BY <1>2, <2>1, <2>2, <2>3, <2>4
<1> QED
  BY <1>3, <1>4, <1>5, <1>6

LEMMA DataFromType ==
    ASSUME config \in Configs, NEW s, Good(s), NEW adr \in Asked, NEW k \in 1..3
    PROVE  DataFrom(s, k, adr) \in BOOLEAN
<1>1. Levels \in {{1}, {1, 2}}
  BY LevelsAre
<1>2. \A n \in 1..3 : n \notin Levels => DataFrom(s, n, adr) \in BOOLEAN
  <2>1. Tag(adr) \in Tags /\ s.mem \in [Tags -> BOOLEAN]
    BY AskedTag DEF Good, States
  <2> QED
    BY <2>1, DataFromIs
<1>3. ASSUME NEW n \in Levels, Lookup(s, n, adr) # {}
      PROVE  DataFrom(s, n, adr) \in BOOLEAN
  <2>1. PICK line \in Lookup(s, n, adr) : TRUE
    BY <1>3
  <2>2. line.data \in BOOLEAN
    BY LookupIs, LineFields
  <2>3. DataFrom(s, n, adr) = line.data
    BY <1>1, DataFromIs
  <2> QED
    BY <2>2, <2>3
<1>4. DataFrom(s, 3, adr) \in BOOLEAN
  BY <1>1, <1>2
<1>5. DataFrom(s, 2, adr) \in BOOLEAN
  <2>1. CASE 2 \in Levels /\ Lookup(s, 2, adr) = {}
    <3>1. DataFrom(s, 2, adr) = DataFrom(s, 2 + 1, adr)
      BY <2>1, DataFromIs
    <3> QED
      BY <1>4, <3>1
  <2> QED
    BY <1>2, <1>3, <2>1
<1>6. DataFrom(s, 1, adr) \in BOOLEAN
  <2>1. CASE 1 \in Levels /\ Lookup(s, 1, adr) = {}
    <3>1. DataFrom(s, 1, adr) = DataFrom(s, 1 + 1, adr)
      BY <2>1, DataFromIs
    <3> QED
      BY <1>5, <3>1
  <2> QED
    BY <1>2, <1>3, <2>1
<1> QED
  BY <1>4, <1>5, <1>6

\* What a load gets depends on the lines of the levels and on memory alone.
LEMMA DataFromSame ==
    ASSUME config \in Configs, NEW s, NEW r, NEW adr, NEW k,
           \A j \in Levels : j >= k => Lookup(r, j, adr) = Lookup(s, j, adr),
           r.mem[Tag(adr)] = s.mem[Tag(adr)]
    PROVE  DataFrom(r, k, adr) = DataFrom(s, k, adr)
<1> DEFINE Holders(x) == {j \in Levels : j >= k /\ Lookup(x, j, adr) # {}}
<1>1. Holders(r) = Holders(s)
  OBVIOUS
<1>2. Holders(s) # {} => Min(Holders(s)) \in Holders(s)
  BY LeastLevel
<1> QED
  BY <1>1, <1>2 DEF DataFrom

------------------------------------------------------------------------------
(* write *)

SetOfLevel(s, k, adr) == s.table[k][Index(k, adr)]

ListOfLevel(s, k, adr) == s.order[k][Index(k, adr)]

IsNew(new, adr, d) ==
    new \in Lines /\ new.tag = Tag(adr) /\ new.data = d /\ ~new.evacuated

\* The lines the order list gives up.
Named(b, k, adr) ==
    {line \in SetOfLevel(b, k, adr) : line.tag = Head(ListOfLevel(b, k, adr))}

\* The ways in which a write of the line of adr in level k goes from the state
\* b to the state r and returns the lines out: the level has the line; there is
\* room for it; it takes the place of the line that was named; the line
\* named is not there and nothing is written; or the program ends.
WrittenHit(b, r, out, k, adr, new) ==
    /\ Lookup(b, k, adr) # {}
    /\ new.invalid /\ out = {new}
    /\ Replaced(b, r, k, adr, Lookup(b, k, adr), new)

WrittenFree(b, r, out, k, adr, new) ==
    /\ Lookup(b, k, adr) = {}
    /\ HasRoom(k, SetOfLevel(b, k, adr))
    /\ out = {}
    /\ Replaced(b, r, k, adr, {}, new)

WrittenVictim(b, r, out, k, adr, new, victim) ==
    /\ Lookup(b, k, adr) = {}
    /\ ~HasRoom(k, SetOfLevel(b, k, adr))
    /\ victim \in Named(b, k, adr)
    /\ out = {SetEvacuated(victim)}
    /\ Replaced(b, r, k, adr, {victim}, new)

WrittenNowhere(b, r, out, k, adr) ==
    /\ r = b /\ out = {}
    /\ b.outcome = "running" =>
        /\ Lookup(b, k, adr) = {}
        /\ ~HasRoom(k, SetOfLevel(b, k, adr))
        /\ HasVictim(k, ListOfLevel(b, k, adr))
        /\ Named(b, k, adr) = {}
        /\ ~FullLevel(k)

WrittenEnd(b, r, out, k, adr) ==
    /\ Lookup(b, k, adr) = {}
    /\ ~HasRoom(k, SetOfLevel(b, k, adr))
    /\ ~HasVictim(k, ListOfLevel(b, k, adr)) \/ (FullLevel(k) /\ Named(b, k, adr) = {})
    /\ out = {}
    /\ Good(r) /\ r.outcome \in {"exception", "undefined"}
    /\ r.table = b.table /\ r.order = b.order /\ r.mem = b.mem

Written(b, r, out, k, adr, new) ==
    \/ WrittenHit(b, r, out, k, adr, new)
    \/ WrittenFree(b, r, out, k, adr, new)
    \/ \E victim \in Named(b, k, adr) :
            WrittenVictim(b, r, out, k, adr, new, victim)
    \/ WrittenNowhere(b, r, out, k, adr)
    \/ WrittenEnd(b, r, out, k, adr)

LEMMA WriteEntryCases ==
    ASSUME config \in Configs, NEW b, Good(b), NEW k \in Levels, NEW adr \in Asked,
           NEW d \in BOOLEAN
    PROVE  \E new : /\ IsNew(new, adr, d)
                    /\ Lookup(b, k, adr) = {} => ~new.invalid
                    /\ Written(b, WriteEntry(b, k, adr, d).state,
                               WriteEntry(b, k, adr, d).line, k, adr, new)
                    /\ b.outcome # "running" =>
                        /\ WriteEntry(b, k, adr, d).state = b
                        /\ WriteEntry(b, k, adr, d).line = {}
<1> DEFINE i    == Index(k, adr)
           set  == b.table[k][i]
           list == b.order[k][i]
           w    == WriteEntry(b, k, adr, d)
           named == {line \in set : line.tag = Head(list)}
           fresh == NewCacheLine(Tag(adr), d)
<1>1. set = SetOfLevel(b, k, adr) /\ list = ListOfLevel(b, k, adr)
      /\ named = Named(b, k, adr)
  BY DEF SetOfLevel, ListOfLevel, Named
<1>2. w = IF b.outcome # "running" THEN [state |-> b, line |-> {}]
          ELSE IF Lookup(b, k, adr) # {} THEN WriteHit(b, k, adr, d)
          ELSE IF HasRoom(k, set) THEN WriteFree(b, k, adr, d)
          ELSE IF ~HasVictim(k, list)
              THEN [state |-> [b EXCEPT !.outcome = "exception"], line |-> {}]
          ELSE IF named = {} THEN WriteNowhere(b, k)
          ELSE WriteVictim(b, k, adr, d, TheLine(named))
  BY DEF WriteEntry
<1>3. i \in Sets(k) /\ Tag(adr) \in Tags
  BY IndexOfTag, AskedTag
<1>4. IsNew(fresh, adr, d) /\ ~fresh.invalid
  <2>1. \E line : line \in Lines
    <3>1. [tag |-> Tag(adr), invalid |-> TRUE, evacuated |-> TRUE, data |-> d] \in Lines
      BY <1>3 DEF Lines, CacheLine
    <3> QED
      BY <3>1
  <2> QED
    BY <1>3, <2>1, NewLines DEF IsNew
<1> HIDE DEF fresh, set, list, named, w
<1>0. b.outcome # "running" => w.state = b /\ w.line = {}
  BY <1>2
<1>a. SUFFICES \E new : /\ IsNew(new, adr, d)
                        /\ Lookup(b, k, adr) = {} => ~new.invalid
                        /\ Written(b, w.state, w.line, k, adr, new)
  BY <1>0 DEF w
<1>5. CASE b.outcome # "running"
  <2>1. w = [state |-> b, line |-> {}]
    BY <1>2, <1>5
  <2>2. WrittenNowhere(b, w.state, w.line, k, adr)
    BY <1>5, <2>1 DEF WrittenNowhere
  <2> QED
    BY <1>4, <2>2 DEF Written
<1>6. CASE b.outcome = "running" /\ Lookup(b, k, adr) # {}
  <2>1. w = WriteHit(b, k, adr, d)
    BY <1>2, <1>6
  <2>2. PICK old \in Lookup(b, k, adr) : TRUE
    BY <1>6
  <2>3. /\ old \in Lines /\ old.tag = Tag(adr) /\ ~old.evacuated
        /\ TheLine(Lookup(b, k, adr)) = old
        /\ Lookup(b, k, adr) \subseteq set
    BY <2>2, LookupIs DEF set
  <2> DEFINE new == [SetEntryInvalid(TheLine(Lookup(b, k, adr))) EXCEPT !.data = d]
  <2>4. IsNew(new, adr, d) /\ new.invalid
    BY <2>3, RewrittenLine DEF IsNew
  <2>5. /\ w.state = [b EXCEPT !.table[k][Index(k, adr)] =
                            (@ \ Lookup(b, k, adr)) \cup {new}]
        /\ w.line = {new}
    BY <2>1 DEF WriteHit
  <2> HIDE DEF new
  <2>6. Replaced(b, w.state, k, adr, Lookup(b, k, adr), new)
    BY <1>6, <2>3, <2>4, <2>5, Replace DEF IsNew, set
  <2>7. WrittenHit(b, w.state, w.line, k, adr, new)
    BY <1>6, <2>4, <2>5, <2>6 DEF WrittenHit
  <2> QED
    BY <1>6, <2>4, <2>7 DEF Written
<1>7. CASE b.outcome = "running" /\ Lookup(b, k, adr) = {} /\ HasRoom(k, set)
  <2>1. w = WriteFree(b, k, adr, d)
    BY <1>2, <1>7
  <2>2. /\ w.state = [b EXCEPT !.table[k][Index(k, adr)] = (@ \ {}) \cup {fresh}]
        /\ w.line = {}
    BY <2>1 DEF WriteFree, fresh
  <2>3. Cardinality(b.table[k][Index(k, adr)]) < Level(k).setSize
    BY <1>7 DEF HasRoom, set
  <2> DEFINE gone == {}
  <2>4. gone \subseteq b.table[k][Index(k, adr)] /\ Lookup(b, k, adr) \subseteq gone
    BY <1>7
  <2>5. Replaced(b, w.state, k, adr, gone, fresh)
    <3> HIDE DEF gone
    <3>1. Replaced(b, [b EXCEPT !.table[k][Index(k, adr)] = (@ \ gone) \cup {fresh}],
                   k, adr, gone, fresh)
      BY <1>4, <2>3, <2>4, Replace DEF IsNew
    <3> QED
      BY <2>2, <3>1 DEF gone
  <2>6. WrittenFree(b, w.state, w.line, k, adr, fresh)
    BY <1>1, <1>7, <2>2, <2>5 DEF WrittenFree
  <2> QED
    BY <1>4, <2>6 DEF Written
<1>8. CASE /\ b.outcome = "running" /\ Lookup(b, k, adr) = {} /\ ~HasRoom(k, set)
           /\ ~HasVictim(k, list)
  <2>1. w = [state |-> [b EXCEPT !.outcome = "exception"], line |-> {}]
    BY <1>2, <1>8
  <2>2. /\ Good(w.state) /\ w.state.outcome = "exception" /\ w.line = {}
        /\ w.state.table = b.table /\ w.state.order = b.order /\ w.state.mem = b.mem
    BY <2>1, PutOutcome DEF Outcomes
  <2>3. WrittenEnd(b, w.state, w.line, k, adr)
    BY <1>1, <1>8, <2>2 DEF WrittenEnd
  <2> QED
    BY <1>4, <2>3 DEF Written
<1>9. CASE /\ b.outcome = "running" /\ Lookup(b, k, adr) = {} /\ ~HasRoom(k, set)
           /\ HasVictim(k, list) /\ named = {}
  <2>1. w = WriteNowhere(b, k)
    BY <1>2, <1>9
  <2>2. CASE Level(k).assoc = "SET_ASSOC"
    <3>1. w.state = b /\ w.line = {}
      BY <2>1, <2>2 DEF WriteNowhere
    <3>2. WrittenNowhere(b, w.state, w.line, k, adr)
      BY <1>1, <1>9, <2>2, <3>1 DEF WrittenNowhere, FullLevel
    <3> QED
      BY <1>4, <3>2 DEF Written
  <2>3. CASE Level(k).assoc # "SET_ASSOC"
    <3>1. FullLevel(k)
      BY <2>3, Configured DEF FullLevel
    <3>2. w = [state |-> [b EXCEPT !.outcome = "undefined"], line |-> {}]
      BY <2>1, <2>3 DEF WriteNowhere
    <3>3. /\ Good(w.state) /\ w.state.outcome = "undefined" /\ w.line = {}
          /\ w.state.table = b.table /\ w.state.order = b.order /\ w.state.mem = b.mem
      BY <3>2, PutOutcome DEF Outcomes
    <3>4. WrittenEnd(b, w.state, w.line, k, adr)
      BY <1>1, <1>9, <3>1, <3>3 DEF WrittenEnd
    <3> QED
      BY <1>4, <3>4 DEF Written
  <2> QED
    BY <2>2, <2>3
<1>10. CASE /\ b.outcome = "running" /\ Lookup(b, k, adr) = {} /\ ~HasRoom(k, set)
            /\ HasVictim(k, list) /\ named # {}
  <2> DEFINE victim == TheLine(named)
             gone   == {victim}
  <2>1. victim \in named
    BY <1>10 DEF TheLine
  <2>2. w = WriteVictim(b, k, adr, d, victim)
    BY <1>2, <1>10
  <2>3. named \subseteq b.table[k][Index(k, adr)]
    BY DEF named, set
  <2> HIDE DEF victim
  <2>4. /\ w.state = [b EXCEPT !.table[k][Index(k, adr)] = (@ \ gone) \cup {fresh}]
        /\ w.line = {SetEvacuated(victim)}
    BY <2>2 DEF WriteVictim, fresh
  <2>5. /\ gone # {} /\ gone \subseteq b.table[k][Index(k, adr)]
        /\ Lookup(b, k, adr) \subseteq gone
    BY <1>10, <2>1, <2>3
  <2>6. Replaced(b, w.state, k, adr, gone, fresh)
    <3> HIDE DEF gone
    <3>1. Replaced(b, [b EXCEPT !.table[k][Index(k, adr)] = (@ \ gone) \cup {fresh}],
                   k, adr, gone, fresh)
      BY <1>4, <2>5, Replace DEF IsNew
    <3> QED
      BY <2>4, <3>1
  <2>7. WrittenVictim(b, w.state, w.line, k, adr, fresh, victim)
    BY <1>1, <1>10, <2>1, <2>4, <2>6 DEF WrittenVictim
  <2> QED
    BY <1>1, <1>4, <2>1, <2>7 DEF Written
<1> QED
  BY <1>5, <1>6, <1>7, <1>8, <1>9, <1>10

LEMMA ReplacedTwice ==
    ASSUME config \in Configs, NEW b, NEW a, NEW r, NEW k \in Levels, NEW adr \in Asked,
           NEW gone, NEW one, NEW new,
           one \notin b.table[k][Index(k, adr)],
           Replaced(b, a, k, adr, gone, one),
           Replaced(a, r, k, adr, {one}, new)
    PROVE  Replaced(b, r, k, adr, gone, new)
<1>1. Index(k, adr) \in Sets(k)
  BY IndexOfTag
<1>2. \A i \in Sets(k) :
        r.table[k][i] = IF i = Index(k, adr) THEN (b.table[k][i] \ gone) \cup {new}
                        ELSE b.table[k][i]
  <2>1. ASSUME NEW i \in Sets(k), i = Index(k, adr)
        PROVE  r.table[k][i] = (b.table[k][i] \ gone) \cup {new}
    <3>1. a.table[k][i] = (b.table[k][i] \ gone) \cup {one}
      BY <2>1 DEF Replaced
    <3>2. r.table[k][i] = (a.table[k][i] \ {one}) \cup {new}
      BY <2>1 DEF Replaced
    <3> QED
      BY <2>1, <3>1, <3>2
  <2>2. ASSUME NEW i \in Sets(k), i # Index(k, adr)
        PROVE  r.table[k][i] = b.table[k][i]
    BY <2>2 DEF Replaced
  <2> QED
    BY <2>1, <2>2
<1> QED
  BY <1>2 DEF Replaced

\* A write that finds the line of adr in the level changes that line.
LEMMA WriteEntryHit ==
    ASSUME config \in Configs, NEW b, Good(b), NEW k \in Levels, NEW adr \in Asked,
           NEW d \in BOOLEAN, b.outcome = "running", Lookup(b, k, adr) # {}
    PROVE  \E new : /\ IsNew(new, adr, d)
                    /\ WrittenHit(b, WriteEntry(b, k, adr, d).state,
                                  WriteEntry(b, k, adr, d).line, k, adr, new)
<1>1. PICK new : /\ IsNew(new, adr, d)
                 /\ Written(b, WriteEntry(b, k, adr, d).state,
                            WriteEntry(b, k, adr, d).line, k, adr, new)
  BY WriteEntryCases
<1>2. WrittenHit(b, WriteEntry(b, k, adr, d).state,
                 WriteEntry(b, k, adr, d).line, k, adr, new)
  BY <1>1 DEF Written, WrittenFree, WrittenVictim, WrittenNowhere, WrittenEnd
<1> QED
  BY <1>1, <1>2

\* What load does to its level before handleWritePolicy.
LEMMA LoadEntryCases ==
    ASSUME config \in Configs, NEW s, Good(s), NEW below, Good(below),
           NEW k \in Levels, NEW adr \in Asked,
           Lookup(below, k, adr) = Lookup(s, k, adr)
    PROVE  \/ /\ Lookup(s, k, adr) # {}
              /\ LoadEntry(s, k, adr, below).state = s
              /\ LoadEntry(s, k, adr, below).line = {}
           \/ /\ Lookup(s, k, adr) = {}
              /\ \E new : /\ IsNew(new, adr, DataFrom(s, k + 1, adr))
                          /\ ~new.invalid
                          /\ Written(below, LoadEntry(s, k, adr, below).state,
                                     LoadEntry(s, k, adr, below).line, k, adr, new)
<1>1. CASE Lookup(s, k, adr) # {}
  BY <1>1 DEF LoadEntry
<1>2. CASE Lookup(s, k, adr) = {}
  <2>1. LoadEntry(s, k, adr, below) = WriteEntry(below, k, adr, DataFrom(s, k + 1, adr))
    BY <1>2 DEF LoadEntry
  <2>2. DataFrom(s, k + 1, adr) \in BOOLEAN
    <3>1. k + 1 \in 1..3
      BY LevelsAre
    <3> QED
      BY <3>1, DataFromType
  <2> QED
    BY <1>2, <2>1, <2>2, WriteEntryCases
<1> QED
  BY <1>1, <1>2

\* Two writes after a miss leave what one would have left, but for the line
\* being marked as dirty.
LEMMA StoreEntryCases ==
    ASSUME config \in Configs, NEW s, Good(s), NEW below, Good(below),
           NEW k \in Levels, NEW adr \in Asked, NEW d \in BOOLEAN,
           Lookup(below, k, adr) = Lookup(s, k, adr)
    PROVE  \E new :
            /\ IsNew(new, adr, d) /\ new.invalid
            /\ Written(IF Lookup(s, k, adr) # {} THEN s ELSE below,
                       StoreEntry(s, k, adr, d, below).state,
                       StoreEntry(s, k, adr, d, below).line, k, adr, new)
<1> DEFINE w == StoreEntry(s, k, adr, d, below)
<1>1. \E new : IsNew(new, adr, d) /\ new.invalid
  <2>1. PICK one : IsNew(one, adr, d)
    BY WriteEntryCases
  <2> DEFINE new == [SetEntryInvalid(one) EXCEPT !.data = d]
  <2>2. IsNew(new, adr, d) /\ new.invalid
    BY <2>1, RewrittenLine DEF IsNew
  <2> QED
    BY <2>2
<1>2. CASE Lookup(s, k, adr) # {}
  <2>1. w = WriteEntry(s, k, adr, d)
    BY <1>2 DEF StoreEntry
  <2>2. CASE s.outcome = "running"
    <3>1. PICK new : IsNew(new, adr, d) /\ WrittenHit(s, w.state, w.line, k, adr, new)
      BY <1>2, <2>1, <2>2, WriteEntryHit
    <3> QED
      BY <1>2, <3>1 DEF Written, WrittenHit
  <2>3. CASE s.outcome # "running"
    <3>1. w.state = s /\ w.line = {}
      BY <2>1, <2>3, WriteEntryCases
    <3>2. WrittenNowhere(s, w.state, w.line, k, adr)
      BY <2>3, <3>1 DEF WrittenNowhere
    <3> QED
      BY <1>1, <1>2, <3>2 DEF Written
  <2> QED
    BY <2>2, <2>3
<1>3. CASE Lookup(s, k, adr) = {}
  <2> DEFINE d1 == DataFrom(s, k + 1, adr)
             alloc == WriteEntry(below, k, adr, d1)
             again == WriteEntry(alloc.state, k, adr, d)
  <2>1. w.state = again.state /\ w.line = alloc.line
    BY <1>3 DEF StoreEntry
  <2>2. d1 \in BOOLEAN
    <3>1. k + 1 \in 1..3
      BY LevelsAre
    <3> QED
      BY <3>1, DataFromType
  <2> HIDE DEF d1, w
  <2>3. PICK one : /\ IsNew(one, adr, d1)
                   /\ Written(below, alloc.state, alloc.line, k, adr, one)
                   /\ below.outcome # "running" =>
                        alloc.state = below /\ alloc.line = {}
    BY <2>2, WriteEntryCases
  <2> DEFINE a == alloc.state
             o == alloc.line
  <2>4. again = WriteEntry(a, k, adr, d)
    OBVIOUS
  <2> HIDE DEF again, a, o, alloc
  <2>5. w.state = again.state /\ w.line = o
    BY <2>1 DEF o
  <2>6. Written(below, a, o, k, adr, one)
    BY <2>3 DEF a, o
  <2>7. below.outcome # "running" => a = below /\ o = {}
    BY <2>3 DEF a, o
  <2>8. SUFFICES \E new : /\ IsNew(new, adr, d) /\ new.invalid
                          /\ Written(below, w.state, w.line, k, adr, new)
    BY <1>3 DEF w
  <2>9. CASE below.outcome # "running"
    <3>1. again.state = a
      BY <2>4, <2>7, <2>9, WriteEntryCases
    <3>2. WrittenNowhere(below, w.state, w.line, k, adr)
      BY <2>5, <2>7, <2>9, <3>1 DEF WrittenNowhere
    <3> QED
      BY <1>1, <3>2 DEF Written
  <2>10. ASSUME below.outcome = "running", WrittenNowhere(below, a, o, k, adr)
         PROVE  WrittenNowhere(below, w.state, w.line, k, adr)
    <3>1. a = below /\ o = {}
      BY <2>10 DEF WrittenNowhere
    <3>2. PICK new : Written(below, again.state, again.line, k, adr, new)
      BY <2>4, <3>1, WriteEntryCases
    <3>3. WrittenNowhere(below, again.state, again.line, k, adr)
      BY <2>10, <3>2 DEF Written, WrittenHit, WrittenFree, WrittenVictim,
                         WrittenNowhere, WrittenEnd
    <3> QED
      BY <2>5, <3>1, <3>3 DEF WrittenNowhere
  <2>11. ASSUME WrittenEnd(below, a, o, k, adr)
         PROVE  WrittenEnd(below, w.state, w.line, k, adr)
    <3>1. Good(a) /\ a.outcome # "running"
      BY <2>11 DEF WrittenEnd
    <3>2. again.state = a
      BY <2>4, <3>1, WriteEntryCases
    <3> QED
      BY <2>5, <2>11, <3>2
  <2>12. ASSUME below.outcome = "running",
                NEW gone, gone \subseteq below.table[k][Index(k, adr)],
                Replaced(below, a, k, adr, gone, one)
         PROVE  \E new : /\ IsNew(new, adr, d) /\ new.invalid
                         /\ Replaced(below, w.state, k, adr, gone, new)
    <3>1. Lookup(a, k, adr) = {one}
      BY <1>3, <2>3, <2>12, ReplacedLookup DEF IsNew
    <3>2. Good(a) /\ a.outcome = "running"
      BY <2>12 DEF Replaced
    <3>3. PICK new : /\ IsNew(new, adr, d)
                     /\ WrittenHit(a, again.state, again.line, k, adr, new)
      BY <2>4, <3>1, <3>2, WriteEntryHit
    <3>4. new.invalid /\ Replaced(a, again.state, k, adr, {one}, new)
      BY <3>1, <3>3 DEF WrittenHit
    <3>5. one \notin below.table[k][Index(k, adr)]
      BY <1>3, <2>3 DEF Lookup, IsNew
    <3>6. Replaced(below, again.state, k, adr, gone, new)
      BY <2>12, <3>4, <3>5, ReplacedTwice
    <3> QED
      BY <2>5, <3>3, <3>4, <3>6
  <2>13. ASSUME below.outcome = "running", WrittenFree(below, a, o, k, adr, one)
         PROVE  \E new : /\ IsNew(new, adr, d) /\ new.invalid
                         /\ WrittenFree(below, w.state, w.line, k, adr, new)
    <3> DEFINE gone == {}
    <3>1. Replaced(below, a, k, adr, gone, one)
      BY <2>13 DEF WrittenFree
    <3>2. PICK new : /\ IsNew(new, adr, d) /\ new.invalid
                     /\ Replaced(below, w.state, k, adr, gone, new)
      <4>1. gone \subseteq below.table[k][Index(k, adr)]
        OBVIOUS
      <4> HIDE DEF gone
      <4> QED
        BY <2>12, <2>13, <3>1, <4>1
    <3> QED
      BY <2>5, <2>13, <3>2 DEF WrittenFree
  <2>14. ASSUME below.outcome = "running", NEW victim \in Named(below, k, adr),
                WrittenVictim(below, a, o, k, adr, one, victim)
         PROVE  \E new : /\ IsNew(new, adr, d) /\ new.invalid
                         /\ WrittenVictim(below, w.state, w.line, k, adr, new, victim)
    <3>1. {victim} \subseteq below.table[k][Index(k, adr)]
      BY DEF Named, SetOfLevel
    <3>2. PICK new : /\ IsNew(new, adr, d) /\ new.invalid
                     /\ Replaced(below, w.state, k, adr, {victim}, new)
      BY <2>12, <2>14, <3>1 DEF WrittenVictim
    <3> QED
      BY <2>5, <2>14, <3>2 DEF WrittenVictim
  <2>15. ~WrittenHit(below, a, o, k, adr, one)
    BY <1>3 DEF WrittenHit
  <2>16. CASE below.outcome = "running"
    BY <1>1, <2>6, <2>10, <2>11, <2>13, <2>14, <2>15, <2>16 DEF Written
  <2> QED
    BY <2>9, <2>16
<1> QED
  BY <1>2, <1>3

------------------------------------------------------------------------------
(* handleWritePolicy *)

LastLevel(k) == k + 1 \notin Levels

AllFullBelow(k) == \A j \in Levels : j > k => FullLevel(j)

\* The levels of which CleanLinesMatch says something.
Sound(k) == Level(k).writePolicy = WRITE_BACK \/ AllFullBelow(k)

CleanAt(s, k) ==
    \A t \in Tags : \A line \in Lookup(s, k, t) :
        line.invalid \/ line.data = DataFrom(s, k + 1, t)

\* What level k gives to the level below is kept there.
Kept(s, k) == LastLevel(k) \/ (AllFullBelow(k) /\ s.outcome = "running")

\* m is r after the levels below level k were asked to store d in the line t.
StoredBelow(r, m, k, t, d) ==
    /\ Good(m)
    /\ m.outcome = "running" => r.outcome = "running"
    /\ \A j \in Levels : j <= k => m.table[j] = r.table[j] /\ m.order[j] = r.order[j]
    /\ \A u \in Tags : u # t => DataFrom(m, k + 1, u) = DataFrom(r, k + 1, u)
    /\ DataFrom(m, k + 1, t) \in {d, DataFrom(r, k + 1, t)}
    /\ Kept(m, k) => DataFrom(m, k + 1, t) = d

\* m is r after handleWritePolicy of level k passed on what has to be stored.
PassedOn(r, m, k, out) ==
    \/ Flushed(Level(k), out) = {} /\ m = r
    \/ \E line \in Flushed(Level(k), out) : StoredBelow(r, m, k, line.tag, line.data)

\* A request that ends with d in the line new of adr, if it is written, goes
\* from b to r, returns out, and handleWritePolicy goes from r over m to z.
Handled(b, r, out, m, z, k, adr, d, new) ==
    /\ IsNew(new, adr, d)
    /\ Written(b, r, out, k, adr, new)
    /\ PassedOn(r, m, k, out)
    /\ z = Settle(m, k, Flushed(Level(k), out))

\* What a write leaves alone.
LEMMA WrittenFrame ==
    ASSUME config \in Configs, NEW b, Good(b), NEW r, NEW out, NEW k \in Levels,
           NEW adr, NEW new, Written(b, r, out, k, adr, new)
    PROVE  /\ Good(r)
           /\ r.outcome = "running" => b.outcome = "running"
           /\ r.order = b.order /\ r.mem = b.mem
           /\ \A j \in Levels : j # k => r.table[j] = b.table[j]
<1>1. CASE WrittenHit(b, r, out, k, adr, new)
  BY <1>1 DEF WrittenHit, Replaced
<1>2. CASE WrittenFree(b, r, out, k, adr, new)
  BY <1>2 DEF WrittenFree, Replaced
<1>3. ASSUME NEW victim \in Named(b, k, adr),
             WrittenVictim(b, r, out, k, adr, new, victim)
      PROVE  /\ Good(r)
             /\ r.outcome = "running" => b.outcome = "running"
             /\ r.order = b.order /\ r.mem = b.mem
             /\ \A j \in Levels : j # k => r.table[j] = b.table[j]
  BY <1>3 DEF WrittenVictim, Replaced
<1>4. CASE WrittenNowhere(b, r, out, k, adr)
  BY <1>4 DEF WrittenNowhere
<1>5. CASE WrittenEnd(b, r, out, k, adr)
  BY <1>5 DEF WrittenEnd
<1> QED
  BY <1>1, <1>2, <1>3, <1>4, <1>5 DEF Written

LEMMA NamedIs ==
    ASSUME config \in Configs, NEW b, Good(b), NEW k \in Levels, NEW adr \in Asked,
           NEW victim \in Named(b, k, adr)
    PROVE  /\ victim \in b.table[k][Index(k, adr)]
           /\ victim \in Lines /\ victim.tag \in Tags /\ ~victim.evacuated
           /\ Lookup(b, k, victim.tag) = {victim}
           /\ victim.tag = Head(ListOfLevel(b, k, adr))
<1>1. /\ victim \in b.table[k][Index(k, adr)]
      /\ victim.tag = Head(ListOfLevel(b, k, adr))
  BY DEF Named, SetOfLevel
<1>2. Index(k, adr) \in Sets(k)
  BY IndexOfTag
<1> QED
  BY <1>1, <1>2, LineIsFound

\* What has to be stored is one line, and which one it is.
LEMMA FlushedIs ==
    ASSUME config \in Configs, NEW b, Good(b), NEW r, NEW out, NEW k \in Levels,
           NEW adr \in Asked, NEW d, NEW new, IsNew(new, adr, d),
           Written(b, r, out, k, adr, new),
           NEW line \in Flushed(Level(k), out)
    PROVE  /\ Flushed(Level(k), out) = {line}
           /\ TheLine(Flushed(Level(k), out)) = line
           /\ line \in Lines
           /\ \/ /\ line = new /\ WrittenHit(b, r, out, k, adr, new)
                 /\ Level(k).writePolicy = WRITE_THROUGH
              \/ \E victim \in Named(b, k, adr) :
                    /\ WrittenVictim(b, r, out, k, adr, new, victim)
                    /\ line = SetEvacuated(victim)
<1>1. line \in out /\ Flushed(Level(k), out) \subseteq out
      /\ (Level(k).writePolicy = WRITE_THROUGH \/ line.evacuated)
  BY DEF Flushed
<1>2. /\ out = {line} /\ line \in Lines
      /\ \/ line = new /\ WrittenHit(b, r, out, k, adr, new)
         \/ \E victim \in Named(b, k, adr) :
               /\ WrittenVictim(b, r, out, k, adr, new, victim)
               /\ line = SetEvacuated(victim)
  <2>1. CASE WrittenHit(b, r, out, k, adr, new)
    BY <1>1, <2>1 DEF WrittenHit, IsNew
  <2>2. CASE WrittenFree(b, r, out, k, adr, new)
    BY <1>1, <2>2 DEF WrittenFree
  <2>3. ASSUME NEW victim \in Named(b, k, adr),
               WrittenVictim(b, r, out, k, adr, new, victim)
        PROVE  out = {line} /\ line \in Lines /\ line = SetEvacuated(victim)
    <3>1. out = {SetEvacuated(victim)}
      BY <2>3 DEF WrittenVictim
    <3>2. new.tag \in Tags /\ new.data \in BOOLEAN /\ victim \in Lines
      BY NamedIs, LineFields DEF IsNew
    <3>3. SetEvacuated(victim) \in Lines
      BY <3>2, NewLines
    <3> QED
      BY <1>1, <3>1, <3>3
  <2>4. CASE WrittenNowhere(b, r, out, k, adr)
    BY <1>1, <2>4 DEF WrittenNowhere
  <2>5. CASE WrittenEnd(b, r, out, k, adr)
    BY <1>1, <2>5 DEF WrittenEnd
  <2> QED
    BY <2>1, <2>2, <2>3, <2>4, <2>5 DEF Written
<1>3. Flushed(Level(k), out) = {line}
  BY <1>1, <1>2
<1>4. TheLine(Flushed(Level(k), out)) = line
  BY <1>3 DEF TheLine
<1>5. line = new => Level(k).writePolicy = WRITE_THROUGH
  BY <1>1 DEF IsNew
<1> QED
  BY <1>2, <1>3, <1>4, <1>5

\* What passing on leaves alone.
LEMMA PassedOnFrame ==
    ASSUME NEW r, Good(r), NEW m, NEW k, NEW out, PassedOn(r, m, k, out)
    PROVE  /\ Good(m)
           /\ m.outcome = "running" => r.outcome = "running"
           /\ \A j \in Levels : j <= k =>
                m.table[j] = r.table[j] /\ m.order[j] = r.order[j]
BY DEF PassedOn, StoredBelow

\* A line that was written through and is still there becomes clean.
LEMMA SettleCases ==
    ASSUME config \in Configs, NEW b, Good(b), NEW r, NEW out, NEW k \in Levels,
           NEW adr \in Asked, NEW d, NEW new, NEW m, NEW z,
           Handled(b, r, out, m, z, k, adr, d, new)
    PROVE  \/ z = m /\ (m.outcome # "running" \/ ~WrittenHit(b, r, out, k, adr, new)
                        \/ Level(k).writePolicy = WRITE_BACK)
           \/ /\ m.outcome = "running"
              /\ WrittenHit(b, r, out, k, adr, new)
              /\ Level(k).writePolicy = WRITE_THROUGH
              /\ Flushed(Level(k), out) = {new}
              /\ new \in m.table[k][Index(k, new.tag)]
              /\ Lookup(m, k, new.tag) = {new}
              /\ Replaced(m, z, k, new.tag, {new}, SetEntryValid(new))
<1> DEFINE flushed == Flushed(Level(k), out)
<1>0. /\ IsNew(new, adr, d) /\ Written(b, r, out, k, adr, new)
      /\ PassedOn(r, m, k, out) /\ z = Settle(m, k, flushed)
  BY DEF Handled
<1>1. /\ Good(r) /\ Good(m)
      /\ k \in Int
      /\ m.table[k] = r.table[k]
  BY <1>0, WrittenFrame, PassedOnFrame, LevelsAre
<1>2. /\ new \in Lines /\ new.tag = Tag(adr) /\ ~new.evacuated
      /\ new.tag \in Tags /\ new.tag \in Asked /\ Tag(new.tag) = new.tag
      /\ Index(k, new.tag) = Index(k, adr) /\ Index(k, adr) \in Sets(k)
  BY <1>0, AskedTag, TagsAreAsked, IndexOfTag DEF IsNew
<1>3. z = IF flushed = {} \/ m.outcome # "running" \/ TheLine(flushed).evacuated THEN m
          ELSE [m EXCEPT !.table[k][Index(k, TheLine(flushed).tag)] =
                    (@ \ {TheLine(flushed)}) \cup {SetEntryValid(TheLine(flushed))}]
  BY <1>0 DEF Settle
<1>4. CASE m.outcome = "running" /\ WrittenHit(b, r, out, k, adr, new)
           /\ Level(k).writePolicy = WRITE_THROUGH
  <2>1. new \in flushed
    BY <1>4 DEF WrittenHit, Flushed
  <2>2. flushed = {new} /\ TheLine(flushed) = new
    BY <1>0, <2>1, FlushedIs
  <2>3. z = [m EXCEPT !.table[k][Index(k, new.tag)] = (@ \ {new}) \cup {SetEntryValid(new)}]
    BY <1>2, <1>3, <1>4, <2>2
  <2>4. new \in m.table[k][Index(k, new.tag)]
    <3>1. r.table[k][Index(k, adr)] =
            (b.table[k][Index(k, adr)] \ Lookup(b, k, adr)) \cup {new}
      BY <1>2, <1>4 DEF WrittenHit, Replaced
    <3> QED
      BY <1>1, <1>2, <3>1
  <2>5. Lookup(m, k, new.tag) = {new}
    BY <1>1, <1>2, <2>4, LineIsFound
  <2>6. /\ SetEntryValid(new) \in Lines
        /\ SetEntryValid(new).tag = Tag(new.tag)
        /\ ~SetEntryValid(new).evacuated
    <3>1. new.data \in BOOLEAN
      BY <1>2, LineFields
    <3> QED
      BY <1>2, <3>1, NewLines
  <2> DEFINE gone == {new}
             clean == SetEntryValid(new)
  <2>7. gone \subseteq m.table[k][Index(k, new.tag)] /\ gone # {}
        /\ Lookup(m, k, new.tag) \subseteq gone
    BY <2>4, <2>5
  <2> HIDE DEF gone, clean
  <2>8. Replaced(m, [m EXCEPT !.table[k][Index(k, new.tag)] = (@ \ gone) \cup {clean}],
                 k, new.tag, gone, clean)
    BY <1>1, <1>2, <2>6, <2>7, Replace DEF clean
  <2>9. Replaced(m, z, k, new.tag, {new}, SetEntryValid(new))
    BY <2>3, <2>8 DEF gone, clean
  <2> QED
    BY <1>4, <2>2, <2>4, <2>5, <2>9
<1>5. CASE /\ ~(m.outcome = "running" /\ WrittenHit(b, r, out, k, adr, new)
                /\ Level(k).writePolicy = WRITE_THROUGH)
  <2>1. z = m
    <3>1. CASE m.outcome # "running" \/ flushed = {}
      BY <1>3, <3>1
    <3>2. CASE m.outcome = "running" /\ flushed # {}
      <4>1. PICK line \in flushed : TRUE
        BY <3>2
      <4>2. TheLine(flushed) = line
        BY <1>0, <4>1, FlushedIs
      <4>3. PICK victim \in Named(b, k, adr) : line = SetEvacuated(victim)
        BY <1>0, <1>5, <3>2, <4>1, FlushedIs
      <4>4. victim \in Lines /\ new.data \in BOOLEAN
        BY <1>2, NamedIs, LineFields
      <4>5. line.evacuated
        BY <1>2, <4>3, <4>4, NewLines
      <4> QED
        BY <1>3, <4>2, <4>5
    <3> QED
      BY <3>1, <3>2
  <2>2. Level(k).writePolicy \in {WRITE_BACK, WRITE_THROUGH}
    BY Configured DEF WritePolicy
  <2> QED
    BY <1>5, <2>1, <2>2
<1> QED
  BY <1>4, <1>5

------------------------------------------------------------------------------
(* What a load gets after a write *)

LEMMA SameBelow ==
    ASSUME config \in Configs, NEW s, NEW r, NEW k \in Levels,
           \A j \in Levels : j # k => r.table[j] = s.table[j],
           r.mem = s.mem,
           NEW adr
    PROVE  DataFrom(r, k + 1, adr) = DataFrom(s, k + 1, adr)
<1>1. k \in Int /\ Levels \subseteq Int
  BY LevelsAre
<1>2. ASSUME NEW j \in Levels, j >= k + 1
      PROVE  Lookup(r, j, adr) = Lookup(s, j, adr)
  <2>1. r.table[j] = s.table[j]
    BY <1>1, <1>2
  <2> QED
    BY <2>1 DEF Lookup
<1> DEFINE next == k + 1
<1>3. \A j \in Levels : j >= next => Lookup(r, j, adr) = Lookup(s, j, adr)
  BY <1>2
<1> HIDE DEF next
<1>4. DataFrom(r, next, adr) = DataFrom(s, next, adr)
  BY <1>3, DataFromSame
<1> QED
  BY <1>4 DEF next

\* The line of adr is in level k of z and holds d.  Of the lines that were there
\* in b at most one is no longer there, and the level below has what it held.
Inserted(b, z, k, adr, d) ==
    /\ \E line \in Lines :
        /\ Lookup(z, k, adr) = {line}
        /\ line.data = d
        /\ line.invalid \/ d = DataFrom(z, k + 1, Tag(adr))
    /\ \A u \in Tags : u # Tag(adr) =>
        \/ /\ Lookup(z, k, u) = Lookup(b, k, u)
           /\ DataFrom(z, k + 1, u) = DataFrom(b, k + 1, u)
        \/ /\ Lookup(z, k, u) = {}
           /\ \E line : /\ Lookup(b, k, u) = {line}
                        /\ Kept(z, k) => DataFrom(z, k + 1, u) = line.data

\* What a request for adr that ends with d in its line does to what loads get.
ContentKept(b, z, k, adr, d) ==
    /\ CleanAt(z, k)
    /\ Kept(z, k) =>
        /\ \A u \in Tags : u # Tag(adr) => DataFrom(z, k, u) = DataFrom(b, k, u)
        /\ DataFrom(z, k, Tag(adr)) \in {d, DataFrom(b, k, Tag(adr))}
    /\ FullLevel(k) /\ z.outcome = "running" => DataFrom(z, k, Tag(adr)) = d

LEMMA InsertedKeeps ==
    ASSUME config \in Configs, NEW b, Good(b), NEW z, Good(z), NEW k \in Levels,
           NEW adr \in Asked, NEW d, CleanAt(b, k), Inserted(b, z, k, adr, d)
    PROVE  ContentKept(b, z, k, adr, d)
<1>1. k \in 1..3
  BY LevelsAre
<1>2. Tag(adr) \in Tags /\ \A u \in Tags : u \in Asked /\ Tag(u) = u
  BY AskedTag, TagsAreAsked
<1>3. PICK line \in Lines :
        /\ Lookup(z, k, adr) = {line}
        /\ line.data = d
        /\ line.invalid \/ d = DataFrom(z, k + 1, Tag(adr))
  BY DEF Inserted
<1>4. Lookup(z, k, Tag(adr)) = {line}
  BY <1>3, LookupIs
<1>5. DataFrom(z, k, Tag(adr)) = d
  <2>1. \A l \in Lookup(z, k, Tag(adr)) : DataFrom(z, k, Tag(adr)) = l.data
    BY <1>1, <1>2, DataFromIs
  <2> QED
    BY <1>3, <1>4, <2>1
<1>6. ASSUME NEW u \in Tags, u # Tag(adr)
      PROVE  /\ \A l \in Lookup(z, k, u) : l.invalid \/ l.data = DataFrom(z, k + 1, u)
             /\ Kept(z, k) => DataFrom(z, k, u) = DataFrom(b, k, u)
  <2>1. /\ \A l \in Lookup(z, k, u) : DataFrom(z, k, u) = l.data
        /\ Lookup(z, k, u) = {} => DataFrom(z, k, u) = DataFrom(z, k + 1, u)
    BY <1>1, <1>2, DataFromIs
  <2>2. /\ \A l \in Lookup(b, k, u) : DataFrom(b, k, u) = l.data
        /\ Lookup(b, k, u) = {} => DataFrom(b, k, u) = DataFrom(b, k + 1, u)
    BY <1>1, <1>2, DataFromIs
  <2>3. CASE /\ Lookup(z, k, u) = Lookup(b, k, u)
             /\ DataFrom(z, k + 1, u) = DataFrom(b, k + 1, u)
    <3>1. \A l \in Lookup(z, k, u) : l.invalid \/ l.data = DataFrom(z, k + 1, u)
      BY <2>3 DEF CleanAt
    <3>2. DataFrom(z, k, u) = DataFrom(b, k, u)
      BY <2>1, <2>2, <2>3
    <3> QED
      BY <3>1, <3>2
  <2>4. CASE /\ Lookup(z, k, u) = {}
             /\ \E l : /\ Lookup(b, k, u) = {l}
                       /\ Kept(z, k) => DataFrom(z, k + 1, u) = l.data
    BY <2>1, <2>2, <2>4
  <2> QED
    BY <1>6, <2>3, <2>4 DEF Inserted
<1>7. CleanAt(z, k)
  <2>1. SUFFICES ASSUME NEW u \in Tags, NEW l \in Lookup(z, k, u)
                 PROVE  l.invalid \/ l.data = DataFrom(z, k + 1, u)
    BY DEF CleanAt
  <2>2. CASE u = Tag(adr)
    BY <1>3, <1>4, <2>1, <2>2
  <2> QED
    BY <1>6, <2>1, <2>2
<1> QED
  BY <1>5, <1>6, <1>7 DEF ContentKept

LEMMA UnchangedKeeps ==
    ASSUME config \in Configs, NEW b, NEW z, NEW k \in Levels,
           NEW adr \in Asked, NEW d, CleanAt(b, k),
           z.table = b.table, z.mem = b.mem,
           FullLevel(k) => z.outcome # "running"
    PROVE  ContentKept(b, z, k, adr, d)
<1>1. \A j, a : Lookup(z, j, a) = Lookup(b, j, a)
  BY DEF Lookup
<1>2. \A j, a : DataFrom(z, j, a) = DataFrom(b, j, a)
  BY <1>1, DataFromSame
<1> QED
  BY <1>1, <1>2 DEF ContentKept, CleanAt

LEMMA WriteContent ==
    ASSUME config \in Configs, NEW b, Good(b), NEW r, NEW out, NEW k \in Levels,
           NEW adr \in Asked, NEW d, NEW new, NEW m, NEW z,
           Handled(b, r, out, m, z, k, adr, d, new),
           CleanAt(b, k), Sound(k),
           new.invalid \/ d = DataFrom(b, k + 1, Tag(adr))
    PROVE  /\ Good(z)
           /\ ContentKept(b, z, k, adr, d)
<1> DEFINE flushed == Flushed(Level(k), out)
<1>0. /\ IsNew(new, adr, d) /\ Written(b, r, out, k, adr, new)
      /\ PassedOn(r, m, k, out) /\ z = Settle(m, k, flushed)
  BY DEF Handled
<1>1. /\ Good(r) /\ Good(m) /\ r.mem = b.mem /\ r.order = b.order
      /\ r.outcome = "running" => b.outcome = "running"
      /\ \A j \in Levels : j # k => r.table[j] = b.table[j]
      /\ k \in Int /\ Levels \subseteq Int /\ m.table[k] = r.table[k]
      /\ m.outcome = "running" => r.outcome = "running"
  <2>1. k \in Int /\ Levels \subseteq Int
    BY LevelsAre
  <2>2. /\ Good(r) /\ r.mem = b.mem /\ r.order = b.order
        /\ r.outcome = "running" => b.outcome = "running"
        /\ \A j \in Levels : j # k => r.table[j] = b.table[j]
    BY <1>0, WrittenFrame
  <2>3. /\ Good(m)
        /\ m.outcome = "running" => r.outcome = "running"
        /\ \A j \in Levels : j <= k => m.table[j] = r.table[j]
    BY <1>0, <2>2, PassedOnFrame
  <2> QED
    BY <2>1, <2>2, <2>3
<1>2. /\ Tag(adr) \in Tags /\ \A u \in Tags : u \in Asked /\ Tag(u) = u
      /\ new \in Lines /\ new.tag = Tag(adr) /\ new.data = d
      /\ Index(k, adr) \in Sets(k)
  BY <1>0, AskedTag, TagsAreAsked, IndexOfTag DEF IsNew
<1>3. \A u \in Tags : DataFrom(r, k + 1, u) = DataFrom(b, k + 1, u)
  BY <1>1, SameBelow
<1>4. \A u : Lookup(m, k, u) = Lookup(r, k, u)
  BY <1>1 DEF Lookup
<1>5. flushed = {} => m = r
  BY <1>0 DEF PassedOn
<1>6. CASE WrittenNowhere(b, r, out, k, adr) \/ WrittenEnd(b, r, out, k, adr)
  <2>1. out = {} /\ r.table = b.table /\ r.mem = b.mem
        /\ (FullLevel(k) => r.outcome # "running")
    BY <1>1, <1>6 DEF WrittenNowhere, WrittenEnd
  <2>2. flushed = {}
    BY <2>1 DEF Flushed
  <2>3. z = r
    BY <1>0, <1>5, <2>2 DEF Settle
  <2> QED
    BY <1>1, <2>1, <2>3, UnchangedKeeps
<1>7. CASE WrittenFree(b, r, out, k, adr, new)
  <2>1. flushed = {}
    BY <1>7 DEF WrittenFree, Flushed
  <2>2. z = r
    BY <1>0, <1>5, <2>1 DEF Settle
  <2> DEFINE gone == {}
  <2>3. /\ Lookup(b, k, adr) \subseteq gone /\ Replaced(b, r, k, adr, gone, new)
        /\ gone \subseteq b.table[k][Index(k, adr)]
    BY <1>7 DEF WrittenFree
  <2> HIDE DEF gone
  <2>4. /\ Lookup(r, k, adr) = {new}
        /\ \A u \in Asked : Tag(u) # Tag(adr) => Lookup(r, k, u) = Lookup(b, k, u) \ gone
    BY <1>2, <2>3, ReplacedLookup
  <2>5. Inserted(b, r, k, adr, d)
    BY <1>2, <1>3, <2>4 DEF Inserted, gone
  <2> QED
    BY <1>1, <2>2, <2>5, InsertedKeeps
<1>8. ASSUME NEW victim \in Named(b, k, adr),
             WrittenVictim(b, r, out, k, adr, new, victim)
      PROVE  Good(z) /\ ContentKept(b, z, k, adr, d)
  <2>1. /\ victim \in Lines /\ victim.tag \in Tags
        /\ Lookup(b, k, victim.tag) = {victim}
        /\ {victim} \subseteq b.table[k][Index(k, adr)]
    BY NamedIs
  <2>2. /\ Lookup(b, k, adr) = {} /\ out = {SetEvacuated(victim)}
        /\ Replaced(b, r, k, adr, {victim}, new)
    BY <1>8 DEF WrittenVictim
  <2>3. victim.tag # Tag(adr)
    BY <2>1, <2>2, LookupIs
  <2>4. new.data \in BOOLEAN
    BY <1>2, LineFields
  <2>5. /\ SetEvacuated(victim).evacuated
        /\ SetEvacuated(victim).invalid = victim.invalid
        /\ SetEvacuated(victim).tag = victim.tag
        /\ SetEvacuated(victim).data = victim.data
    BY <1>2, <2>1, <2>4, NewLines
  <2>6. ~WrittenHit(b, r, out, k, adr, new)
    BY <2>2 DEF WrittenHit
  <2>7. z = m
    BY <2>6, SettleCases
  <2>8. /\ Lookup(m, k, adr) = {new}
        /\ \A u \in Tags : u # Tag(adr) => Lookup(m, k, u) = Lookup(b, k, u) \ {victim}
    <3>1. /\ Lookup(r, k, adr) = {new}
          /\ \A u \in Asked : Tag(u) # Tag(adr) =>
                Lookup(r, k, u) = Lookup(b, k, u) \ {victim}
      <4> DEFINE gone == {victim}
      <4>1. /\ Lookup(b, k, adr) \subseteq gone /\ Replaced(b, r, k, adr, gone, new)
            /\ gone \subseteq b.table[k][Index(k, adr)]
        BY <2>1, <2>2
      <4> HIDE DEF gone
      <4>2. /\ Lookup(r, k, adr) = {new}
            /\ \A u \in Asked : Tag(u) # Tag(adr) =>
                  Lookup(r, k, u) = Lookup(b, k, u) \ gone
        BY <1>2, <4>1, ReplacedLookup
      <4> QED
        BY <4>2 DEF gone
    <3> QED
      BY <1>2, <1>4, <3>1
  <2>9. \A u \in Tags : u # victim.tag => victim \notin Lookup(b, k, u)
    BY <1>2, LookupIs
  <2>10. /\ \A u \in Tags : u # victim.tag =>
                DataFrom(m, k + 1, u) = DataFrom(b, k + 1, u)
         /\ Kept(m, k) => DataFrom(m, k + 1, victim.tag) = victim.data
    <3>1. CASE victim.invalid
      <4>1. flushed = {SetEvacuated(victim)}
        BY <2>2, <2>5, <3>1 DEF Flushed
      <4>2. StoredBelow(r, m, k, victim.tag, victim.data)
        BY <1>0, <2>5, <4>1 DEF PassedOn
      <4> QED
        BY <1>3, <4>2 DEF StoredBelow
    <3>2. CASE ~victim.invalid
      <4>1. flushed = {}
        BY <2>2, <2>5, <3>2 DEF Flushed
      <4>2. DataFrom(b, k + 1, victim.tag) = victim.data
        BY <2>1, <3>2 DEF CleanAt
      <4> QED
        BY <1>3, <1>5, <2>1, <4>1, <4>2
    <3> QED
      BY <3>1, <3>2
  <2>11. new.invalid \/ d = DataFrom(m, k + 1, Tag(adr))
    BY <1>2, <2>3, <2>10
  <2>12. ASSUME NEW u \in Tags, u # Tag(adr)
         PROVE  \/ /\ Lookup(m, k, u) = Lookup(b, k, u)
                   /\ DataFrom(m, k + 1, u) = DataFrom(b, k + 1, u)
                \/ /\ Lookup(m, k, u) = {}
                   /\ \E line : /\ Lookup(b, k, u) = {line}
                                /\ Kept(m, k) => DataFrom(m, k + 1, u) = line.data
    <3>1. CASE u = victim.tag
      BY <2>1, <2>8, <2>10, <2>12, <3>1
    <3>2. CASE u # victim.tag
      BY <2>8, <2>9, <2>10, <2>12, <3>2
    <3> QED
      BY <3>1, <3>2
  <2>13. Inserted(b, m, k, adr, d)
    BY <1>2, <2>8, <2>11, <2>12 DEF Inserted
  <2> QED
    BY <1>1, <2>7, <2>13, InsertedKeeps
<1>9. CASE WrittenHit(b, r, out, k, adr, new)
  <2>1. /\ new.invalid /\ out = {new}
        /\ Replaced(b, r, k, adr, Lookup(b, k, adr), new)
        /\ ~new.evacuated
    BY <1>0, <1>9 DEF WrittenHit, IsNew
  <2>2. /\ Lookup(b, k, adr) \subseteq b.table[k][Index(k, adr)]
        /\ \A line \in Lookup(b, k, adr) : line.tag = Tag(adr)
        /\ \A u \in Tags : \A line \in Lookup(b, k, u) : line.tag = u
    BY <1>2, LookupIs
  <2>3. /\ Lookup(m, k, adr) = {new}
        /\ \A u \in Tags : u # Tag(adr) => Lookup(m, k, u) = Lookup(b, k, u)
    <3> DEFINE gone == Lookup(b, k, adr)
    <3>1. Lookup(b, k, adr) \subseteq gone /\ gone \subseteq b.table[k][Index(k, adr)]
      BY <2>2
    <3>2. Replaced(b, r, k, adr, gone, new)
      BY <2>1
    <3>3. \A u \in Tags : u # Tag(adr) => Lookup(b, k, u) \ gone = Lookup(b, k, u)
      BY <2>2
    <3> HIDE DEF gone
    <3>4. /\ Lookup(r, k, adr) = {new}
          /\ \A u \in Asked : Tag(u) # Tag(adr) =>
                Lookup(r, k, u) = Lookup(b, k, u) \ gone
      BY <1>2, <3>1, <3>2, ReplacedLookup
    <3> QED
      BY <1>2, <1>4, <3>3, <3>4
  <2>4. CASE flushed = {}
    <3>1. z = m /\ m = r
      BY <1>0, <1>5, <2>4 DEF Settle
    <3>2. Inserted(b, z, k, adr, d)
      BY <1>2, <1>3, <2>1, <2>3, <3>1 DEF Inserted
    <3> QED
      BY <1>1, <3>1, <3>2, InsertedKeeps
  <2>5. CASE flushed # {}
    <3>1. flushed = {new}
      BY <2>1, <2>5 DEF Flushed
    <3>2. StoredBelow(r, m, k, Tag(adr), d)
      BY <1>0, <1>2, <3>1 DEF PassedOn
    <3>3. /\ \A u \in Tags : u # Tag(adr) =>
                DataFrom(m, k + 1, u) = DataFrom(b, k + 1, u)
          /\ Kept(m, k) => DataFrom(m, k + 1, Tag(adr)) = d
      BY <1>3, <3>2 DEF StoredBelow
    <3>4. CASE z = m
      <4>1. Inserted(b, m, k, adr, d)
        BY <1>2, <2>1, <2>3, <3>3 DEF Inserted
      <4> QED
        BY <1>1, <3>4, <4>1, InsertedKeeps
    <3>5. CASE z # m
      <4>1. /\ m.outcome = "running"
            /\ Level(k).writePolicy = WRITE_THROUGH
            /\ new \in m.table[k][Index(k, new.tag)]
            /\ Lookup(m, k, new.tag) = {new}
            /\ Replaced(m, z, k, new.tag, {new}, SetEntryValid(new))
        <5>1. \/ z = m /\ (\/ m.outcome # "running"
                            \/ ~WrittenHit(b, r, out, k, adr, new)
                            \/ Level(k).writePolicy = WRITE_BACK)
              \/ /\ m.outcome = "running"
                 /\ WrittenHit(b, r, out, k, adr, new)
                 /\ Level(k).writePolicy = WRITE_THROUGH
                 /\ Flushed(Level(k), out) = {new}
                 /\ new \in m.table[k][Index(k, new.tag)]
                 /\ Lookup(m, k, new.tag) = {new}
                 /\ Replaced(m, z, k, new.tag, {new}, SetEntryValid(new))
          BY SettleCases
        <5> QED
          BY <3>5, <5>1
      <4> DEFINE clean == SetEntryValid(new)
                 t == Tag(adr)
      <4>2. clean \in Lines /\ clean.tag = t /\ clean.data = d
        BY <1>2, NewLines, LineFields
      <4>3. /\ t \in Asked /\ Tag(t) = t /\ t = new.tag
        BY <1>2
      <4> HIDE DEF clean, t
      <4>4. /\ Lookup(m, k, t) \subseteq {new} /\ Replaced(m, z, k, t, {new}, clean)
            /\ {new} \subseteq m.table[k][Index(k, t)]
        BY <4>1, <4>3 DEF clean
      <4>5. /\ Lookup(z, k, t) = {clean}
            /\ \A u \in Asked : Tag(u) # Tag(t) => Lookup(z, k, u) = Lookup(m, k, u) \ {new}
        BY <1>1, <4>2, <4>3, <4>4, ReplacedLookup
      <4>6. Good(z) /\ z.outcome = m.outcome
        BY <4>4 DEF Replaced
      <4>7. \A u \in Tags : DataFrom(z, k + 1, u) = DataFrom(m, k + 1, u)
        BY <4>4, SameBelow DEF Replaced
      <4>8. Lookup(z, k, adr) = {clean}
        BY <4>5, <4>6, LookupIs DEF t
      <4>9. \A u \in Tags : u # Tag(adr) => Lookup(z, k, u) = Lookup(b, k, u)
        <5>1. SUFFICES ASSUME NEW u \in Tags, u # Tag(adr)
                       PROVE  Lookup(z, k, u) = Lookup(b, k, u)
          OBVIOUS
        <5>2. Lookup(m, k, u) = Lookup(b, k, u)
          BY <2>3, <5>1
        <5>3. new \notin Lookup(b, k, u)
          BY <1>2, <2>2, <5>1
        <5>4. Lookup(z, k, u) = Lookup(m, k, u) \ {new}
          BY <1>2, <4>3, <4>5, <5>1 DEF t
        <5> QED
          BY <5>2, <5>3, <5>4
      <4>10. AllFullBelow(k)
        BY <4>1 DEF Sound, WRITE_THROUGH, WRITE_BACK
      <4>11. d = DataFrom(z, k + 1, Tag(adr))
        BY <1>2, <3>3, <4>1, <4>7, <4>10 DEF Kept
      <4>12. Inserted(b, z, k, adr, d)
        BY <1>2, <3>3, <4>2, <4>7, <4>8, <4>9, <4>11 DEF Inserted
      <4> QED
        BY <4>6, <4>12, InsertedKeeps
    <3> QED
      BY <3>4, <3>5
  <2> QED
    BY <2>4, <2>5
<1> QED
  BY <1>6, <1>7, <1>8, <1>9, <1>0 DEF Written

\* What a request to level k that goes from b over m to z leaves alone.
HandledSame(b, m, z, k) ==
    /\ Good(z)
    /\ z.outcome = "running" => b.outcome = "running"
    /\ z.outcome = m.outcome /\ z.order = m.order /\ z.mem = m.mem
    /\ \A j \in Levels : j # k => z.table[j] = m.table[j]
    /\ \A j \in Levels : j < k => z.table[j] = b.table[j]
    /\ \A j \in Levels : j <= k => z.order[j] = b.order[j]

LEMMA HandledFrame ==
    ASSUME config \in Configs, NEW b, Good(b), NEW r, NEW out, NEW k \in Levels,
           NEW adr \in Asked, NEW d, NEW new, NEW m, NEW z,
           Handled(b, r, out, m, z, k, adr, d, new)
    PROVE  HandledSame(b, m, z, k)
<1>1. Written(b, r, out, k, adr, new) /\ PassedOn(r, m, k, out)
  BY DEF Handled
<1>2. k \in Int /\ Levels \subseteq Int
  BY LevelsAre
<1>3. /\ Good(r) /\ r.order = b.order
      /\ r.outcome = "running" => b.outcome = "running"
      /\ \A j \in Levels : j # k => r.table[j] = b.table[j]
  BY <1>1, WrittenFrame
<1>4. /\ Good(m)
      /\ m.outcome = "running" => r.outcome = "running"
      /\ \A j \in Levels : j <= k => m.table[j] = r.table[j] /\ m.order[j] = r.order[j]
  BY <1>1, <1>3, PassedOnFrame
<1>5. \/ z = m
      \/ Replaced(m, z, k, new.tag, {new}, SetEntryValid(new))
  BY SettleCases
<1>6. /\ Good(z) /\ z.outcome = m.outcome /\ z.order = m.order /\ z.mem = m.mem
      /\ \A j \in Levels : j # k => z.table[j] = m.table[j]
  BY <1>4, <1>5 DEF Replaced
<1> QED
  BY <1>2, <1>3, <1>4, <1>6 DEF HandledSame

------------------------------------------------------------------------------
(* The order lists *)

LEMMA AddAccessType ==
    ASSUME NEW S, NEW list \in Seq(S), NEW n \in Nat \ {0}, NEW x \in S
    PROVE  /\ AddAccess(list, n, x) \in Seq(S)
           /\ Len(AddAccess(list, n, x)) =
                IF Len(list) >= n THEN Len(list) ELSE Len(list) + 1
           /\ Last(AddAccess(list, n, x)) = x
<1> DEFINE rest == IF Len(list) >= n THEN Tail(list) ELSE list
<1>1. Len(list) \in Nat
  BY LenProperties
<1>2. /\ rest \in Seq(S)
      /\ Len(rest) = IF Len(list) >= n THEN Len(list) - 1 ELSE Len(list)
  <2>1. CASE Len(list) >= n
    <3>1. list # << >>
      BY <1>1, <2>1, EmptySeq
    <3> QED
      BY <2>1, <3>1, HeadTailProperties
  <2>2. CASE ~(Len(list) >= n)
    BY <2>2
  <2> QED
    BY <2>1, <2>2
<1>3. AddAccess(list, n, x) = Append(rest, x)
  BY DEF AddAccess
<1> HIDE DEF rest
<1>4. /\ Append(rest, x) \in Seq(S) /\ Len(Append(rest, x)) = Len(rest) + 1
      /\ Append(rest, x)[Len(rest) + 1] = x
  BY <1>2, AppendProperties
<1> QED
  BY <1>1, <1>2, <1>3, <1>4 DEF Last

LEMMA UpdateListType ==
    ASSUME config \in Configs, NEW k \in Levels, NEW list \in Seq(Tags),
           Len(list) <= Level(k).setSize, NEW t \in Tags
    PROVE  /\ UpdateList(k, list, t) \in Seq(Tags)
           /\ Len(UpdateList(k, list, t)) <= Level(k).setSize
<1>1. Level(k).setSize \in Nat \ {0} /\ Len(list) \in Nat
  BY Configured, LenProperties
<1>2. CASE Level(k).assoc = "FULL_ASSOC" /\ t \in ToSet(list)
  <2> DEFINE e == CHOOSE entry \in DOMAIN list : list[entry] = t
  <2>1. e \in 1..Len(list)
    BY <1>2, LenProperties DEF ToSet
  <2>2. UpdateList(k, list, t) = Append(RemoveAt(list, e), t)
    BY <1>2 DEF UpdateList, MoveToEnd
  <2> HIDE DEF e
  <2>3. /\ Append(RemoveAt(list, e), t) \in Seq(Tags)
        /\ Len(Append(RemoveAt(list, e), t)) = Len(list)
    BY <2>1, MovedEntries DEF IsMoved
  <2> QED
    BY <2>2, <2>3
<1>3. CASE ~(Level(k).assoc = "FULL_ASSOC" /\ t \in ToSet(list))
  <2>1. UpdateList(k, list, t) = AddAccess(list, Level(k).setSize, t)
    BY <1>3 DEF UpdateList
  <2> DEFINE n == Level(k).setSize
  <2>2. n \in Nat \ {0} /\ Len(list) <= n
    BY <1>1
  <2> HIDE DEF n
  <2>3. /\ AddAccess(list, n, t) \in Seq(Tags)
        /\ Len(AddAccess(list, n, t)) =
                IF Len(list) >= n THEN Len(list) ELSE Len(list) + 1
    BY <2>2, AddAccessType
  <2>4. Len(AddAccess(list, n, t)) <= n
    BY <1>1, <2>2, <2>3
  <2> QED
    BY <2>1, <2>3, <2>4 DEF n
<1> QED
  BY <1>2, <1>3

LEMMA UpdateIs ==
    ASSUME config \in Configs, NEW s, Good(s), NEW k \in Levels, NEW adr \in Asked,
           NEW r, r = Update(s, k, adr)
    PROVE  /\ Good(r)
           /\ r.table = s.table /\ r.outcome = s.outcome /\ r.mem = s.mem
           /\ \A j \in Levels : j # k => r.order[j] = s.order[j]
           /\ s.outcome = "running" => \A i \in Sets(k) :
                r.order[k][i] = IF i = Index(k, adr)
                                THEN UpdateList(k, s.order[k][i], Tag(adr))
                                ELSE s.order[k][i]
           /\ \A j, u : DataFrom(r, j, u) = DataFrom(s, j, u)
<1> DEFINE i == Index(k, adr)
           list == UpdateList(k, s.order[k][i], Tag(adr))
<1>1. i \in Sets(k) /\ Tag(adr) \in Tags
  BY IndexOfTag, AskedTag
<1>2. list \in Seq(Tags) /\ Len(list) <= Level(k).setSize
  BY <1>1, GoodSet, UpdateListType
<1>3. CASE s.outcome # "running"
  BY <1>3 DEF Update
<1>4. CASE s.outcome = "running"
  <2>1. r = [s EXCEPT !.order[k][i] = list]
    BY <1>4 DEF Update
  <2> HIDE DEF list, i
  <2>2. /\ Good(r)
        /\ r.table = s.table /\ r.outcome = s.outcome /\ r.mem = s.mem
        /\ \A j \in Levels : j # k => r.order[j] = s.order[j]
        /\ \A l \in Sets(k) : r.order[k][l] = IF l = i THEN list ELSE s.order[k][l]
    BY <1>1, <1>2, <2>1, PutList
  <2>3. \A j, u : Lookup(r, j, u) = Lookup(s, j, u)
    BY <2>2 DEF Lookup
  <2>4. \A j, u : DataFrom(r, j, u) = DataFrom(s, j, u)
    BY <2>2, <2>3, DataFromSame
  <2>5. \A l \in Sets(k) : r.order[k][l] =
            IF l = Index(k, adr) THEN UpdateList(k, s.order[k][l], Tag(adr))
            ELSE s.order[k][l]
    BY <2>2 DEF list, i
  <2> QED
    BY <2>2, <2>4, <2>5
<1> QED
  BY <1>3, <1>4

LEMMA UpdateClean ==
    ASSUME config \in Configs, NEW s, Good(s), NEW k \in Levels, NEW adr \in Asked,
           NEW n \in Levels, CleanAt(s, n), NEW r, r = Update(s, k, adr)
    PROVE  CleanAt(r, n)
<1>1. /\ r.table = s.table
      /\ \A j, u : DataFrom(r, j, u) = DataFrom(s, j, u)
  BY UpdateIs
<1>2. \A u : Lookup(r, n, u) = Lookup(s, n, u)
  BY <1>1 DEF Lookup
<1> QED
  BY <1>1, <1>2 DEF CleanAt

------------------------------------------------------------------------------
(* The last level *)

LEMMA LastLevelIs ==
    ASSUME config \in Configs, NEW k \in Levels, LastLevel(k)
    PROVE  /\ k \in {1, 2} /\ k + 1 \in 1..3
           /\ \A j \in Levels : j \in {1, 2} /\ j <= k
           /\ AllFullBelow(k) /\ Sound(k)
           /\ \A s : Kept(s, k)
<1>1. k \in {1, 2} /\ k + 1 \in 1..3 /\ \A j \in Levels : j \in {1, 2} /\ j <= k
  BY LevelsAre DEF LastLevel
<1> QED
  BY <1>1 DEF AllFullBelow, Sound, Kept

LEMMA StoreInMemIs ==
    ASSUME config \in Configs, NEW r, Good(r), NEW k \in Levels, LastLevel(k),
           NEW t \in Tags, NEW d \in BOOLEAN, NEW m, m = [r EXCEPT !.mem[t] = d]
    PROVE  StoredBelow(r, m, k, t, d)
<1>1. /\ Good(m)
      /\ m.table = r.table /\ m.order = r.order /\ m.outcome = r.outcome
      /\ \A u \in Tags : m.mem[u] = IF u = t THEN d ELSE r.mem[u]
  BY PutMem
<1>2. ASSUME NEW x, Good(x), NEW u \in Tags
      PROVE  DataFrom(x, k + 1, u) = x.mem[u]
  <2> DEFINE n == k + 1
  <2>1. n \in 1..3 /\ n \notin Levels /\ u \in Asked /\ Tag(u) = u
    BY LastLevelIs, TagsAreAsked DEF LastLevel
  <2> HIDE DEF n
  <2>2. DataFrom(x, n, u) = x.mem[u]
    BY <1>2, <2>1, DataFromIs
  <2> QED
    BY <2>2 DEF n
<1>3. \A u \in Tags : DataFrom(m, k + 1, u) = m.mem[u] /\ DataFrom(r, k + 1, u) = r.mem[u]
  BY <1>1, <1>2
<1>4. \A u \in Tags : DataFrom(m, k + 1, u) = IF u = t THEN d ELSE DataFrom(r, k + 1, u)
  BY <1>1, <1>3
<1>5. DataFrom(m, k + 1, t) = d
  BY <1>4
<1>6. \A u \in Tags : u # t => DataFrom(m, k + 1, u) = DataFrom(r, k + 1, u)
  BY <1>4
<1> QED
  BY <1>1, <1>5, <1>6 DEF StoredBelow

LEMMA PassedOnToMem ==
    ASSUME config \in Configs, NEW b, Good(b), NEW r, NEW out, NEW k \in Levels,
           LastLevel(k),
           NEW adr \in Asked, NEW d, NEW new, IsNew(new, adr, d),
           Written(b, r, out, k, adr, new)
    PROVE  PassedOn(r, StoreInMem(r, Flushed(Level(k), out)), k, out)
<1> DEFINE flushed == Flushed(Level(k), out)
<1>1. Good(r)
  BY WrittenFrame
<1>2. CASE flushed = {}
  BY <1>2 DEF PassedOn, StoreInMem
<1>3. CASE flushed # {}
  <2>1. PICK line \in flushed : TRUE
    BY <1>3
  <2>2. TheLine(flushed) = line /\ line \in Lines
    BY <2>1, FlushedIs
  <2>3. line.tag \in Tags /\ line.data \in BOOLEAN
    BY <2>2, LineFields
  <2>4. StoreInMem(r, flushed) = [r EXCEPT !.mem[line.tag] = line.data]
    BY <1>3, <2>2 DEF StoreInMem
  <2>5. StoredBelow(r, StoreInMem(r, flushed), k, line.tag, line.data)
    BY <1>1, <2>3, <2>4, StoreInMemIs
  <2> QED
    BY <2>1, <2>5 DEF PassedOn
<1> QED
  BY <1>2, <1>3

LEMMA OverMemHandled ==
    ASSUME config \in Configs, NEW b, Good(b), NEW w, NEW k \in Levels,
           LastLevel(k),
           NEW adr \in Asked, NEW d, NEW new, IsNew(new, adr, d),
           Written(b, w.state, w.line, k, adr, new)
    PROVE  \E m : Handled(b, w.state, w.line, m, WritePolicyOverMem(w, k), k, adr, d, new)
<1> DEFINE flushed == Flushed(Level(k), w.line)
           m == StoreInMem(w.state, flushed)
<1>1. WritePolicyOverMem(w, k) = Settle(m, k, flushed)
  BY DEF WritePolicyOverMem
<1>2. PassedOn(w.state, m, k, w.line)
  BY PassedOnToMem
<1> HIDE DEF m
<1>3. Handled(b, w.state, w.line, m, WritePolicyOverMem(w, k), k, adr, d, new)
  BY <1>1, <1>2 DEF Handled
<1> QED
  BY <1>3

\* A request to a level that has nothing to pass on and writes nothing.
LEMMA NothingToHandle ==
    ASSUME NEW w, NEW k, w.line = {}
    PROVE  /\ Flushed(Level(k), w.line) = {}
           /\ WritePolicyOverMem(w, k) = w.state
BY DEF WritePolicyOverMem, Flushed, StoreInMem, Settle

\* The other levels, and how the program goes on.
OthersSame(s, r, k) ==
    /\ \A j \in Levels : j # k => r.table[j] = s.table[j] /\ r.order[j] = s.order[j]
    /\ r.outcome = "running" => s.outcome = "running"

\* A load from the last level changes nothing that a load could see.
LEMMA LoadLastIs ==
    ASSUME config \in Configs, NEW s, Good(s), NEW k \in Levels, LastLevel(k),
           CleanAt(s, k), NEW adr \in Asked, NEW prefetching \in BOOLEAN,
           NEW r, r = LoadLast(s, k, adr, prefetching)
    PROVE  /\ Good(r) /\ CleanAt(r, k)
           /\ OthersSame(s, r, k)
           /\ \A u \in Tags : DataFrom(r, k, u) = DataFrom(s, k, u)
<1> DEFINE w == LoadEntry(s, k, adr, s)
           z == WritePolicyOverMem(w, k)
<1>1. r = IF prefetching THEN z ELSE Update(z, k, adr)
  BY DEF LoadLast
<1>2. /\ Tag(adr) \in Tags /\ \A u \in Tags : u \in Asked /\ Tag(u) = u
      /\ k \in 1..3 /\ Sound(k) /\ (\A x : Kept(x, k))
      /\ \A j \in Levels : j # k => j < k
      /\ \A j \in Levels : j <= k
  BY AskedTag, TagsAreAsked, LastLevelIs
<1>3. /\ Good(z) /\ CleanAt(z, k) /\ OthersSame(s, z, k)
      /\ \A u \in Tags : DataFrom(z, k, u) = DataFrom(s, k, u)
  <2> DEFINE d == DataFrom(s, k + 1, adr)
  <2>1. CASE Lookup(s, k, adr) # {}
    <3>1. w.state = s /\ w.line = {}
      BY <2>1 DEF LoadEntry
    <3>2. z = s
      BY <3>1, NothingToHandle
    <3> QED
      BY <3>2 DEF OthersSame
  <2>2. CASE Lookup(s, k, adr) = {}
    <3>1. PICK new : /\ IsNew(new, adr, d) /\ ~new.invalid
                     /\ Written(s, w.state, w.line, k, adr, new)
      BY <2>2, LoadEntryCases
    <3>2. d = DataFrom(s, k + 1, Tag(adr)) /\ DataFrom(s, k, Tag(adr)) = d
      <4> DEFINE n == k + 1
      <4>1. n \in 1..3
        BY LastLevelIs
      <4>2. DataFrom(s, n, Tag(adr)) = DataFrom(s, n, adr)
        <5> HIDE DEF n
        <5> QED
          BY <4>1, DataFromIs
      <4>3. DataFrom(s, k, Tag(adr)) = DataFrom(s, k, adr)
        BY <1>2, DataFromIs
      <4>4. DataFrom(s, k, adr) = DataFrom(s, k + 1, adr)
        BY <1>2, <2>2, DataFromIs
      <4> QED
        BY <4>2, <4>3, <4>4
    <3> HIDE DEF w, d, z
    <3>3. PICK m : Handled(s, w.state, w.line, m, z, k, adr, d, new)
      BY <3>1, OverMemHandled DEF z
    <3>4. Good(z) /\ ContentKept(s, z, k, adr, d)
      <4>1. new.invalid \/ d = DataFrom(s, k + 1, Tag(adr))
        BY <3>2
      <4>2. Sound(k)
        BY <1>2
      <4> QED
        BY <3>3, <4>1, <4>2, WriteContent
    <3>5. OthersSame(s, z, k)
      <4>1. HandledSame(s, m, z, k)
        BY <3>3, HandledFrame
      <4> QED
        BY <1>2, <4>1 DEF OthersSame, HandledSame
    <3>6. \A u \in Tags : DataFrom(z, k, u) = DataFrom(s, k, u)
      BY <1>2, <3>2, <3>4 DEF ContentKept
    <3> QED
      BY <3>4, <3>5, <3>6 DEF ContentKept
  <2> QED
    BY <2>1, <2>2
<1> HIDE DEF z
<1>4. CASE prefetching
  BY <1>1, <1>3, <1>4
<1>5. CASE ~prefetching
  <2>1. r = Update(z, k, adr)
    BY <1>1, <1>5
  <2>2. /\ Good(r)
        /\ r.table = z.table /\ r.outcome = z.outcome
        /\ \A j \in Levels : j # k => r.order[j] = z.order[j]
        /\ \A j, u : DataFrom(r, j, u) = DataFrom(z, j, u)
    BY <1>3, <2>1, UpdateIs
  <2>3. CleanAt(r, k)
    BY <1>3, <2>1, UpdateClean
  <2>4. OthersSame(s, r, k)
    BY <1>3, <2>2 DEF OthersSame
  <2> QED
    BY <1>3, <2>2, <2>3, <2>4
<1> QED
  BY <1>4, <1>5

\* A store to the last level changes no other line, and a fully associative
\* level keeps it.
LEMMA StoreLastIs ==
    ASSUME config \in Configs, NEW s, Good(s), NEW k \in Levels, LastLevel(k),
           CleanAt(s, k), NEW adr \in Asked, NEW d \in BOOLEAN,
           NEW r, r = StoreLast(s, k, adr, d)
    PROVE  /\ Good(r) /\ CleanAt(r, k)
           /\ OthersSame(s, r, k)
           /\ \A u \in Tags : u # Tag(adr) => DataFrom(r, k, u) = DataFrom(s, k, u)
           /\ DataFrom(r, k, Tag(adr)) \in {d, DataFrom(s, k, Tag(adr))}
           /\ FullLevel(k) /\ r.outcome = "running" => DataFrom(r, k, Tag(adr)) = d
<1> DEFINE w == StoreEntry(s, k, adr, d, s)
           z == WritePolicyOverMem(w, k)
<1>1. r = Update(z, k, adr)
  BY DEF StoreLast
<1>2. /\ Tag(adr) \in Tags
      /\ Sound(k) /\ (\A x : Kept(x, k))
      /\ \A j \in Levels : j # k => j < k
      /\ \A j \in Levels : j <= k
  BY AskedTag, LastLevelIs
<1>3. PICK new : /\ IsNew(new, adr, d) /\ new.invalid
                 /\ Written(s, w.state, w.line, k, adr, new)
  BY StoreEntryCases
<1> HIDE DEF w, z
<1>4. PICK m : Handled(s, w.state, w.line, m, z, k, adr, d, new)
  BY <1>3, OverMemHandled DEF z
<1>5. Good(z) /\ ContentKept(s, z, k, adr, d)
  <2>1. new.invalid \/ d = DataFrom(s, k + 1, Tag(adr))
    BY <1>3
  <2>2. Sound(k)
    BY <1>2
  <2> QED
    BY <1>4, <2>1, <2>2, WriteContent
<1>6. OthersSame(s, z, k)
  <2>1. HandledSame(s, m, z, k)
    BY <1>4, HandledFrame
  <2> QED
    BY <1>2, <2>1 DEF OthersSame, HandledSame
<1>7. /\ Good(r)
      /\ r.table = z.table /\ r.outcome = z.outcome
      /\ \A j \in Levels : j # k => r.order[j] = z.order[j]
      /\ \A j, u : DataFrom(r, j, u) = DataFrom(z, j, u)
  BY <1>1, <1>5, UpdateIs
<1>8. CleanAt(r, k)
  BY <1>1, <1>5, UpdateClean DEF ContentKept
<1>9. OthersSame(s, r, k)
  BY <1>6, <1>7 DEF OthersSame
<1> QED
  BY <1>2, <1>5, <1>7, <1>8, <1>9 DEF ContentKept

------------------------------------------------------------------------------
(* The first level over another one *)

LEMMA TwoLevelsAre ==
    ASSUME config \in Configs, 2 \in Levels
    PROVE  /\ Levels = {1, 2} /\ LastLevel(2) /\ ~LastLevel(1)
           /\ Sound(2) /\ (\A x : Kept(x, 2))
           /\ AllFullBelow(1) <=> FullLevel(2)
           /\ \A x : Kept(x, 1) <=> FullLevel(2) /\ x.outcome = "running"
<1>1. Levels = {1, 2}
  BY LevelsAre
<1>2. LastLevel(2) /\ ~LastLevel(1)
  BY <1>1 DEF LastLevel
<1>3. Sound(2) /\ (\A x : Kept(x, 2))
  BY <1>1, <1>2, LastLevelIs
<1>4. AllFullBelow(1) <=> FullLevel(2)
  BY <1>1 DEF AllFullBelow
<1> QED
  BY <1>1, <1>2, <1>3, <1>4 DEF Kept

LEMMA CleanSecond ==
    ASSUME config \in Configs, 2 \in Levels, NEW x, NEW y,
           y.table[2] = x.table[2], y.mem = x.mem, CleanAt(x, 2)
    PROVE  CleanAt(y, 2)
<1>1. \A u : Lookup(y, 2, u) = Lookup(x, 2, u)
  BY DEF Lookup
<1>2. \A u : DataFrom(y, 3, u) = DataFrom(x, 3, u)
  <2>1. \A j \in Levels : ~(j >= 3)
    BY TwoLevelsAre
  <2> DEFINE n == 3
  <2>2. \A j \in Levels : \A u : j >= n => Lookup(y, j, u) = Lookup(x, j, u)
    BY <2>1
  <2> HIDE DEF n
  <2>3. \A u : DataFrom(y, n, u) = DataFrom(x, n, u)
    BY <2>2, DataFromSame
  <2> QED
    BY <2>3 DEF n
<1> QED
  BY <1>1, <1>2 DEF CleanAt

LEMMA NextLevelStored ==
    ASSUME config \in Configs, 2 \in Levels, NEW b, Good(b), CleanAt(b, 2),
           NEW r, NEW out, NEW adr \in Asked, NEW d, NEW new, IsNew(new, adr, d),
           Written(b, r, out, 1, adr, new),
           NEW m, m = NextLevelStore(r, Flushed(Level(1), out))
    PROVE  PassedOn(r, m, 1, out) /\ CleanAt(m, 2)
<1> DEFINE flushed == Flushed(Level(1), out)
<1>1. Levels = {1, 2} /\ LastLevel(2)
  BY TwoLevelsAre
<1>2. /\ Good(r) /\ r.mem = b.mem
      /\ \A j \in Levels : j # 1 => r.table[j] = b.table[j]
  BY <1>1, WrittenFrame
<1>3. CleanAt(r, 2)
  BY <1>1, <1>2, CleanSecond
<1>4. CASE flushed = {}
  <2>1. m = r
    BY <1>4 DEF NextLevelStore, StoreInMem
  <2> QED
    BY <1>3, <1>4, <2>1 DEF PassedOn
<1>5. CASE flushed # {}
  <2>1. PICK line \in flushed : TRUE
    BY <1>5
  <2>2. TheLine(flushed) = line /\ line \in Lines
    BY <1>1, <2>1, FlushedIs
  <2>3. line.tag \in Tags /\ line.data \in BOOLEAN
    BY <2>2, LineFields
  <2>4. line.tag \in Asked /\ Tag(line.tag) = line.tag
    BY <2>3, TagsAreAsked
  <2>5. m = StoreLast(r, 2, line.tag, line.data)
    BY <1>5, <2>2 DEF NextLevelStore
  <2> DEFINE t == line.tag
             e == line.data
  <2>6. t \in Asked /\ t \in Tags /\ e \in BOOLEAN /\ m = StoreLast(r, 2, t, e)
        /\ Tag(t) = t
    BY <2>3, <2>4, <2>5
  <2> HIDE DEF t, e
  <2>7. /\ Good(m) /\ CleanAt(m, 2)
        /\ OthersSame(r, m, 2)
        /\ \A u \in Tags : u # Tag(t) => DataFrom(m, 2, u) = DataFrom(r, 2, u)
        /\ DataFrom(m, 2, Tag(t)) \in {e, DataFrom(r, 2, Tag(t))}
        /\ FullLevel(2) /\ m.outcome = "running" => DataFrom(m, 2, Tag(t)) = e
    BY <1>1, <1>2, <1>3, <2>6, StoreLastIs
  <2>8. Kept(m, 1) => FullLevel(2) /\ m.outcome = "running"
    BY TwoLevelsAre
  <2>9. StoredBelow(r, m, 1, t, e)
    BY <1>1, <2>6, <2>7, <2>8 DEF StoredBelow, OthersSame
  <2> QED
    BY <2>1, <2>7, <2>9 DEF PassedOn, t, e
<1> QED
  BY <1>4, <1>5

LEMMA OverLevelHandled ==
    ASSUME config \in Configs, 2 \in Levels, NEW b, Good(b), CleanAt(b, 2),
           NEW w, NEW adr \in Asked, NEW d, NEW new, IsNew(new, adr, d),
           Written(b, w.state, w.line, 1, adr, new),
           NEW z, z = HandleWritePolicy(w)
    PROVE  /\ \E m : Handled(b, w.state, w.line, m, z, 1, adr, d, new)
           /\ Good(z) /\ CleanAt(z, 2)
           /\ z.outcome = "running" => b.outcome = "running"
<1> DEFINE flushed == Flushed(Level(1), w.line)
           m == NextLevelStore(w.state, flushed)
<1>1. z = Settle(m, 1, flushed)
  BY DEF HandleWritePolicy
<1>2. Levels = {1, 2}
  BY TwoLevelsAre
<1>3. PassedOn(w.state, m, 1, w.line) /\ CleanAt(m, 2)
  BY NextLevelStored
<1> HIDE DEF m
<1>4. Handled(b, w.state, w.line, m, z, 1, adr, d, new)
  BY <1>1, <1>3 DEF Handled
<1>5. HandledSame(b, m, z, 1)
  BY <1>2, <1>4, HandledFrame
<1>6. CleanAt(z, 2)
  <2>1. z.table[2] = m.table[2] /\ z.mem = m.mem
    BY <1>2, <1>5 DEF HandledSame
  <2> QED
    BY <1>3, <2>1, CleanSecond
<1> QED
  BY <1>4, <1>5, <1>6 DEF HandledSame

\* Every level of which CleanLinesMatch says something is as it says.
AllClean(s) == \A k \in Levels : Sound(k) => CleanAt(s, k)

AllFull == \A k \in Levels : FullLevel(k)

\* A load that leaves the lines of level 1 alone and what the level below gives
\* leaves alone what level 1 gives.
LEMMA BelowSame ==
    ASSUME config \in Configs, 2 \in Levels, NEW s, Good(s), NEW r, Good(r),
           r.table[1] = s.table[1],
           \A u \in Tags : DataFrom(r, 2, u) = DataFrom(s, 2, u)
    PROVE  /\ \A u \in Tags : DataFrom(r, 1, u) = DataFrom(s, 1, u)
           /\ CleanAt(s, 1) => CleanAt(r, 1)
           /\ \A u : Lookup(r, 1, u) = Lookup(s, 1, u)
<1>1. \A u : Lookup(r, 1, u) = Lookup(s, 1, u)
  BY DEF Lookup
<1>2. Levels = {1, 2}
  BY TwoLevelsAre
<1>3. ASSUME NEW x, Good(x), NEW u \in Tags
      PROVE  /\ \A line \in Lookup(x, 1, u) : DataFrom(x, 1, u) = line.data
             /\ Lookup(x, 1, u) = {} => DataFrom(x, 1, u) = DataFrom(x, 2, u)
  <2>1. u \in Asked /\ 1 \in 1..3 /\ 1 \in Levels /\ 1 + 1 = 2
    BY <1>2, TagsAreAsked
  <2> QED
    BY <1>3, <2>1, DataFromIs
<1>4. \A u \in Tags : DataFrom(r, 1, u) = DataFrom(s, 1, u)
  BY <1>1, <1>3
<1>5. CleanAt(s, 1) => CleanAt(r, 1)
  BY <1>1 DEF CleanAt
<1> QED
  BY <1>1, <1>4, <1>5

\* r gives every load of the first level what s gave it.
SameContent(s, r) == \A u \in Tags : DataFrom(r, 1, u) = DataFrom(s, 1, u)

\* A load from the next level changes nothing the first level can see.
LEMMA NextLevelLoaded ==
    ASSUME config \in Configs, NEW s, Good(s), AllClean(s), NEW adr \in Asked,
           NEW prefetching \in BOOLEAN,
           NEW r, r = NextLevelLoad(s, adr, prefetching)
    PROVE  /\ Good(r) /\ AllClean(r) /\ SameContent(s, r)
           /\ r.outcome = "running" => s.outcome = "running"
           /\ \A u : Lookup(r, 1, u) = Lookup(s, 1, u)
           /\ r.table[1] = s.table[1] /\ r.order[1] = s.order[1]
           /\ \A u \in Tags : DataFrom(r, 2, u) = DataFrom(s, 2, u)
<1>1. CASE 2 \notin Levels
  <2>1. r = s
    BY <1>1 DEF NextLevelLoad
  <2> QED
    BY <2>1 DEF SameContent
<1>2. CASE 2 \in Levels
  <2>1. Levels = {1, 2} /\ LastLevel(2) /\ Sound(2)
    BY <1>2, TwoLevelsAre
  <2>2. r = LoadLast(s, 2, adr, prefetching)
    BY <1>2 DEF NextLevelLoad
  <2>3. CleanAt(s, 2)
    BY <2>1 DEF AllClean
  <2>4. /\ Good(r) /\ CleanAt(r, 2)
        /\ OthersSame(s, r, 2)
        /\ \A u \in Tags : DataFrom(r, 2, u) = DataFrom(s, 2, u)
    BY <2>1, <2>2, <2>3, LoadLastIs
  <2>5. /\ r.table[1] = s.table[1] /\ r.order[1] = s.order[1]
        /\ r.outcome = "running" => s.outcome = "running"
    BY <2>1, <2>4 DEF OthersSame
  <2>6. /\ \A u \in Tags : DataFrom(r, 1, u) = DataFrom(s, 1, u)
        /\ CleanAt(s, 1) => CleanAt(r, 1)
        /\ \A u : Lookup(r, 1, u) = Lookup(s, 1, u)
    BY <1>2, <2>4, <2>5, BelowSame
  <2>7. AllClean(r)
    BY <2>1, <2>4, <2>6 DEF AllClean
  <2> QED
    BY <2>4, <2>5, <2>6, <2>7 DEF SameContent
<1> QED
  BY <1>1, <1>2

\* z is b after a request for the line t that ends with d in it.
Ended(b, z, t, d) ==
    /\ Good(z) /\ AllClean(z)
    /\ z.outcome = "running" => b.outcome = "running"
    /\ AllFull /\ z.outcome = "running" =>
        /\ \A u \in Tags : u # t => DataFrom(z, 1, u) = DataFrom(b, 1, u)
        /\ DataFrom(z, 1, t) = d

\* handleWritePolicy of the first level, over memory or over another level.
LEMMA FirstLevelHandled ==
    ASSUME config \in Configs, NEW b, Good(b), AllClean(b),
           NEW w, NEW adr \in Asked, NEW d, NEW new, IsNew(new, adr, d),
           new.invalid \/ d = DataFrom(b, 2, Tag(adr)),
           Written(b, w.state, w.line, 1, adr, new),
           NEW z, z = HandleWritePolicy(w)
    PROVE  /\ Ended(b, z, Tag(adr), d)
           /\ \E m : Handled(b, w.state, w.line, m, z, 1, adr, d, new)
<1>1. 1 \in Levels
  BY Configured
<1>2. /\ Good(z)
      /\ z.outcome = "running" => b.outcome = "running"
      /\ \A k \in Levels : k # 1 => CleanAt(z, k)
      /\ \E m : Handled(b, w.state, w.line, m, z, 1, adr, d, new)
  <2>1. CASE 2 \notin Levels
    <3>1. LastLevel(1) /\ Levels = {1}
      <4>1. Levels = {1}
        BY <2>1, LevelsAre
      <4>2. 1 + 1 \notin Levels
        BY <4>1
      <4> QED
        BY <4>1, <4>2 DEF LastLevel
    <3>2. z = WritePolicyOverMem(w, 1)
      <4>1. NextLevelStore(w.state, Flushed(Level(1), w.line)) =
                StoreInMem(w.state, Flushed(Level(1), w.line))
        BY <2>1 DEF NextLevelStore
      <4> QED
        BY <4>1 DEF HandleWritePolicy, WritePolicyOverMem
    <3>3. PICK m : Handled(b, w.state, w.line, m, z, 1, adr, d, new)
      BY <1>1, <3>1, <3>2, OverMemHandled
    <3>4. HandledSame(b, m, z, 1)
      BY <1>1, <3>3, HandledFrame
    <3> QED
      BY <3>1, <3>3, <3>4 DEF HandledSame
  <2>2. CASE 2 \in Levels
    <3>1. Levels = {1, 2} /\ CleanAt(b, 2)
      BY <2>2, TwoLevelsAre DEF AllClean
    <3>2. /\ \E m : Handled(b, w.state, w.line, m, z, 1, adr, d, new)
          /\ Good(z) /\ CleanAt(z, 2)
          /\ z.outcome = "running" => b.outcome = "running"
      BY <2>2, <3>1, OverLevelHandled
    <3> QED
      BY <3>1, <3>2
  <2> QED
    BY <2>1, <2>2
<1>3. PICK m : Handled(b, w.state, w.line, m, z, 1, adr, d, new)
  BY <1>2
<1>4. Sound(1) => ContentKept(b, z, 1, adr, d)
  <2>1. SUFFICES ASSUME Sound(1)
                 PROVE  ContentKept(b, z, 1, adr, d)
    OBVIOUS
  <2>2. CleanAt(b, 1)
    BY <1>1, <2>1 DEF AllClean
  <2>3. new.invalid \/ d = DataFrom(b, 1 + 1, Tag(adr))
    OBVIOUS
  <2> QED
    BY <1>1, <1>3, <2>1, <2>2, <2>3, WriteContent
<1>5. AllClean(z)
  BY <1>2, <1>4 DEF AllClean, ContentKept
<1>6. ASSUME AllFull, z.outcome = "running"
      PROVE  /\ \A u \in Tags : u # Tag(adr) => DataFrom(z, 1, u) = DataFrom(b, 1, u)
             /\ DataFrom(z, 1, Tag(adr)) = d
  <2>1. FullLevel(1) /\ AllFullBelow(1)
    BY <1>1, <1>6 DEF AllFull, AllFullBelow
  <2>2. Sound(1) /\ Kept(z, 1)
    BY <1>6, <2>1 DEF Sound, Kept
  <2> QED
    BY <1>4, <1>6, <2>1, <2>2 DEF ContentKept
<1> QED
  BY <1>2, <1>5, <1>6 DEF Ended

\* A use of a line of the first level in its order list.
LEMMA FirstLevelUpdated ==
    ASSUME config \in Configs, NEW b, NEW z, NEW adr \in Asked, NEW t, NEW d,
           Ended(b, z, t, d), NEW r, r = Update(z, 1, adr)
    PROVE  Ended(b, r, t, d)
<1>1. 1 \in Levels /\ Good(z) /\ AllClean(z)
  BY Configured DEF Ended
<1>2. /\ Good(r)
      /\ r.table = z.table /\ r.outcome = z.outcome
      /\ \A j, u : DataFrom(r, j, u) = DataFrom(z, j, u)
  BY <1>1, UpdateIs
<1>3. AllClean(r)
  <2>1. SUFFICES ASSUME NEW k \in Levels, Sound(k)
                 PROVE  CleanAt(r, k)
    BY DEF AllClean
  <2>2. CleanAt(z, k)
    BY <1>1, <2>1 DEF AllClean
  <2> QED
    BY <1>1, <2>2, UpdateClean
<1> QED
  BY <1>2, <1>3 DEF Ended

\* load changes nothing a later load could see, if every level is fully
\* associative.
LEMMA CacheLoadIs ==
    ASSUME config \in Configs, NEW s, Good(s), AllClean(s), NEW adr \in Asked,
           NEW prefetching \in BOOLEAN,
           NEW r, r = CacheLoad(s, adr, prefetching)
    PROVE  /\ Good(r) /\ AllClean(r)
           /\ r.outcome = "running" => s.outcome = "running"
           /\ AllFull /\ r.outcome = "running" => SameContent(s, r)
<1> DEFINE below == NextLevelLoad(s, adr, prefetching)
           w == LoadEntry(s, 1, adr, below)
           z == HandleWritePolicy(w)
           t == Tag(adr)
           d == DataFrom(s, 1, t)
<1>1. r = IF prefetching THEN z ELSE Update(z, 1, adr)
  BY DEF CacheLoad
<1>2. 1 \in Levels /\ 1 \in 1..3 /\ 1 + 1 = 2 /\ 2 \in 1..3 /\ Tag(adr) \in Tags
  BY Configured, AskedTag
<1>3. Ended(s, z, t, d)
  <2>1. CASE Lookup(s, 1, adr) # {}
    <3>1. w.state = s /\ w.line = {}
      BY <2>1 DEF LoadEntry
    <3>2. Flushed(Level(1), w.line) = {}
      BY <3>1, NothingToHandle
    <3>3. z = s
      BY <3>1, <3>2 DEF HandleWritePolicy, NextLevelStore, StoreInMem, Settle
    <3> HIDE DEF z
    <3> QED
      BY <3>3 DEF Ended
  <2>2. CASE Lookup(s, 1, adr) = {}
    <3>1. /\ Good(below) /\ AllClean(below) /\ SameContent(s, below)
          /\ below.outcome = "running" => s.outcome = "running"
          /\ \A u : Lookup(below, 1, u) = Lookup(s, 1, u)
          /\ \A u \in Tags : DataFrom(below, 2, u) = DataFrom(s, 2, u)
      BY NextLevelLoaded
    <3> DEFINE e == DataFrom(s, 1 + 1, adr)
    <3> HIDE DEF below
    <3>2. PICK new : /\ IsNew(new, adr, e) /\ ~new.invalid
                     /\ Written(below, w.state, w.line, 1, adr, new)
      BY <1>2, <2>2, <3>1, LoadEntryCases
    <3>3. e = DataFrom(s, 2, t) /\ d = e
      <4>1. DataFrom(s, 2, Tag(adr)) = DataFrom(s, 2, adr)
        BY <1>2, DataFromIs
      <4>2. DataFrom(s, 1, Tag(adr)) = DataFrom(s, 1, adr)
        BY <1>2, DataFromIs
      <4>3. DataFrom(s, 1, adr) = DataFrom(s, 1 + 1, adr)
        BY <1>2, <2>2, DataFromIs
      <4> QED
        BY <4>1, <4>2, <4>3
    <3> HIDE DEF w, e, z, d, t
    <3>4. e = DataFrom(below, 2, Tag(adr))
      BY <1>2, <3>1, <3>3 DEF t
    <3>5. Ended(below, z, Tag(adr), e)
      BY <1>2, <3>1, <3>2, <3>4, FirstLevelHandled DEF z
    <3> QED
      BY <3>1, <3>3, <3>5 DEF Ended, SameContent, t
  <2> QED
    BY <2>1, <2>2
<1> HIDE DEF z, d
<1>4. Ended(s, r, t, d)
  <2>1. CASE prefetching
    BY <1>1, <1>3, <2>1
  <2>2. CASE ~prefetching
    BY <1>1, <1>3, <2>2, FirstLevelUpdated
  <2> QED
    BY <2>1, <2>2
<1> QED
  BY <1>2, <1>4 DEF Ended, SameContent, t, d

\* store changes no other line, and ends with what was stored in its line, if
\* every level is fully associative.
LEMMA CacheStoreIs ==
    ASSUME config \in Configs, NEW s, Good(s), AllClean(s), NEW adr \in Asked,
           NEW r, r = CacheStore(s, adr)
    PROVE  Ended(s, r, Tag(adr), TRUE)
<1> DEFINE below == NextLevelLoad(s, adr, FALSE)
           w == StoreEntry(s, 1, adr, TRUE, below)
           z == HandleWritePolicy(w)
           b == IF Lookup(s, 1, adr) # {} THEN s ELSE below
<1>1. r = Update(z, 1, adr)
  BY DEF CacheStore
<1>2. 1 \in Levels
  BY Configured
<1>3. /\ Good(below) /\ AllClean(below) /\ SameContent(s, below)
      /\ below.outcome = "running" => s.outcome = "running"
      /\ \A u : Lookup(below, 1, u) = Lookup(s, 1, u)
  BY NextLevelLoaded
<1> HIDE DEF below
<1>4. PICK new : /\ IsNew(new, adr, TRUE) /\ new.invalid
                 /\ Written(b, w.state, w.line, 1, adr, new)
  BY <1>2, <1>3, StoreEntryCases
<1>5. /\ Good(b) /\ AllClean(b) /\ SameContent(s, b)
      /\ b.outcome = "running" => s.outcome = "running"
  BY <1>3 DEF SameContent
<1> HIDE DEF w, z, b
<1>6. Ended(b, z, Tag(adr), TRUE)
  BY <1>2, <1>4, <1>5, FirstLevelHandled DEF z
<1>7. Ended(s, z, Tag(adr), TRUE)
  BY <1>5, <1>6 DEF Ended, SameContent
<1> QED
  BY <1>1, <1>7, FirstLevelUpdated

------------------------------------------------------------------------------
(* What was stored before is outdated *)

OutdatedSet(s, k, i, adr) == {Outdated(line, Tag(adr)) : line \in s.table[k][i]}

LEMMA OutdatedLine ==
    ASSUME NEW line \in Lines, NEW t
    PROVE  /\ Outdated(line, t) \in Lines
           /\ Outdated(line, t).tag = line.tag
           /\ Outdated(line, t).invalid = line.invalid
           /\ Outdated(line, t).evacuated = line.evacuated
           /\ Outdated(line, t).data = (line.data /\ line.tag # t)
           /\ line.tag # t => Outdated(line, t) = line
<1>1. line = [tag |-> line.tag, invalid |-> line.invalid,
              evacuated |-> line.evacuated, data |-> line.data]
  BY DEF Lines, CacheLine
<1>2. /\ line.tag \in Tags /\ line.data \in BOOLEAN
      /\ line.invalid \in BOOLEAN /\ line.evacuated \in BOOLEAN
  BY LineFields
<1> DEFINE e == (line.data /\ line.tag # t)
<1>3. e \in BOOLEAN /\ (line.tag # t => e = line.data)
  BY <1>2
<1>4. Outdated(line, t) = [line EXCEPT !.data = e]
  BY DEF Outdated
<1> HIDE DEF e
<1>5. /\ [line EXCEPT !.data = e] \in Lines
      /\ [line EXCEPT !.data = e].tag = line.tag
      /\ [line EXCEPT !.data = e].invalid = line.invalid
      /\ [line EXCEPT !.data = e].evacuated = line.evacuated
      /\ [line EXCEPT !.data = e].data = e
  BY <1>3 DEF Lines, CacheLine
<1>6. e = line.data => [line EXCEPT !.data = e] = line
  BY <1>5 DEF Lines, CacheLine
<1> QED
  BY <1>3, <1>4, <1>5, <1>6 DEF e

\* A set keeps its lines.
LEMMA OutdatedSetIs ==
    ASSUME config \in Configs, NEW s, Good(s), NEW adr \in Asked,
           NEW k \in Levels, NEW i \in Sets(k)
    PROVE  IsSet(k, i, OutdatedSet(s, k, i, adr))
<1> DEFINE t == Tag(adr)
           set == s.table[k][i]
           f == [line \in set |-> Outdated(line, t)]
           new == {Outdated(line, t) : line \in set}
<1>1. IsSet(k, i, set)
  BY GoodSet
<1>2. OutdatedSet(s, k, i, adr) = new
  BY DEF OutdatedSet
<1> HIDE DEF set, t
<1>3. IsFiniteSet(new) /\ Cardinality(new) <= Cardinality(set)
  <2>1. f \in Surjection(set, new)
    BY DEF Surjection
  <2>2. IsFiniteSet(set)
    BY <1>1 DEF IsSet
  <2> HIDE DEF f, new
  <2> QED
    BY <2>1, <2>2, FS_Surjection
<1>4. Cardinality(new) <= Level(k).setSize
  <2>1. /\ Cardinality(new) \in Nat /\ Cardinality(set) \in Nat
        /\ Level(k).setSize \in Nat /\ Cardinality(set) <= Level(k).setSize
    BY <1>1, <1>3, FS_CardinalityType, Configured DEF IsSet
  <2> QED
    BY <1>3, <2>1
<1>5. \A line \in set : line \in Lines
  BY <1>1 DEF IsSet
<1>6. \A line \in new : \E old \in set : line = Outdated(old, t)
  OBVIOUS
<1>7. new \subseteq Lines
  BY <1>5, <1>6, OutdatedLine
<1>8. \A line \in new : Index(k, line.tag) = i /\ ~line.evacuated
  <2>1. SUFFICES ASSUME NEW line \in new
                 PROVE  Index(k, line.tag) = i /\ ~line.evacuated
    OBVIOUS
  <2>2. PICK old \in set : line = Outdated(old, t)
    BY <1>6
  <2>3. line.tag = old.tag /\ line.evacuated = old.evacuated
    BY <1>5, <2>2, OutdatedLine
  <2> QED
    BY <1>1, <2>3 DEF IsSet
<1>9. \A one, other \in new : one.tag = other.tag => one = other
  <2>1. SUFFICES ASSUME NEW one \in new, NEW other \in new, one.tag = other.tag
                 PROVE  one = other
    OBVIOUS
  <2>2. PICK a \in set : one = Outdated(a, t)
    BY <1>6
  <2>3. PICK b \in set : other = Outdated(b, t)
    BY <1>6
  <2>4. a.tag = b.tag
    BY <1>5, <2>1, <2>2, <2>3, OutdatedLine
  <2>5. a = b
    BY <1>1, <2>4 DEF IsSet
  <2> QED
    BY <2>2, <2>3, <2>5
<1> HIDE DEF new
<1> QED
  BY <1>3, <1>4, <1>7, <1>8, <1>9, <1>2 DEF IsSet

\* r is s after all copies of the line of adr were outdated.
IsOutdated(s, r, adr) ==
    /\ Good(r)
    /\ r.order = s.order /\ r.outcome = s.outcome
    /\ \A u \in Tags : r.mem[u] = IF u = Tag(adr) THEN FALSE ELSE s.mem[u]
    /\ \A k \in Levels : \A i \in Sets(k) :
        r.table[k][i] = OutdatedSet(s, k, i, adr)

LEMMA OutdateFields ==
    ASSUME config \in Configs, NEW s, Good(s), NEW adr \in Asked,
           NEW r, r = Outdate(s, adr)
    PROVE  IsOutdated(s, r, adr)
<1> DEFINE t == Tag(adr)
           m == [s.mem EXCEPT ![t] = FALSE]
           row(k) == [i \in DOMAIN s.table[k] |-> OutdatedSet(s, k, i, adr)]
           T == [k \in Levels |-> row(k)]
           U == UNION {[Sets(j) -> SUBSET Lines] : j \in Levels}
<1>1. s \in States /\ s.mem \in [Tags -> BOOLEAN] /\ s.table \in Tables /\ t \in Tags
  BY AskedTag DEF Good, States
<1>2. r = [s EXCEPT !.mem = m, !.table = T]
  BY DEF Outdate, OutdatedSet
<1>3. \A k \in Levels : s.table[k] \in [Sets(k) -> SUBSET Lines]
  BY <1>1 DEF Tables
<1>4. \A k \in Levels : \A i \in Sets(k) : OutdatedSet(s, k, i, adr) \in SUBSET Lines
  BY OutdatedSetIs DEF IsSet
<1>5. \A k \in Levels : row(k) = [i \in Sets(k) |-> OutdatedSet(s, k, i, adr)]
  BY <1>3
<1> HIDE DEF row
<1>6. \A k \in Levels : row(k) \in [Sets(k) -> SUBSET Lines]
  BY <1>4, <1>5
<1>7. T \in Tables
  <2>1. \A k \in Levels : row(k) \in U
    BY <1>6
  <2> HIDE DEF U
  <2>2. T \in [Levels -> U] /\ \A k \in Levels : T[k] = row(k)
    BY <2>1
  <2> HIDE DEF T
  <2> QED
    BY <1>6, <2>2 DEF Tables, U
<1>8. \A k \in Levels : \A i \in Sets(k) : T[k][i] = OutdatedSet(s, k, i, adr)
  BY <1>5
<1>9. m \in [Tags -> BOOLEAN] /\ \A u \in Tags : m[u] = IF u = t THEN FALSE ELSE s.mem[u]
  BY <1>1
<1> HIDE DEF T, m
<1>10. /\ r \in States /\ r.mem = m /\ r.table = T
       /\ r.order = s.order /\ r.outcome = s.outcome
  BY <1>1, <1>2, <1>7, <1>9 DEF States
<1>11. Good(r)
  <2>1. SUFFICES ASSUME NEW k \in Levels, NEW i \in Sets(k)
                 PROVE  /\ IsSet(k, i, r.table[k][i])
                        /\ Len(r.order[k][i]) <= Level(k).setSize
    BY <1>10 DEF Good
  <2>2. IsSet(k, i, r.table[k][i])
    BY <1>8, <1>10, OutdatedSetIs
  <2>3. Len(s.order[k][i]) <= Level(k).setSize
    BY DEF Good
  <2> QED
    BY <1>10, <2>2, <2>3
<1> QED
  BY <1>8, <1>9, <1>10, <1>11 DEF IsOutdated

LEMMA OutdateIs ==
    ASSUME config \in Configs, NEW s, Good(s), AllClean(s), NEW adr \in Asked,
           NEW r, r = Outdate(s, adr)
    PROVE  /\ Good(r) /\ AllClean(r) /\ r.outcome = s.outcome
           /\ \A u \in Tags : u # Tag(adr) => DataFrom(r, 1, u) = DataFrom(s, 1, u)
<1> DEFINE t == Tag(adr)
<1>1. /\ Good(r)
      /\ r.order = s.order /\ r.outcome = s.outcome
      /\ \A u \in Tags : r.mem[u] = IF u = t THEN FALSE ELSE s.mem[u]
      /\ \A k \in Levels : \A i \in Sets(k) :
            r.table[k][i] = OutdatedSet(s, k, i, adr)
  <2>1. IsOutdated(s, r, adr)
    BY OutdateFields
  <2> QED
    BY <2>1 DEF IsOutdated
<1>2. t \in Tags /\ Tag(t) = t /\ \A u \in Tags : u \in Asked /\ Tag(u) = u
  BY AskedTag, TagsAreAsked
<1> HIDE DEF t
<1>3. ASSUME NEW k \in Levels, NEW u \in Tags
      PROVE  Lookup(r, k, u) = {Outdated(line, t) : line \in Lookup(s, k, u)}
  <2> DEFINE i == Index(k, u)
             set == s.table[k][i]
  <2>1. i \in Sets(k) /\ Tag(u) = u
    BY <1>2, <1>3, IndexOfTag
  <2>2. r.table[k][i] = {Outdated(line, t) : line \in set}
    BY <1>1, <2>1 DEF OutdatedSet, t
  <2>3. \A line \in set : line \in Lines
    BY <2>1, GoodSet DEF IsSet
  <2>4. /\ Lookup(r, k, u) = {line \in r.table[k][i] : line.tag = u}
        /\ Lookup(s, k, u) = {line \in set : line.tag = u}
    BY <2>1 DEF Lookup
  <2> HIDE DEF set, i
  <2>5. \A line \in set : Outdated(line, t).tag = line.tag
    BY <2>3, OutdatedLine
  <2> QED
    BY <2>2, <2>4, <2>5
<1>4. ASSUME NEW k \in Levels, NEW u \in Tags, u # t
      PROVE  Lookup(r, k, u) = Lookup(s, k, u)
  <2>1. \A line \in Lookup(s, k, u) : line \in Lines /\ line.tag = u
    BY <1>2, LookupIs
  <2>2. \A line \in Lookup(s, k, u) : Outdated(line, t) = line
    BY <1>4, <2>1, OutdatedLine
  <2> QED
    BY <1>3, <2>2
<1>5. ASSUME NEW u \in Tags, u # t, NEW k
      PROVE  DataFrom(r, k, u) = DataFrom(s, k, u)
  <2>1. r.mem[Tag(u)] = s.mem[Tag(u)]
    BY <1>1, <1>2, <1>5
  <2>2. \A j \in Levels : j >= k => Lookup(r, j, u) = Lookup(s, j, u)
    BY <1>4, <1>5
  <2> QED
    BY <2>1, <2>2, DataFromSame
<1>6. ASSUME NEW k \in Levels, NEW line \in Lookup(r, k, t)
      PROVE  line.data = FALSE
  <2>1. PICK old \in Lookup(s, k, t) : line = Outdated(old, t)
    BY <1>2, <1>3, <1>6
  <2>2. old \in Lines /\ old.tag = t
    BY <1>2, LookupIs
  <2> QED
    BY <2>1, <2>2, OutdatedLine
<1>7. \A k \in 1..3 : DataFrom(r, k, t) = FALSE
  <2>1. ASSUME NEW k \in 1..3
        PROVE  /\ k \notin Levels => DataFrom(r, k, t) = FALSE
               /\ k \in Levels =>
                    DataFrom(r, k, t) = FALSE \/ DataFrom(r, k, t) = DataFrom(r, k + 1, t)
    <3>1. t \in Asked
      BY <1>2
    <3>2. /\ k \in Levels => \A line \in Lookup(r, k, t) :
                DataFrom(r, k, t) = line.data
          /\ k \in Levels /\ Lookup(r, k, t) = {} =>
                DataFrom(r, k, t) = DataFrom(r, k + 1, t)
          /\ k \notin Levels => DataFrom(r, k, t) = r.mem[Tag(t)]
      BY <1>1, <2>1, <3>1, DataFromIs
    <3>3. CASE k \notin Levels
      BY <1>1, <1>2, <3>2, <3>3
    <3>4. CASE k \in Levels /\ Lookup(r, k, t) # {}
      BY <1>6, <3>2, <3>4
    <3>5. CASE k \in Levels /\ Lookup(r, k, t) = {}
      BY <3>2, <3>5
    <3> QED
      BY <3>3, <3>4, <3>5
  <2>2. Levels \subseteq {1, 2}
    BY Configured
  <2>3. DataFrom(r, 3, t) = FALSE
    <3>1. 3 \in 1..3 /\ 3 \notin Levels
      BY <2>2
    <3> QED
      BY <2>1, <3>1
  <2>4. DataFrom(r, 2, t) = FALSE
    <3>1. 2 \in 1..3 /\ 2 + 1 = 3
      OBVIOUS
    <3> QED
      BY <2>1, <2>3, <3>1
  <2>5. DataFrom(r, 1, t) = FALSE
    <3>1. 1 \in 1..3 /\ 1 + 1 = 2
      OBVIOUS
    <3> QED
      BY <2>1, <2>4, <3>1
  <2>6. \A k \in 1..3 : k = 1 \/ k = 2 \/ k = 3
    OBVIOUS
  <2> QED
    BY <2>3, <2>4, <2>5, <2>6
<1>8. ASSUME NEW k \in Levels, CleanAt(s, k)
      PROVE  CleanAt(r, k)
  <2>1. SUFFICES ASSUME NEW u \in Tags, NEW line \in Lookup(r, k, u)
                 PROVE  line.invalid \/ line.data = DataFrom(r, k + 1, u)
    BY DEF CleanAt
  <2>2. CASE u # t
    <3>1. line \in Lookup(s, k, u) /\ DataFrom(r, k + 1, u) = DataFrom(s, k + 1, u)
      BY <1>4, <1>5, <2>1, <2>2
    <3> QED
      BY <1>8, <2>1, <3>1 DEF CleanAt
  <2>3. CASE u = t
    <3>1. k + 1 \in 1..3
      BY Configured
    <3>2. line.data = FALSE
      BY <1>6, <2>1, <2>3
    <3> QED
      BY <1>7, <2>3, <3>1, <3>2
  <2> QED
    BY <2>2, <2>3
<1>9. AllClean(r)
  BY <1>8 DEF AllClean
<1> QED
  BY <1>1, <1>5, <1>9 DEF t

------------------------------------------------------------------------------
(* The requests as steps *)

\* What the next state says of a state the caches become.
LEMMA ConfigKept ==
    ASSUME UNCHANGED config
    PROVE  /\ Levels' = Levels
           /\ \A k : Level(k)' = Level(k)
BY DEF Levels, Level

LEMMA BecomeGood ==
    ASSUME NEW s, Good(s), Become(s)
    PROVE  Good(Now)' /\ outcome' = s.outcome
<1>1. /\ table' = s.table /\ order' = s.order /\ outcome' = s.outcome /\ mem' = s.mem
      /\ config' = config
  BY DEF Become
<1>2. s \in States
  BY DEF Good
<1>3. s = [table |-> s.table, order |-> s.order, outcome |-> s.outcome, mem |-> s.mem]
  BY <1>2 DEF States
<1>4. Now' = s
  BY <1>1, <1>3 DEF Now
<1>5. Good(s)' <=> Good(s)
  BY <1>1 DEF Good, States, Tables, Orders, IsSet, Sets, Levels, Level, Index
<1>6. Good(Now)' <=> Good(s)'
  BY <1>4 DEF Good, States, IsSet
<1> QED
  BY <1>1, <1>5, <1>6

LEMMA BecomeSame ==
    ASSUME NEW s, Become(s)
    PROVE  /\ AllClean(s) => AllClean(Now)'
           /\ (s.outcome = "running" => \A u \in Tags : DataFrom(s, 1, u)) =>
                NoStoreIsLost'
           /\ AllFull' <=> AllFull
<1> DEFINE setN(j, u) == Now'.table[j][(u \div LineSize) % config'.levels[j].numberOfSets]
           lookN(j, u) == {line \in setN(j, u) : line.tag = u - (u % LineSize)}
           withN(k, u) == {j \in 1..Len(config'.levels) : j >= k /\ lookN(j, u) # {}}
           dataN(k, u) == IF withN(k, u) = {} THEN Now'.mem[u - (u % LineSize)]
                          ELSE TheLine(lookN(Min(withN(k, u)), u)).data
           soundN(k) == \/ config'.levels[k].writePolicy = WRITE_BACK
                        \/ \A j \in 1..Len(config'.levels) :
                                j > k => config'.levels[j].assoc = "FULL_ASSOC"
<1>1. /\ Now'.table = s.table /\ Now'.mem = s.mem /\ config' = config
      /\ outcome' = s.outcome
  BY DEF Become, Now
<1>2. AllClean(Now)' <=>
        \A k \in 1..Len(config'.levels) : soundN(k) =>
            \A t \in Tags : \A line \in lookN(k, t) :
                line.invalid \/ line.data = dataN(k + 1, t)
  BY DEF AllClean, CleanAt, Sound, AllFullBelow, FullLevel, Lookup, DataFrom, Index,
         Level, Levels, Tag
<1>3. NoStoreIsLost' <=>
        (outcome' = "running" => \A u \in Tags : dataN(1, u))
  BY DEF NoStoreIsLost, Lookup, DataFrom, Index, Level, Levels, Tag
<1>4. ASSUME NEW j, NEW u
      PROVE  lookN(j, u) = Lookup(s, j, u)
  BY <1>1 DEF Lookup, Index, Level, Tag
<1> HIDE DEF lookN
<1>5. ASSUME NEW k, NEW u
      PROVE  dataN(k, u) = DataFrom(s, k, u)
  <2> DEFINE old == {j \in Levels : j >= k /\ Lookup(s, j, u) # {}}
  <2>1. withN(k, u) = old
    BY <1>1, <1>4 DEF Levels
  <2>2. DataFrom(s, k, u) = IF old = {} THEN s.mem[Tag(u)]
                            ELSE TheLine(Lookup(s, Min(old), u)).data
    BY DEF DataFrom
  <2> HIDE DEF old, withN
  <2>3. lookN(Min(old), u) = Lookup(s, Min(old), u)
    BY <1>4
  <2> QED
    BY <1>1, <2>1, <2>2, <2>3 DEF Tag
<1>6. \A k : soundN(k) <=> Sound(k)
  BY <1>1 DEF Sound, AllFullBelow, FullLevel, Level, Levels
<1> HIDE DEF dataN, soundN
<1>7. AllClean(s) => AllClean(Now)'
  BY <1>1, <1>2, <1>4, <1>5, <1>6 DEF AllClean, CleanAt, Levels
<1>8. (s.outcome = "running" => \A u \in Tags : DataFrom(s, 1, u)) => NoStoreIsLost'
  BY <1>1, <1>3, <1>5
<1>9. AllFull' <=> AllFull
  BY <1>1 DEF AllFull, FullLevel, Level, Levels
<1> QED
  BY <1>7, <1>8, <1>9

HistoryOK == history \in Seq(Addresses) /\ Len(history) <= HistoryMax

\* The inductive invariant: FullKeepsStores needs that what is evacuated without
\* being stored is what the level below has, which is CleanLinesMatch.
IInv ==
    /\ config \in Configs
    /\ Good(Now)
    /\ AllClean(Now)
    /\ HistoryOK
    /\ FullKeepsStores

LEMMA NowIs ==
    /\ Now.table = table /\ Now.order = order
    /\ Now.outcome = outcome /\ Now.mem = mem
BY DEF Now

LEMMA HistoryKept ==
    ASSUME HistoryOK, NEW s, NEW adr \in Addresses, history' = AddToHistory(s, adr)
    PROVE  /\ HistoryOK'
           /\ s.outcome = "running" => Last(history') = adr
<1>1. HistoryMax \in Nat \ {0}
  BY V1CacheAssumption
<1>2. CASE s.outcome # "running"
  <2>1. history' = history
    BY <1>2 DEF AddToHistory
  <2> QED
    BY <1>2, <2>1 DEF HistoryOK
<1>3. CASE s.outcome = "running"
  <2> DEFINE list == history
             n == HistoryMax
  <2>1. list \in Seq(Addresses) /\ n \in Nat \ {0} /\ Len(list) <= n /\ Len(list) \in Nat
    BY <1>1, LenProperties DEF HistoryOK
  <2>2. history' = AddAccess(list, n, adr)
    BY <1>3 DEF AddToHistory
  <2> HIDE DEF list, n
  <2>3. /\ AddAccess(list, n, adr) \in Seq(Addresses)
        /\ Len(AddAccess(list, n, adr)) =
                IF Len(list) >= n THEN Len(list) ELSE Len(list) + 1
        /\ Last(AddAccess(list, n, adr)) = adr
    BY <2>1, AddAccessType
  <2>4. Len(history') <= n
    BY <2>1, <2>2, <2>3
  <2> QED
    BY <2>2, <2>3, <2>4 DEF HistoryOK, n
<1> QED
  BY <1>2, <1>3

\* A step to s keeps the invariant, if s is as it demands.
LEMMA StepKeeps ==
    ASSUME config \in Configs, NEW s, Good(s), AllClean(s), Become(s), HistoryOK',
           AllFull /\ s.outcome = "running" => \A u \in Tags : DataFrom(s, 1, u)
    PROVE  IInv'
<1>1. config' \in Configs
  BY DEF Become
<1>2. Good(Now)'
  BY BecomeGood
<1>3. /\ AllClean(Now)'
      /\ (s.outcome = "running" => \A u \in Tags : DataFrom(s, 1, u)) =>
            NoStoreIsLost'
      /\ AllFull' <=> AllFull
  BY BecomeSame
<1>4. FullKeepsStores'
  BY <1>3 DEF FullKeepsStores, AllFull
<1> QED
  BY <1>1, <1>2, <1>3, <1>4 DEF IInv

LEMMA LoadKeeps ==
    ASSUME IInv, outcome = "running", NEW adr \in Addresses, Load(adr)
    PROVE  IInv'
<1> DEFINE loaded == CacheLoad(Now, adr, FALSE)
<1>1. /\ config \in Configs /\ Good(Now) /\ AllClean(Now) /\ HistoryOK
      /\ AllFull => \A u \in Tags : DataFrom(Now, 1, u)
  BY DEF IInv, FullKeepsStores, AllFull, NoStoreIsLost
<1>2. adr \in Asked /\ adr + LineSize \in Asked
  BY TagsAreAsked
<1>3. PICK one : one = loaded
  OBVIOUS
<1>4. PICK now : now = Now
  OBVIOUS
<1>5. /\ Good(one) /\ AllClean(one)
      /\ AllFull /\ one.outcome = "running" => SameContent(now, one)
  <2>1. one = CacheLoad(now, adr, FALSE) /\ Good(now) /\ AllClean(now)
    BY <1>1, <1>3, <1>4
  <2> QED
    BY <1>1, <1>2, <2>1, CacheLoadIs
<1>6. AllFull => \A u \in Tags : DataFrom(now, 1, u)
  BY <1>1, <1>4
<1>7. history' = AddToHistory(one, adr)
  BY <1>3 DEF Load
<1>8. HistoryOK' /\ (one.outcome = "running" => Last(history') = adr)
  BY <1>1, <1>7, HistoryKept
<1>9. CASE Become(one)
  <2>1. AllFull /\ one.outcome = "running" => \A u \in Tags : DataFrom(one, 1, u)
    BY <1>5, <1>6 DEF SameContent
  <2> QED
    BY <1>1, <1>5, <1>8, <1>9, <2>1, StepKeeps
<1>10. CASE /\ one.outcome = "running"
            /\ \E next \in ToFetch(history') : Become(CacheLoad(one, next, TRUE))
  <2>1. PICK next \in ToFetch(history') : Become(CacheLoad(one, next, TRUE))
    BY <1>10
  <2>2. next \in Asked
    <3>1. next = Last(history') + LineSize
      BY <2>1 DEF ToFetch
    <3> QED
      BY <1>2, <1>8, <1>10, <3>1
  <2>3. PICK two : two = CacheLoad(one, next, TRUE)
    OBVIOUS
  <2>4. /\ Good(two) /\ AllClean(two)
        /\ AllFull /\ two.outcome = "running" => SameContent(one, two)
    BY <1>1, <1>5, <2>2, <2>3, CacheLoadIs
  <2>5. AllFull /\ two.outcome = "running" => \A u \in Tags : DataFrom(two, 1, u)
    BY <1>5, <1>6, <1>10, <2>4 DEF SameContent
  <2>6. Become(two)
    BY <2>1, <2>3
  <2> QED
    BY <1>1, <1>8, <2>4, <2>5, <2>6, StepKeeps
<1>11. \/ Become(one)
       \/ /\ one.outcome = "running"
          /\ \E next \in ToFetch(history') : Become(CacheLoad(one, next, TRUE))
  BY <1>3, <1>7 DEF Load
<1> QED
  BY <1>9, <1>10, <1>11

LEMMA StoreKeeps ==
    ASSUME IInv, outcome = "running", NEW adr \in Addresses, Store(adr)
    PROVE  IInv'
<1>1. /\ config \in Configs /\ Good(Now) /\ AllClean(Now) /\ HistoryOK
      /\ AllFull => \A u \in Tags : DataFrom(Now, 1, u)
  BY DEF IInv, FullKeepsStores, AllFull, NoStoreIsLost
<1>2. adr \in Asked
  BY TagsAreAsked
<1>3. PICK now : now = Now
  OBVIOUS
<1>4. PICK old : old = Outdate(now, adr)
  OBVIOUS
<1>5. /\ Good(old) /\ AllClean(old)
      /\ \A u \in Tags : u # Tag(adr) => DataFrom(old, 1, u) = DataFrom(now, 1, u)
  BY <1>1, <1>2, <1>3, <1>4, OutdateIs
<1>6. PICK done : done = CacheStore(old, adr)
  OBVIOUS
<1>7. Ended(old, done, Tag(adr), TRUE)
  BY <1>1, <1>2, <1>5, <1>6, CacheStoreIs
<1>8. Become(done) /\ history' = AddToHistory(done, adr)
  BY <1>3, <1>4, <1>6 DEF Store
<1>9. HistoryOK'
  BY <1>1, <1>8, HistoryKept
<1>10. AllFull /\ done.outcome = "running" => \A u \in Tags : DataFrom(done, 1, u)
  <2>1. SUFFICES ASSUME AllFull, done.outcome = "running", NEW u \in Tags
                 PROVE  DataFrom(done, 1, u)
    OBVIOUS
  <2>2. CASE u = Tag(adr)
    BY <1>7, <2>1, <2>2 DEF Ended
  <2>3. CASE u # Tag(adr)
    <3>1. DataFrom(done, 1, u) = DataFrom(old, 1, u)
      BY <1>7, <2>1, <2>3 DEF Ended
    <3>2. DataFrom(old, 1, u) = DataFrom(now, 1, u)
      BY <1>5, <2>3
    <3>3. DataFrom(now, 1, u)
      BY <1>1, <1>3, <2>1
    <3> QED
      BY <3>1, <3>2, <3>3
  <2> QED
    BY <2>2, <2>3
<1>11. Good(done) /\ AllClean(done)
  BY <1>7 DEF Ended
<1> QED
  BY <1>1, <1>8, <1>9, <1>10, <1>11, StepKeeps

LEMMA InitKeeps ==
    ASSUME Init
    PROVE  IInv
<1>1. /\ config \in Configs /\ history = << >> /\ outcome = "running"
      /\ table = [k \in Levels |-> [i \in Sets(k) |-> {}]]
      /\ order = [k \in Levels |-> [i \in Sets(k) |-> << >>]]
      /\ mem = [dtag \in Tags |-> TRUE]
  BY DEF Init, Sets
<1>2. PICK now : now = Now
  OBVIOUS
<1>3. /\ now.table = table /\ now.order = order
      /\ now.outcome = outcome /\ now.mem = mem
      /\ now = [table |-> table, order |-> order, outcome |-> outcome, mem |-> mem]
  BY <1>2 DEF Now
<1>4. ASSUME NEW k \in Levels, NEW i \in Sets(k)
      PROVE  now.table[k][i] = {} /\ now.order[k][i] = << >>
  BY <1>1, <1>3, <1>4
<1>5. Good(now)
  <2>1. table \in Tables
    <3> DEFINE U == UNION {[Sets(k) -> SUBSET Lines] : k \in Levels}
               row(k) == [i \in Sets(k) |-> {}]
    <3>1. \A k \in Levels : row(k) \in [Sets(k) -> SUBSET Lines]
      OBVIOUS
    <3>2. \A k \in Levels : row(k) \in U
      BY <3>1
    <3> HIDE DEF U, row
    <3>3. table = [k \in Levels |-> row(k)]
      BY <1>1 DEF row
    <3>4. table \in [Levels -> U] /\ \A k \in Levels : table[k] \in [Sets(k) -> SUBSET Lines]
      BY <3>1, <3>2, <3>3
    <3> QED
      BY <3>4 DEF Tables, U
  <2>2. order \in Orders
    <3> DEFINE U == UNION {[Sets(k) -> Seq(Tags)] : k \in Levels}
               row(k) == [i \in Sets(k) |-> << >>]
    <3>1. \A k \in Levels : row(k) \in [Sets(k) -> Seq(Tags)]
      OBVIOUS
    <3>2. \A k \in Levels : row(k) \in U
      BY <3>1
    <3> HIDE DEF U, row
    <3>3. order = [k \in Levels |-> row(k)]
      BY <1>1 DEF row
    <3>4. order \in [Levels -> U] /\ \A k \in Levels : order[k] \in [Sets(k) -> Seq(Tags)]
      BY <3>1, <3>2, <3>3
    <3> QED
      BY <3>4 DEF Orders, U
  <2>3. mem \in [Tags -> BOOLEAN] /\ outcome \in Outcomes
    BY <1>1 DEF Outcomes
  <2>4. now \in States
    BY <1>3, <2>1, <2>2, <2>3 DEF States
  <2>5. ASSUME NEW k \in Levels, NEW i \in Sets(k)
        PROVE  /\ IsSet(k, i, now.table[k][i])
               /\ Len(now.order[k][i]) <= Level(k).setSize
    <3>1. IsFiniteSet({}) /\ Cardinality({}) = 0
      BY FS_EmptySet
    <3>2. Level(k).setSize \in Nat \ {0}
      BY <1>1, Configured
    <3>3. IsSet(k, i, {})
      BY <3>1, <3>2 DEF IsSet
    <3>4. Len(<< >>) <= Level(k).setSize
      BY <3>2
    <3>5. now.table[k][i] = {} /\ now.order[k][i] = << >>
      BY <1>4, <2>5
    <3> QED
      BY <3>3, <3>4, <3>5
  <2> QED
    BY <2>4, <2>5 DEF Good
<1>6. ASSUME NEW k \in Levels, NEW u \in Tags
      PROVE  Lookup(now, k, u) = {}
  <2>1. Index(k, u) \in Sets(k)
    BY <1>1, <1>6, TagsAreAsked, IndexOfTag
  <2>2. now.table[k][Index(k, u)] = {}
    BY <1>4, <1>6, <2>1
  <2> QED
    BY <2>2 DEF Lookup
<1>7. AllClean(now)
  BY <1>6 DEF AllClean, CleanAt
<1>8. ASSUME NEW u \in Tags
      PROVE  DataFrom(now, 1, u)
  <2>1. \A j \in Levels : Lookup(now, j, u) = {}
    BY <1>6, <1>8
  <2> DEFINE holders == {j \in Levels : j >= 1 /\ Lookup(now, j, u) # {}}
  <2>2. holders = {}
    BY <2>1
  <2>3. DataFrom(now, 1, u) = now.mem[Tag(u)]
    BY <2>2 DEF DataFrom
  <2>4. Tag(u) = u
    BY <1>8, TagsAreAsked
  <2>5. now.mem[u] = TRUE
    BY <1>1, <1>3, <1>8
  <2> QED
    BY <2>3, <2>4, <2>5
<1>9. HistoryOK
  BY <1>1, V1CacheAssumption DEF HistoryOK
<1> QED
  BY <1>1, <1>2, <1>5, <1>7, <1>8, <1>9 DEF IInv, FullKeepsStores, NoStoreIsLost

LEMMA Inductive == Spec => []IInv
<1>1. Init => IInv
  BY InitKeeps
<1>2. IInv /\ [Next]_vars => IInv'
  <2>1. SUFFICES ASSUME IInv, [Next]_vars
                 PROVE  IInv'
    OBVIOUS
  <2>2. ASSUME NEW adr \in Addresses, outcome = "running", Load(adr)
        PROVE  IInv'
    BY <2>1, <2>2, LoadKeeps
  <2>3. ASSUME NEW adr \in Addresses, outcome = "running", Store(adr)
        PROVE  IInv'
    BY <2>1, <2>3, StoreKeeps
  <2>4. CASE UNCHANGED vars
    <3>1. PICK now : now = Now
      OBVIOUS
    <3>2. /\ now.table = table /\ now.order = order
          /\ now.outcome = outcome /\ now.mem = mem
      BY <3>1, NowIs
    <3>3. Become(now)
      BY <2>4, <3>2 DEF Become, vars
    <3>4. config \in Configs /\ Good(now) /\ AllClean(now) /\ HistoryOK
      BY <2>1, <3>1 DEF IInv
    <3>5. HistoryOK'
      BY <2>4, <3>4 DEF HistoryOK, vars
    <3>6. AllFull /\ now.outcome = "running" => \A u \in Tags : DataFrom(now, 1, u)
      BY <2>1, <3>1, <3>2 DEF IInv, FullKeepsStores, AllFull, NoStoreIsLost
    <3> QED
      BY <3>3, <3>4, <3>5, <3>6, StepKeeps
  <2> QED
    BY <2>1, <2>2, <2>3, <2>4 DEF Next
<1> QED
  BY <1>1, <1>2, PTL DEF Spec

\* The sets and order lists of every level stay within their sizes, a set has
\* no two lines of the same tag, and each line is in the set of its address.
THEOREM TypeCorrect == Spec => []TypeOK
<1>1. IInv => TypeOK
  <2>1. SUFFICES ASSUME IInv
                 PROVE  TypeOK
    OBVIOUS
  <2>2. config \in Configs /\ Good(Now) /\ Len(history) <= HistoryMax
    BY <2>1 DEF IInv, HistoryOK
  <2>3. Now \in States
    BY <2>2 DEF Good
  <2>4. /\ table \in Tables /\ outcome \in Outcomes /\ mem \in [Tags -> BOOLEAN]
    BY <2>3, NowIs DEF States
  <2>5. ASSUME NEW k \in Levels, NEW i \in DOMAIN table[k]
        PROVE  /\ IsSet(k, i, table[k][i])
               /\ order[k][i] \in Seq(Tags)
               /\ Len(order[k][i]) <= Level(k).setSize
    <3>1. i \in Sets(k)
      BY <2>4, <2>5 DEF Tables
    <3> QED
      BY <2>2, <2>5, <3>1, GoodSet, NowIs
  <2> QED
    BY <2>2, <2>4, <2>5 DEF TypeOK, IsSet, Lines, Outcomes
<1> QED
  BY <1>1, Inductive, PTL

\* A line that is not dirty holds what the levels below would give, at every
\* level that writes back or has only fully associative levels below it: its
\* evacuation, which stores nothing, loses nothing.
THEOREM CleanLinesAreBelow == Spec => []CleanLinesMatch
<1>1. IInv => CleanLinesMatch
  <2>1. SUFFICES ASSUME IInv, NEW k \in Levels,
                        \/ Level(k).writePolicy = WRITE_BACK
                        \/ \A j \in Levels : j > k => FullLevel(j),
                        NEW i \in DOMAIN table[k], NEW line \in table[k][i]
                 PROVE  line.invalid \/ line.data = DataFrom(Now, k + 1, line.tag)
    BY DEF CleanLinesMatch
  <2>2. config \in Configs /\ Good(Now) /\ AllClean(Now)
    BY <2>1 DEF IInv
  <2>3. CleanAt(Now, k)
    BY <2>1, <2>2 DEF AllClean, Sound, AllFullBelow
  <2>4. i \in Sets(k)
    <3>1. table \in Tables
      BY <2>2, NowIs DEF Good, States
    <3> QED
      BY <2>1, <3>1 DEF Tables
  <2>5. line.tag \in Tags /\ Lookup(Now, k, line.tag) = {line}
    BY <2>1, <2>2, <2>4, LineIsFound, NowIs
  <2> QED
    BY <2>3, <2>5 DEF CleanAt
<1> QED
  BY <1>1, Inductive, PTL

\* Where every level is fully associative, a load gets what was last stored, as
\* long as the program runs: a write that finds no place for its line ends the
\* program, and does not drop the line as a set-associative level does.
THEOREM FullLevelsKeepStores == Spec => []FullKeepsStores
<1>1. IInv => FullKeepsStores
  BY DEF IInv
<1> QED
  BY <1>1, Inductive, PTL

------------------------------------------------------------------------------
(* Order lists that name each line once *)

\* The list has each element of T once, and nothing else.
Names(list, T) == ToSet(list) = T /\ IsInjective(list)

LEMMA NamesCount ==
    ASSUME NEW S, NEW list \in Seq(S), NEW T, Names(list, T)
    PROVE  IsFiniteSet(T) /\ Cardinality(T) = Len(list)
<1> DEFINE n == Len(list)
           f == [i \in 1..n |-> list[i]]
<1>1. n \in Nat /\ DOMAIN list = 1..n
  BY LenProperties
<1>2. /\ T = {list[i] : i \in 1..n}
      /\ \A i, j \in 1..n : list[i] = list[j] => i = j
  BY <1>1 DEF Names, ToSet, IsInjective
<1> HIDE DEF n
<1>3. /\ f \in [1..n -> T]
      /\ \A i \in 1..n : f[i] = list[i]
  BY <1>2
<1> HIDE DEF f
<1>4. DOMAIN f = 1..n
  BY <1>3
<1>5. f \in Injection(1..n, T)
  BY <1>2, <1>3, <1>4 DEF Injection, IsInjective
<1>6. f \in Surjection(1..n, T)
  <2>1. \A t \in T : \E i \in 1..n : f[i] = t
    BY <1>2, <1>3
  <2> QED
    BY <1>3, <2>1 DEF Surjection
<1>7. ExistsBijection(1..n, T)
  BY <1>5, <1>6 DEF ExistsBijection, Bijection
<1>8. IsFiniteSet(1..n) /\ Cardinality(1..n) = n
  BY <1>1, FS_Interval
<1>9. IsFiniteSet(T) /\ Cardinality(T) = Cardinality(1..n)
  BY <1>7, <1>8, FS_Bijection
<1> QED
  BY <1>8, <1>9 DEF n

LEMMA MovedNames ==
    ASSUME NEW S, NEW list \in Seq(S), NEW T, Names(list, T),
           NEW i \in 1..Len(list), NEW x \in S, x \notin T \ {list[i]}
    PROVE  Names(Append(RemoveAt(list, i), x), (T \ {list[i]}) \cup {x})
<1> DEFINE new == Append(RemoveAt(list, i), x)
           n == Len(list)
<1>1. n \in Nat /\ DOMAIN list = 1..n
  BY LenProperties
<1>2. /\ T = {list[j] : j \in 1..n}
      /\ \A j, l \in 1..n : list[j] = list[l] => j = l
  BY <1>1 DEF Names, ToSet, IsInjective
<1>3. new \in Seq(S) /\ IsMoved(new, list, i, x)
  BY MovedEntries
<1>4. ToSet(new) = {list[j] : j \in (1..n) \ {i}} \cup {x}
  BY ReplacedLines
<1> HIDE DEF new
<1>5. {list[j] : j \in (1..n) \ {i}} = T \ {list[i]}
  <2>1. \A j \in (1..n) \ {i} : list[j] # list[i]
    BY <1>2
  <2> QED
    BY <1>2, <2>1
<1>6. Len(new) = n /\ DOMAIN new = 1..n /\ new[n] = x
  <2>1. Len(new) = n /\ new[n] = x
    BY <1>3 DEF IsMoved
  <2> QED
    BY <1>3, <2>1, LenProperties
<1>7. PICK from \in [1..(n - 1) -> (1..n) \ {i}] :
            /\ \A j \in 1..(n - 1) : new[j] = list[from[j]]
            /\ \A j, l \in 1..(n - 1) : from[j] = from[l] => j = l
  BY <1>3 DEF IsMoved
<1> HIDE DEF n
<1>8. \A j \in 1..n : j = n \/ j \in 1..(n - 1)
  BY <1>1
<1>9. \A j \in 1..(n - 1) : new[j] \in T \ {list[i]}
  <2>1. SUFFICES ASSUME NEW j \in 1..(n - 1)
                 PROVE  new[j] \in T \ {list[i]}
    OBVIOUS
  <2>2. from[j] \in (1..n) \ {i} /\ new[j] = list[from[j]]
    BY <1>7
  <2> QED
    BY <1>5, <2>2
<1>10. ASSUME NEW j \in 1..n, NEW l \in 1..n, new[j] = new[l]
       PROVE  j = l
  <2>1. CASE j = n /\ l = n
    BY <2>1
  <2>2. CASE j = n /\ l # n
    BY <1>6, <1>8, <1>9, <1>10, <2>2
  <2>3. CASE j # n /\ l = n
    BY <1>6, <1>8, <1>9, <1>10, <2>3
  <2>4. CASE j # n /\ l # n
    <3>1. j \in 1..(n - 1) /\ l \in 1..(n - 1)
      BY <1>8, <1>10, <2>4
    <3>2. from[j] \in 1..n /\ from[l] \in 1..n /\ list[from[j]] = list[from[l]]
      BY <1>7, <1>10, <3>1
    <3>3. from[j] = from[l]
      BY <1>2, <3>2
    <3> QED
      BY <1>7, <3>1, <3>3
  <2> QED
    BY <2>1, <2>2, <2>3, <2>4
<1>11. IsInjective(new)
  BY <1>6, <1>10 DEF IsInjective
<1> QED
  BY <1>4, <1>5, <1>11 DEF Names, new

LEMMA AppendedNames ==
    ASSUME NEW S, NEW list \in Seq(S), NEW T, Names(list, T), NEW x \in S, x \notin T
    PROVE  Names(Append(list, x), T \cup {x})
<1> DEFINE new == Append(list, x)
           n == Len(list)
<1>1. n \in Nat /\ DOMAIN list = 1..n
  BY LenProperties
<1>2. /\ new \in Seq(S) /\ Len(new) = n + 1 /\ DOMAIN new = 1..(n + 1)
      /\ \A j \in 1..n : new[j] = list[j]
      /\ new[n + 1] = x
  BY <1>1, AppendProperties, LenProperties
<1>3. ToSet(new) = T \cup {x}
  BY AppendedLines DEF Names
<1>4. /\ \A j \in 1..n : list[j] \in T
      /\ \A j, l \in 1..n : list[j] = list[l] => j = l
  BY <1>1 DEF Names, ToSet, IsInjective
<1> HIDE DEF new, n
<1>5. \A j \in 1..(n + 1) : j = n + 1 \/ j \in 1..n
  BY <1>1
<1>6. IsInjective(new)
  <2>1. SUFFICES ASSUME NEW j \in 1..(n + 1), NEW l \in 1..(n + 1), new[j] = new[l]
                 PROVE  j = l
    BY <1>2 DEF IsInjective
  <2> QED
    BY <1>2, <1>4, <1>5, <2>1
<1> QED
  BY <1>3, <1>6 DEF Names, new

LEMMA TailIsRemoval ==
    ASSUME NEW S, NEW list \in Seq(S), list # << >>
    PROVE  /\ 1 \in 1..Len(list) /\ Head(list) = list[1]
           /\ Tail(list) = RemoveAt(list, 1)
<1>1. Len(list) \in Nat /\ Len(list) # 0
  BY LenProperties, EmptySeq
<1>2. 1 \in 1..Len(list)
  BY <1>1
<1>3. /\ Tail(list) \in Seq(S) /\ Len(Tail(list)) = Len(list) - 1
      /\ \A i \in 1..Len(Tail(list)) : Tail(list)[i] = list[i + 1]
  BY HeadTailProperties
<1>4. /\ RemoveAt(list, 1) \in Seq(S) /\ Len(RemoveAt(list, 1)) = Len(list) - 1
      /\ \A i \in 1..(Len(list) - 1) :
            RemoveAt(list, 1)[i] = IF i < 1 THEN list[i] ELSE list[i + 1]
  BY <1>2, RemoveAtProperties
<1>5. \A i \in 1..Len(Tail(list)) : Tail(list)[i] = RemoveAt(list, 1)[i]
  <2>1. SUFFICES ASSUME NEW i \in 1..Len(Tail(list))
                 PROVE  Tail(list)[i] = RemoveAt(list, 1)[i]
    OBVIOUS
  <2>2. i \in 1..(Len(list) - 1) /\ ~(i < 1)
    BY <1>1, <1>3
  <2> QED
    BY <1>3, <1>4, <2>2
<1>6. Tail(list) = RemoveAt(list, 1)
  BY <1>3, <1>4, <1>5, SeqEqual
<1>7. Head(list) = list[1]
  BY <1>2
<1> QED
  BY <1>2, <1>6, <1>7

\* What update does to the list of a fully associative level: a line it names
\* goes to the end, another is added or takes the place of the first.
LEMMA UpdateNames ==
    ASSUME config \in Configs, NEW k \in Levels, FullLevel(k),
           NEW list \in Seq(Tags), Len(list) <= Level(k).setSize,
           NEW T, Names(list, T), NEW t \in Tags, NEW new, new = UpdateList(k, list, t)
    PROVE  /\ t \in T => Names(new, T)
           /\ t \notin T /\ Len(list) < Level(k).setSize => Names(new, T \cup {t})
           /\ t \notin T /\ Len(list) >= Level(k).setSize =>
                Names(new, (T \ {Head(list)}) \cup {t})
<1>1. Level(k).setSize \in Nat \ {0} /\ Len(list) \in Nat /\ DOMAIN list = 1..Len(list)
  BY Configured, LenProperties
<1>2. t \in ToSet(list) <=> t \in T
  BY DEF Names
<1>3. CASE t \in T
  <2> DEFINE e == CHOOSE entry \in DOMAIN list : list[entry] = t
  <2>1. e \in 1..Len(list) /\ list[e] = t
    BY <1>1, <1>2, <1>3 DEF ToSet
  <2>2. new = Append(RemoveAt(list, e), t)
    BY <1>2, <1>3 DEF UpdateList, MoveToEnd, FullLevel
  <2> HIDE DEF e
  <2>3. Names(Append(RemoveAt(list, e), t), (T \ {list[e]}) \cup {t})
    BY <2>1, MovedNames
  <2>4. (T \ {list[e]}) \cup {t} = T
    BY <1>3, <2>1
  <2> QED
    BY <1>3, <2>2, <2>3, <2>4
<1>4. CASE t \notin T
  <2>1. new = AddAccess(list, Level(k).setSize, t)
    BY <1>2, <1>4 DEF UpdateList, FullLevel
  <2>2. CASE Len(list) < Level(k).setSize
    <3>1. new = Append(list, t)
      BY <1>1, <2>1, <2>2 DEF AddAccess
    <3>2. Names(Append(list, t), T \cup {t})
      BY <1>4, AppendedNames
    <3> QED
      BY <1>1, <1>4, <2>2, <3>1, <3>2
  <2>3. CASE Len(list) >= Level(k).setSize
    <3>1. list # << >>
      BY <1>1, <2>3, EmptySeq
    <3>2. /\ 1 \in 1..Len(list) /\ Head(list) = list[1]
          /\ Tail(list) = RemoveAt(list, 1)
      BY <3>1, TailIsRemoval
    <3>3. new = Append(RemoveAt(list, 1), t)
      BY <2>1, <2>3, <3>2 DEF AddAccess
    <3> DEFINE one == 1
    <3>4. one \in 1..Len(list)
      BY <3>2
    <3> HIDE DEF one
    <3>5. Names(Append(RemoveAt(list, one), t), (T \ {list[one]}) \cup {t})
      BY <1>4, <3>4, MovedNames
    <3>6. Names(new, (T \ {Head(list)}) \cup {t})
      BY <3>2, <3>3, <3>5 DEF one
    <3> QED
      BY <1>1, <1>4, <2>3, <3>6
  <2> QED
    BY <1>1, <2>2, <2>3
<1> QED
  BY <1>3, <1>4

\* The list of a set-associative level never gets shorter.
LEMMA UpdateGrows ==
    ASSUME config \in Configs, NEW k \in Levels, ~FullLevel(k),
           NEW list \in Seq(Tags), NEW t \in Tags
    PROVE  Len(UpdateList(k, list, t)) =
                IF Len(list) >= Level(k).setSize THEN Len(list) ELSE Len(list) + 1
<1> DEFINE n == Level(k).setSize
<1>1. n \in Nat \ {0}
  BY Configured
<1>2. UpdateList(k, list, t) = AddAccess(list, n, t)
  BY DEF UpdateList, FullLevel
<1> HIDE DEF n
<1>3. Len(AddAccess(list, n, t)) = IF Len(list) >= n THEN Len(list) ELSE Len(list) + 1
  BY <1>1, AddAccessType
<1> QED
  BY <1>2, <1>3 DEF n

TagsIn(set) == {line.tag : line \in set}

LEMMA TagsInSet ==
    ASSUME NEW k, NEW i, NEW set, IsSet(k, i, set)
    PROVE  /\ IsFiniteSet(TagsIn(set))
           /\ Cardinality(TagsIn(set)) = Cardinality(set)
           /\ Cardinality(set) \in Nat
<1> DEFINE f == [line \in set |-> line.tag]
           T == TagsIn(set)
<1>1. IsFiniteSet(set) /\ \A one, other \in set : one.tag = other.tag => one = other
  BY DEF IsSet
<1>2. f \in [set -> T] /\ DOMAIN f = set /\ \A line \in set : f[line] = line.tag
  BY DEF TagsIn
<1>3. \A t \in T : \E line \in set : line.tag = t
  BY DEF TagsIn
<1> HIDE DEF f, T
<1>4. f \in Surjection(set, T)
  BY <1>2, <1>3 DEF Surjection
<1>5. f \in Injection(set, T)
  BY <1>1, <1>2 DEF Injection, IsInjective
<1>6. IsFiniteSet(T) /\ (Cardinality(T) = Cardinality(set) <=> f \in Injection(set, T))
  BY <1>1, <1>4, FS_Surjection
<1> QED
  BY <1>1, <1>5, <1>6, FS_CardinalityType DEF T

\* The order list fits the tags of the set: it names each once, or it is at
\* least as long.
Fits(k, T, list) ==
    IF FullLevel(k) THEN Names(list, T) ELSE Cardinality(T) <= Len(list)

FitsAt(s, k) == \A i \in Sets(k) : Fits(k, TagsIn(s.table[k][i]), s.order[k][i])

\* A use of a line that is in the set, or of any line of a set-associative level.
LEMMA UsedFits ==
    ASSUME config \in Configs, NEW k \in Levels, NEW i, NEW set, IsSet(k, i, set),
           NEW list \in Seq(Tags), Len(list) <= Level(k).setSize, NEW t \in Tags,
           Fits(k, TagsIn(set), list), ~FullLevel(k) \/ t \in TagsIn(set)
    PROVE  Fits(k, TagsIn(set), UpdateList(k, list, t))
<1>1. CASE FullLevel(k)
  <2> DEFINE T == TagsIn(set)
  <2>1. Names(list, T) /\ t \in T
    BY <1>1 DEF Fits
  <2> HIDE DEF T
  <2>2. Names(UpdateList(k, list, t), T)
    BY <1>1, <2>1, UpdateNames
  <2> QED
    BY <1>1, <2>2 DEF Fits, T
<1>2. CASE ~FullLevel(k)
  <2>1. /\ Cardinality(TagsIn(set)) \in Nat /\ Len(list) \in Nat
        /\ Cardinality(TagsIn(set)) <= Len(list)
    BY <1>2, TagsInSet, LenProperties DEF Fits
  <2>2. Len(UpdateList(k, list, t)) \in Nat /\ Len(list) <= Len(UpdateList(k, list, t))
    BY <1>2, <2>1, UpdateGrows
  <2> QED
    BY <1>2, <2>1, <2>2 DEF Fits
<1> QED
  BY <1>1, <1>2

\* What a set and its list are, when the list fits.
LEMMA FittingSet ==
    ASSUME config \in Configs, NEW b, Good(b), NEW k \in Levels, FitsAt(b, k),
           NEW i \in Sets(k), NEW set, set = b.table[k][i],
           NEW list, list = b.order[k][i]
    PROVE  /\ IsSet(k, i, set) /\ Fits(k, TagsIn(set), list)
           /\ list \in Seq(Tags) /\ Len(list) <= Level(k).setSize
           /\ Len(list) \in Nat /\ Level(k).setSize \in Nat \ {0}
           /\ IsFiniteSet(TagsIn(set)) /\ Cardinality(set) \in Nat
           /\ Cardinality(TagsIn(set)) = Cardinality(set)
           /\ Cardinality(set) <= Len(list)
           /\ FullLevel(k) => Len(list) = Cardinality(set)
<1>1. /\ IsSet(k, i, set) /\ Fits(k, TagsIn(set), list)
      /\ list \in Seq(Tags) /\ Len(list) <= Level(k).setSize
      /\ Len(list) \in Nat /\ Level(k).setSize \in Nat \ {0}
  BY GoodSet, Configured, LenProperties DEF FitsAt
<1>2. /\ IsFiniteSet(TagsIn(set)) /\ Cardinality(set) \in Nat
      /\ Cardinality(TagsIn(set)) = Cardinality(set)
  BY <1>1, TagsInSet
<1>3. FullLevel(k) => Len(list) = Cardinality(set)
  <2> DEFINE T == TagsIn(set)
  <2>1. FullLevel(k) => Names(list, T)
    BY <1>1 DEF Fits
  <2> HIDE DEF T
  <2>2. FullLevel(k) => Cardinality(T) = Len(list)
    BY <1>1, <2>1, NamesCount
  <2> QED
    BY <1>2, <2>2 DEF T
<1>4. Cardinality(set) <= Len(list)
  BY <1>1, <1>2, <1>3 DEF Fits
<1> QED
  BY <1>1, <1>2, <1>3, <1>4

\* A write does not end the program: a set that is full has a list that is, and
\* the list of a fully associative level names a line that is there.
LEMMA WrittenRuns ==
    ASSUME config \in Configs, NEW b, Good(b), NEW k \in Levels, FitsAt(b, k),
           b.outcome = "running", NEW adr \in Asked,
           NEW r, NEW out, NEW new, Written(b, r, out, k, adr, new)
    PROVE  r.outcome = "running" /\ ~WrittenEnd(b, r, out, k, adr)
<1> DEFINE i == Index(k, adr)
           set == b.table[k][i]
           list == b.order[k][i]
<1>1. i \in Sets(k)
  BY IndexOfTag
<1>2. /\ IsSet(k, i, set) /\ Fits(k, TagsIn(set), list)
      /\ list \in Seq(Tags) /\ Len(list) <= Level(k).setSize
      /\ Len(list) \in Nat /\ Level(k).setSize \in Nat \ {0}
      /\ IsFiniteSet(TagsIn(set)) /\ Cardinality(set) \in Nat
      /\ Cardinality(TagsIn(set)) = Cardinality(set)
      /\ Cardinality(set) <= Len(list)
      /\ FullLevel(k) => Len(list) = Cardinality(set)
  BY <1>1, FittingSet
<1>3. ~WrittenEnd(b, r, out, k, adr)
  <2>1. SUFFICES ASSUME WrittenEnd(b, r, out, k, adr)
                 PROVE  FALSE
    OBVIOUS
  <2>2. ~(Cardinality(set) < Level(k).setSize)
    BY <2>1 DEF WrittenEnd, HasRoom, SetOfLevel
  <2>3. Len(list) >= Level(k).setSize
    BY <1>2, <2>2
  <2>4. HasVictim(k, list)
    BY <2>3 DEF HasVictim
  <2>5. FullLevel(k) /\ Named(b, k, adr) = {}
    BY <2>1, <2>4 DEF WrittenEnd, ListOfLevel
  <2>6. ToSet(list) = TagsIn(set)
    BY <1>2, <2>5 DEF Fits, Names
  <2>7. list # << >>
    BY <1>2, <2>3, EmptySeq
  <2>8. Head(list) \in ToSet(list)
    <3>1. 1 \in 1..Len(list) /\ Head(list) = list[1] /\ DOMAIN list = 1..Len(list)
      BY <1>2, <2>7, TailIsRemoval, LenProperties
    <3> QED
      BY <3>1 DEF ToSet
  <2>9. PICK line \in set : line.tag = Head(list)
    BY <2>6, <2>8 DEF TagsIn
  <2>10. line \in Named(b, k, adr)
    BY <2>9 DEF Named, SetOfLevel, ListOfLevel
  <2> QED
    BY <2>5, <2>10
<1>4. r.outcome = b.outcome
  BY <1>3 DEF Written, WrittenHit, WrittenFree, WrittenVictim, WrittenNowhere, Replaced
<1> QED
  BY <1>3, <1>4

\* The tags of a set to which a line came, for another of the same tag or of
\* another one.
LEMMA AddedTags ==
    ASSUME NEW set, NEW line, NEW to, to = (set \ {}) \cup {line}
    PROVE  TagsIn(to) = TagsIn(set) \cup {line.tag}
BY DEF TagsIn

LEMMA SameTags ==
    ASSUME NEW set, NEW one \in set, NEW line, one.tag = line.tag,
           NEW to, to = (set \ {one}) \cup {line}
    PROVE  TagsIn(to) = TagsIn(set)
<1>1. \A x \in set : x = one \/ x \in to
  OBVIOUS
<1>2. \A x \in to : x = line \/ x \in set
  OBVIOUS
<1> QED
  BY <1>1, <1>2 DEF TagsIn

LEMMA OtherTags ==
    ASSUME NEW set, NEW one \in set, NEW line,
           \A x, y \in set : x.tag = y.tag => x = y,
           NEW to, to = (set \ {one}) \cup {line}
    PROVE  TagsIn(to) = (TagsIn(set) \ {one.tag}) \cup {line.tag}
<1>1. \A x \in to : x = line \/ (x \in set /\ x.tag # one.tag)
  OBVIOUS
<1>2. \A x \in set : x.tag # one.tag => x \in to
  OBVIOUS
<1> QED
  BY <1>1, <1>2 DEF TagsIn

\* After a write, the list with the line of the write in it fits again.
LEMMA WrittenFits ==
    ASSUME config \in Configs, NEW b, Good(b), NEW k \in Levels, FitsAt(b, k),
           b.outcome = "running", NEW adr \in Asked, NEW d,
           NEW r, NEW out, NEW new, IsNew(new, adr, d),
           Written(b, r, out, k, adr, new),
           NEW i, i = Index(k, adr), NEW list, list = b.order[k][i]
    PROVE  /\ Fits(k, TagsIn(r.table[k][i]), UpdateList(k, list, Tag(adr)))
           /\ \A l \in Sets(k) : l # i => r.table[k][l] = b.table[k][l]
<1> DEFINE set == b.table[k][i]
           t == Tag(adr)
           to == r.table[k][i]
           after == UpdateList(k, list, t)
           n == Level(k).setSize
<1>1. i \in Sets(k) /\ t \in Tags /\ new.tag = t
  BY IndexOfTag, AskedTag DEF IsNew
<1>2. /\ IsSet(k, i, set) /\ Fits(k, TagsIn(set), list)
      /\ list \in Seq(Tags) /\ Len(list) <= n
      /\ Len(list) \in Nat /\ n \in Nat \ {0}
      /\ IsFiniteSet(TagsIn(set)) /\ Cardinality(set) \in Nat
      /\ Cardinality(TagsIn(set)) = Cardinality(set)
      /\ Cardinality(set) <= Len(list)
      /\ FullLevel(k) => Len(list) = Cardinality(set)
  BY <1>1, FittingSet
<1>3. Good(r) /\ ~WrittenEnd(b, r, out, k, adr)
  BY WrittenFrame, WrittenRuns
<1>4. /\ IsSet(k, i, to) /\ Cardinality(to) \in Nat /\ Cardinality(to) <= n
      /\ Cardinality(TagsIn(to)) = Cardinality(to)
  <2>1. IsSet(k, i, to)
    BY <1>1, <1>3, GoodSet
  <2>2. Cardinality(to) <= n
    BY <2>1 DEF IsSet
  <2> HIDE DEF to
  <2>3. Cardinality(to) \in Nat /\ Cardinality(TagsIn(to)) = Cardinality(to)
    BY <2>1, TagsInSet
  <2> QED
    BY <2>1, <2>2, <2>3
<1>5. Lookup(b, k, adr) = {line \in set : line.tag = t}
  BY DEF Lookup
<1>6. Lookup(b, k, adr) = {} => t \notin TagsIn(set)
  BY <1>5 DEF TagsIn
<1>7. ~FullLevel(k) =>
        /\ Len(after) = IF Len(list) >= n THEN Len(list) ELSE Len(list) + 1
        /\ Cardinality(to) <= Len(after) => Fits(k, TagsIn(to), after)
  <2>1. ~FullLevel(k) =>
            Len(after) = IF Len(list) >= n THEN Len(list) ELSE Len(list) + 1
    BY <1>1, <1>2, UpdateGrows
  <2>2. ~FullLevel(k) =>
            (Cardinality(to) <= Len(after) => Fits(k, TagsIn(to), after))
    BY <1>4 DEF Fits
  <2> QED
    BY <2>1, <2>2
<1>8. ASSUME FullLevel(k)
      PROVE  /\ Names(list, TagsIn(set))
             /\ t \in TagsIn(set) => Names(after, TagsIn(set))
             /\ t \notin TagsIn(set) /\ Len(list) < n => Names(after, TagsIn(set) \cup {t})
             /\ t \notin TagsIn(set) /\ Len(list) >= n =>
                    Names(after, (TagsIn(set) \ {Head(list)}) \cup {t})
  <2> DEFINE T == TagsIn(set)
  <2>1. Names(list, T)
    BY <1>2, <1>8 DEF Fits
  <2> HIDE DEF T, set, t, after
  <2>2. Len(list) <= Level(k).setSize
    BY <1>2
  <2>3. after = UpdateList(k, list, t)
    BY DEF after
  <2>4. /\ t \in T => Names(after, T)
        /\ t \notin T /\ Len(list) < Level(k).setSize => Names(after, T \cup {t})
        /\ t \notin T /\ Len(list) >= Level(k).setSize =>
             Names(after, (T \ {Head(list)}) \cup {t})
    BY <1>1, <1>2, <1>8, <2>1, <2>2, <2>3, UpdateNames
  <2> QED
    BY <2>1, <2>4 DEF T
<1>9. CASE WrittenHit(b, r, out, k, adr, new)
  <2>1. PICK line \in Lookup(b, k, adr) : TRUE
    BY <1>9 DEF WrittenHit
  <2>2. /\ line \in set /\ line.tag = t /\ Lookup(b, k, adr) = {line}
    BY <1>5, <2>1, LookupIs
  <2>3. to = (set \ {line}) \cup {new}
    BY <1>1, <1>9, <2>2 DEF WrittenHit, Replaced
  <2>4. line.tag = new.tag
    BY <1>1, <2>2
  <2>5. TagsIn(to) = TagsIn(set)
    <3> HIDE DEF set, to
    <3> QED
      BY <2>2, <2>3, <2>4, SameTags
  <2>6. t \in TagsIn(set)
    BY <2>2 DEF TagsIn
  <2> HIDE DEF set, t
  <2>7. Fits(k, TagsIn(set), UpdateList(k, list, t))
    BY <1>1, <1>2, <2>6, UsedFits
  <2>8. Fits(k, TagsIn(to), after)
    BY <2>5, <2>7
  <2>9. \A l \in Sets(k) : l # i => r.table[k][l] = b.table[k][l]
    BY <1>9 DEF WrittenHit, Replaced
  <2> QED
    BY <2>8, <2>9 DEF t
<1>10. CASE WrittenFree(b, r, out, k, adr, new)
  <2>1. t \notin TagsIn(set) /\ Cardinality(set) < n
    BY <1>6, <1>10 DEF WrittenFree, HasRoom, SetOfLevel
  <2>2. to = (set \ {}) \cup {new}
    BY <1>1, <1>10 DEF WrittenFree, Replaced
  <2>3. TagsIn(to) = TagsIn(set) \cup {t}
    <3> HIDE DEF set, to
    <3>1. TagsIn(to) = TagsIn(set) \cup {new.tag}
      BY <2>2, AddedTags
    <3> QED
      BY <1>1, <3>1
  <2>4. Cardinality(TagsIn(to)) = Cardinality(set) + 1
    <3> DEFINE T == TagsIn(set)
    <3>1. IsFiniteSet(T) /\ t \notin T
      BY <1>2, <2>1
    <3> HIDE DEF T
    <3>2. Cardinality(T \cup {t}) = Cardinality(T) + 1
      BY <3>1, FS_AddElement
    <3> QED
      BY <1>2, <2>3, <3>2 DEF T
  <2>5. Fits(k, TagsIn(to), after)
    <3>1. CASE FullLevel(k)
      <4>1. Len(list) < n
        BY <1>2, <2>1, <3>1
      <4>2. Names(after, TagsIn(set) \cup {t})
        BY <1>8, <2>1, <3>1, <4>1
      <4> QED
        BY <2>3, <3>1, <4>2 DEF Fits
    <3>2. CASE ~FullLevel(k)
      <4>1. Cardinality(to) = Cardinality(set) + 1
        BY <1>4, <2>4
      <4> HIDE DEF to, after, set, n
      <4>2. Cardinality(to) <= Len(after)
        BY <1>2, <1>4, <1>7, <3>2, <4>1
      <4> QED
        BY <1>7, <3>2, <4>2
    <3> QED
      BY <3>1, <3>2
  <2>6. \A l \in Sets(k) : l # i => r.table[k][l] = b.table[k][l]
    BY <1>10 DEF WrittenFree, Replaced
  <2> QED
    BY <2>5, <2>6
<1>11. CASE \E victim \in Named(b, k, adr) :
                WrittenVictim(b, r, out, k, adr, new, victim)
  <2>1. PICK victim \in Named(b, k, adr) :
                WrittenVictim(b, r, out, k, adr, new, victim)
    BY <1>11
  <2>2. victim \in set /\ victim.tag = Head(list)
    BY <2>1 DEF Named, SetOfLevel, ListOfLevel
  <2>3. t \notin TagsIn(set) /\ ~(Cardinality(set) < n)
    BY <1>6, <2>1 DEF WrittenVictim, HasRoom, SetOfLevel
  <2>4. to = (set \ {victim}) \cup {new}
    BY <1>1, <2>1 DEF WrittenVictim, Replaced
  <2>5. TagsIn(to) = (TagsIn(set) \ {Head(list)}) \cup {t}
    <3>1. \A x, y \in set : x.tag = y.tag => x = y
      BY <1>2 DEF IsSet
    <3> HIDE DEF set, to
    <3>2. TagsIn(to) = (TagsIn(set) \ {victim.tag}) \cup {new.tag}
      BY <2>2, <2>4, <3>1, OtherTags
    <3> QED
      BY <1>1, <2>2, <3>2
  <2>6. Fits(k, TagsIn(to), after)
    <3>1. CASE FullLevel(k)
      <4>1. Len(list) >= n
        BY <1>2, <2>3, <3>1
      <4>2. Names(after, (TagsIn(set) \ {Head(list)}) \cup {t})
        BY <1>8, <2>3, <3>1, <4>1
      <4> QED
        BY <2>5, <3>1, <4>2 DEF Fits
    <3>2. CASE ~FullLevel(k)
      <4> HIDE DEF to, after, set, n
      <4>1. Cardinality(to) <= Len(after)
        BY <1>2, <1>4, <1>7, <2>3, <3>2
      <4> QED
        BY <1>7, <3>2, <4>1
    <3> QED
      BY <3>1, <3>2
  <2>7. \A l \in Sets(k) : l # i => r.table[k][l] = b.table[k][l]
    BY <2>1 DEF WrittenVictim, Replaced
  <2> QED
    BY <2>6, <2>7
<1>12. CASE WrittenNowhere(b, r, out, k, adr)
  <2>1. r = b /\ ~FullLevel(k)
    BY <1>12 DEF WrittenNowhere
  <2> HIDE DEF set, t
  <2>2. Fits(k, TagsIn(set), UpdateList(k, list, t))
    BY <1>1, <1>2, <2>1, UsedFits
  <2> QED
    BY <2>1, <2>2 DEF t, set
<1>13. \/ WrittenHit(b, r, out, k, adr, new)
       \/ WrittenFree(b, r, out, k, adr, new)
       \/ \E victim \in Named(b, k, adr) :
                WrittenVictim(b, r, out, k, adr, new, victim)
       \/ WrittenNowhere(b, r, out, k, adr)
  BY <1>3 DEF Written
<1> QED
  BY <1>9, <1>10, <1>11, <1>12, <1>13

\* q goes on from z with the list of level k updated.
Fitting(z, q, k) ==
    /\ Good(q) /\ q.outcome = "running" /\ FitsAt(q, k)
    /\ q.table = z.table
    /\ \A j \in Levels : j # k => q.order[j] = z.order[j]

LEMMA HandledFits ==
    ASSUME config \in Configs, NEW b, Good(b), NEW k \in Levels, FitsAt(b, k),
           b.outcome = "running", NEW adr \in Asked, NEW d,
           NEW r, NEW out, NEW new, NEW m, NEW z,
           Handled(b, r, out, m, z, k, adr, d, new),
           m.outcome = "running", NEW q, q = Update(z, k, adr)
    PROVE  Fitting(z, q, k)
<1> DEFINE i == Index(k, adr)
<1>1. i \in Sets(k) /\ Tag(adr) \in Tags
  BY IndexOfTag, AskedTag
<1>2. /\ IsNew(new, adr, d) /\ Written(b, r, out, k, adr, new)
      /\ PassedOn(r, m, k, out)
  BY DEF Handled
<1>3. /\ Good(z) /\ z.outcome = "running" /\ z.order[k] = b.order[k]
  <2>1. HandledSame(b, m, z, k)
    BY HandledFrame
  <2> QED
    BY <2>1, Configured DEF HandledSame
<1>4. Good(m) /\ m.table[k] = r.table[k]
  <2>1. Good(r)
    BY <1>2, WrittenFrame
  <2>2. k <= k
    BY Configured
  <2> QED
    BY <1>2, <2>1, <2>2, PassedOnFrame
<1>5. /\ Fits(k, TagsIn(r.table[k][i]), UpdateList(k, b.order[k][i], Tag(adr)))
      /\ \A l \in Sets(k) : l # i => r.table[k][l] = b.table[k][l]
  BY <1>2, WrittenFits
<1>6. \A l \in Sets(k) : TagsIn(z.table[k][l]) = TagsIn(m.table[k][l])
  <2>1. CASE z = m
    BY <2>1
  <2>2. CASE /\ new \in m.table[k][Index(k, new.tag)]
             /\ Replaced(m, z, k, new.tag, {new}, SetEntryValid(new))
    <3>1. SUFFICES ASSUME NEW l \in Sets(k)
                   PROVE  TagsIn(z.table[k][l]) = TagsIn(m.table[k][l])
      OBVIOUS
    <3> DEFINE set == m.table[k][l]
               to == z.table[k][l]
               line == SetEntryValid(new)
    <3>2. CASE l # Index(k, new.tag)
      BY <2>2, <3>1, <3>2 DEF Replaced
    <3>3. CASE l = Index(k, new.tag)
      <4>1. to = (set \ {new}) \cup {line} /\ new \in set
        BY <2>2, <3>1, <3>3 DEF Replaced
      <4>2. new.tag = line.tag
        <5>1. new \in Lines
          BY <1>2 DEF IsNew
        <5>2. new.tag \in Tags /\ TRUE \in BOOLEAN
          BY <5>1, LineFields
        <5> QED
          BY <5>1, <5>2, NewLines
      <4> HIDE DEF to, set, line
      <4>3. TagsIn(to) = TagsIn(set)
        BY <4>1, <4>2, SameTags
      <4> QED
        BY <4>3 DEF to, set
    <3> QED
      BY <3>2, <3>3
  <2>3. \/ z = m
        \/ /\ new \in m.table[k][Index(k, new.tag)]
           /\ Replaced(m, z, k, new.tag, {new}, SetEntryValid(new))
    BY SettleCases
  <2> QED
    BY <2>1, <2>2, <2>3
<1>7. /\ Good(q)
      /\ q.table = z.table /\ q.outcome = z.outcome
      /\ \A j \in Levels : j # k => q.order[j] = z.order[j]
      /\ z.outcome = "running" => \A l \in Sets(k) :
            q.order[k][l] = IF l = Index(k, adr)
                            THEN UpdateList(k, z.order[k][l], Tag(adr))
                            ELSE z.order[k][l]
  BY <1>3, UpdateIs
<1>8. FitsAt(q, k)
  <2>1. SUFFICES ASSUME NEW l \in Sets(k)
                 PROVE  Fits(k, TagsIn(q.table[k][l]), q.order[k][l])
    BY DEF FitsAt
  <2>2. TagsIn(q.table[k][l]) = TagsIn(r.table[k][l])
    BY <1>4, <1>6, <1>7
  <2>3. CASE l = i
    BY <1>3, <1>5, <1>7, <2>1, <2>2, <2>3
  <2>4. CASE l # i
    <3>1. q.order[k][l] = b.order[k][l] /\ r.table[k][l] = b.table[k][l]
      BY <1>3, <1>5, <1>7, <2>1, <2>4
    <3>2. Fits(k, TagsIn(b.table[k][l]), b.order[k][l])
      BY <2>1 DEF FitsAt
    <3> QED
      BY <2>2, <3>1, <3>2
  <2> QED
    BY <2>3, <2>4
<1> QED
  BY <1>3, <1>7, <1>8 DEF Fitting

\* A load that finds its line updates the list of a line that is there.
LEMMA UpdateFits ==
    ASSUME config \in Configs, NEW s, Good(s), NEW k \in Levels, FitsAt(s, k),
           s.outcome = "running", NEW adr \in Asked, Lookup(s, k, adr) # {},
           NEW q, q = Update(s, k, adr)
    PROVE  Fitting(s, q, k)
<1> DEFINE i == Index(k, adr)
           set == s.table[k][i]
           list == s.order[k][i]
           t == Tag(adr)
<1>1. i \in Sets(k) /\ t \in Tags
  BY IndexOfTag, AskedTag
<1>2. /\ IsSet(k, i, set) /\ Fits(k, TagsIn(set), list)
      /\ list \in Seq(Tags) /\ Len(list) <= Level(k).setSize
  BY <1>1, FittingSet
<1>3. t \in TagsIn(set)
  <2>1. Lookup(s, k, adr) = {line \in set : line.tag = t}
    BY DEF Lookup
  <2> QED
    BY <2>1 DEF TagsIn
<1>4. /\ Good(q)
      /\ q.table = s.table /\ q.outcome = s.outcome
      /\ \A j \in Levels : j # k => q.order[j] = s.order[j]
      /\ s.outcome = "running" => \A l \in Sets(k) :
            q.order[k][l] = IF l = Index(k, adr)
                            THEN UpdateList(k, s.order[k][l], Tag(adr))
                            ELSE s.order[k][l]
  BY UpdateIs
<1>5. Fits(k, TagsIn(set), UpdateList(k, list, t))
  <2> HIDE DEF set, list, t, i
  <2> QED
    BY <1>1, <1>2, <1>3, UsedFits
<1>6. FitsAt(q, k)
  BY <1>4, <1>5 DEF FitsAt
<1> QED
  BY <1>4, <1>6 DEF Fitting

\* Requests to the last level.
LEMMA LoadLastFits ==
    ASSUME config \in Configs, NEW s, Good(s), NEW k \in Levels, LastLevel(k),
           FitsAt(s, k), s.outcome = "running", NEW adr \in Asked,
           NEW q, q = LoadLast(s, k, adr, FALSE)
    PROVE  q.outcome = "running" /\ FitsAt(q, k)
<1> DEFINE w == LoadEntry(s, k, adr, s)
           z == WritePolicyOverMem(w, k)
           m == StoreInMem(w.state, Flushed(Level(k), w.line))
           d == DataFrom(s, k + 1, adr)
<1>1. q = Update(z, k, adr)
  BY DEF LoadLast
<1>2. CASE Lookup(s, k, adr) # {}
  <2>1. w.state = s /\ w.line = {}
    BY <1>2 DEF LoadEntry
  <2>2. z = s
    BY <2>1, NothingToHandle
  <2>3. q = Update(s, k, adr)
    BY <1>1, <2>2
  <2> HIDE DEF w, z, m, d
  <2>4. Fitting(s, q, k)
    BY <1>2, <2>3, UpdateFits
  <2> QED
    BY <2>4 DEF Fitting
<1>3. CASE Lookup(s, k, adr) = {}
  <2>1. PICK new : /\ IsNew(new, adr, d) /\ ~new.invalid
                   /\ Written(s, w.state, w.line, k, adr, new)
    BY <1>3, LoadEntryCases
  <2> HIDE DEF w, d
  <2>2. PassedOn(w.state, m, k, w.line)
    BY <2>1, PassedOnToMem
  <2>3. m.outcome = w.state.outcome
    BY DEF StoreInMem
  <2>4. w.state.outcome = "running"
    BY <2>1, WrittenRuns
  <2>5. z = Settle(m, k, Flushed(Level(k), w.line))
    BY DEF WritePolicyOverMem
  <2> HIDE DEF m, z
  <2>6. Handled(s, w.state, w.line, m, z, k, adr, d, new)
    BY <2>1, <2>2, <2>5 DEF Handled
  <2>7. m.outcome = "running"
    BY <2>3, <2>4
  <2>8. Fitting(z, q, k)
    BY <1>1, <2>6, <2>7, HandledFits
  <2> QED
    BY <2>8 DEF Fitting
<1> QED
  BY <1>2, <1>3

LEMMA StoreLastFits ==
    ASSUME config \in Configs, NEW s, Good(s), NEW k \in Levels, LastLevel(k),
           FitsAt(s, k), s.outcome = "running", NEW adr \in Asked, NEW d \in BOOLEAN,
           NEW q, q = StoreLast(s, k, adr, d)
    PROVE  q.outcome = "running" /\ FitsAt(q, k)
<1> DEFINE w == StoreEntry(s, k, adr, d, s)
           z == WritePolicyOverMem(w, k)
           m == StoreInMem(w.state, Flushed(Level(k), w.line))
<1>1. q = Update(z, k, adr)
  BY DEF StoreLast
<1>2. PICK new : /\ IsNew(new, adr, d) /\ new.invalid
                 /\ Written(s, w.state, w.line, k, adr, new)
  BY StoreEntryCases
<1> HIDE DEF w
<1>3. PassedOn(w.state, m, k, w.line)
  BY <1>2, PassedOnToMem
<1>4. m.outcome = w.state.outcome
  BY DEF StoreInMem
<1>5. w.state.outcome = "running"
  BY <1>2, WrittenRuns
<1>6. z = Settle(m, k, Flushed(Level(k), w.line))
  BY DEF WritePolicyOverMem
<1> HIDE DEF m, z
<1>7. Handled(s, w.state, w.line, m, z, k, adr, d, new)
  BY <1>2, <1>3, <1>6 DEF Handled
<1>8. m.outcome = "running"
  BY <1>4, <1>5
<1>9. Fitting(z, q, k)
  BY <1>1, <1>7, <1>8, HandledFits
<1> QED
  BY <1>9 DEF Fitting

\* Every order list fits its set, and the program runs.
AllFit(s) == s.outcome = "running" /\ \A k \in Levels : FitsAt(s, k)

LEMMA SameFits ==
    ASSUME NEW s, NEW r, NEW k, FitsAt(s, k),
           r.table[k] = s.table[k], r.order[k] = s.order[k]
    PROVE  FitsAt(r, k)
BY DEF FitsAt

LEMMA NextLevelLoadFits ==
    ASSUME config \in Configs, NEW s, Good(s), AllClean(s), AllFit(s),
           NEW adr \in Asked, NEW r, r = NextLevelLoad(s, adr, FALSE)
    PROVE  AllFit(r)
<1>1. CASE 2 \notin Levels
  <2>1. r = s
    BY <1>1 DEF NextLevelLoad
  <2> QED
    BY <2>1
<1>2. CASE 2 \in Levels
  <2>1. Levels = {1, 2} /\ LastLevel(2)
    BY <1>2, TwoLevelsAre
  <2>2. r = LoadLast(s, 2, adr, FALSE)
    BY <1>2 DEF NextLevelLoad
  <2>3. s.outcome = "running" /\ FitsAt(s, 1) /\ FitsAt(s, 2)
    BY <2>1 DEF AllFit
  <2>4. r.outcome = "running" /\ FitsAt(r, 2)
    BY <1>2, <2>1, <2>2, <2>3, LoadLastFits
  <2>5. r.table[1] = s.table[1] /\ r.order[1] = s.order[1]
    BY NextLevelLoaded
  <2>6. FitsAt(r, 1)
    BY <2>3, <2>5, SameFits
  <2> QED
    BY <2>1, <2>4, <2>6 DEF AllFit
<1> QED
  BY <1>1, <1>2

\* What the second level is after a line of the first one was stored in it.
LEMMA NextLevelStoreFits ==
    ASSUME config \in Configs, 2 \in Levels, NEW b, Good(b), AllFit(b),
           NEW r, NEW out, NEW adr \in Asked, NEW d, NEW new, IsNew(new, adr, d),
           Written(b, r, out, 1, adr, new),
           NEW m, m = NextLevelStore(r, Flushed(Level(1), out))
    PROVE  m.outcome = "running" /\ FitsAt(m, 2)
<1> DEFINE flushed == Flushed(Level(1), out)
<1>1. Levels = {1, 2} /\ LastLevel(2)
  BY TwoLevelsAre
<1>2. b.outcome = "running" /\ FitsAt(b, 1) /\ FitsAt(b, 2)
  BY <1>1 DEF AllFit
<1>3. /\ Good(r) /\ r.order = b.order
      /\ \A j \in Levels : j # 1 => r.table[j] = b.table[j]
  BY <1>1, WrittenFrame
<1>4. r.outcome = "running"
  BY <1>1, <1>2, WrittenRuns
<1>5. FitsAt(r, 2)
  <2>1. r.table[2] = b.table[2] /\ r.order[2] = b.order[2]
    BY <1>1, <1>3
  <2> QED
    BY <1>2, <2>1, SameFits
<1>6. CASE flushed = {}
  <2>1. m = r
    BY <1>6 DEF NextLevelStore, StoreInMem
  <2> QED
    BY <1>4, <1>5, <2>1
<1>7. CASE flushed # {}
  <2>1. PICK line \in flushed : TRUE
    BY <1>7
  <2>2. TheLine(flushed) = line /\ line \in Lines
    BY <1>1, <2>1, FlushedIs
  <2>3. line.tag \in Tags /\ line.data \in BOOLEAN
    BY <2>2, LineFields
  <2>4. line.tag \in Asked
    BY <2>3, TagsAreAsked
  <2>5. m = StoreLast(r, 2, line.tag, line.data)
    BY <1>7, <2>2 DEF NextLevelStore
  <2> DEFINE t == line.tag
             e == line.data
  <2>6. t \in Asked /\ e \in BOOLEAN /\ m = StoreLast(r, 2, t, e)
    BY <2>3, <2>4, <2>5
  <2> HIDE DEF t, e, flushed
  <2> QED
    BY <1>1, <1>3, <1>4, <1>5, <2>6, StoreLastFits
<1> QED
  BY <1>6, <1>7

LEMMA FirstLevelFits ==
    ASSUME config \in Configs, NEW b, Good(b), AllClean(b), AllFit(b),
           NEW w, NEW adr \in Asked, NEW d, NEW new, IsNew(new, adr, d),
           Written(b, w.state, w.line, 1, adr, new),
           NEW z, z = HandleWritePolicy(w), NEW q, q = Update(z, 1, adr)
    PROVE  AllFit(q)
<1> DEFINE flushed == Flushed(Level(1), w.line)
           m == NextLevelStore(w.state, flushed)
<1>1. 1 \in Levels
  BY Configured
<1>2. b.outcome = "running" /\ FitsAt(b, 1)
  BY <1>1 DEF AllFit
<1>3. z = Settle(m, 1, flushed)
  BY DEF HandleWritePolicy
<1>4. w.state.outcome = "running"
  BY <1>1, <1>2, WrittenRuns
<1>5. CASE 2 \notin Levels
  <2>1. LastLevel(1) /\ Levels = {1}
    <3>1. Levels = {1}
      BY <1>5, LevelsAre
    <3>2. 1 + 1 \notin Levels
      BY <3>1
    <3> QED
      BY <3>1, <3>2 DEF LastLevel
  <2>2. m = StoreInMem(w.state, flushed)
    BY <1>5 DEF NextLevelStore
  <2>3. PassedOn(w.state, m, 1, w.line)
    <3>1. PassedOn(w.state, StoreInMem(w.state, Flushed(Level(1), w.line)), 1, w.line)
      <4> HIDE DEF flushed, m
      <4> QED
        BY <1>1, <2>1, PassedOnToMem
    <3> QED
      BY <2>2, <3>1
  <2>4. m.outcome = "running"
    <3>1. w.state \in States
      BY <1>1, WrittenFrame DEF Good
    <3> HIDE DEF flushed, m
    <3> QED
      BY <1>4, <2>2, <3>1 DEF StoreInMem, States
  <2> HIDE DEF m
  <2>5. Handled(b, w.state, w.line, m, z, 1, adr, d, new)
    BY <1>3, <2>3 DEF Handled
  <2>6. Fitting(z, q, 1)
    BY <1>1, <1>2, <2>4, <2>5, HandledFits
  <2> QED
    BY <2>1, <2>6 DEF Fitting, AllFit
<1>6. CASE 2 \in Levels
  <2>1. Levels = {1, 2} /\ CleanAt(b, 2)
    BY <1>6, TwoLevelsAre DEF AllClean
  <2>2. PassedOn(w.state, m, 1, w.line)
    BY <1>6, <2>1, NextLevelStored
  <2>3. m.outcome = "running" /\ FitsAt(m, 2)
    BY <1>6, NextLevelStoreFits
  <2> HIDE DEF m
  <2>4. Handled(b, w.state, w.line, m, z, 1, adr, d, new)
    BY <1>3, <2>2 DEF Handled
  <2>5. Fitting(z, q, 1)
    BY <1>1, <1>2, <2>3, <2>4, HandledFits
  <2>6. HandledSame(b, m, z, 1)
    BY <1>1, <2>4, HandledFrame
  <2>7. q.table[2] = m.table[2] /\ q.order[2] = m.order[2]
    BY <2>1, <2>5, <2>6 DEF Fitting, HandledSame
  <2>8. FitsAt(q, 2)
    BY <2>3, <2>7, SameFits
  <2> QED
    BY <2>1, <2>5, <2>8 DEF Fitting, AllFit
<1> QED
  BY <1>5, <1>6

\* A load that prefetches nothing, and a store.
LEMMA CacheLoadFits ==
    ASSUME config \in Configs, NEW s, Good(s), AllClean(s), AllFit(s),
           NEW adr \in Asked, NEW q, q = CacheLoad(s, adr, FALSE)
    PROVE  AllFit(q)
<1> DEFINE below == NextLevelLoad(s, adr, FALSE)
           w == LoadEntry(s, 1, adr, below)
           z == HandleWritePolicy(w)
           d == DataFrom(s, 1 + 1, adr)
<1>1. q = Update(z, 1, adr)
  BY DEF CacheLoad
<1>2. 1 \in Levels
  BY Configured
<1>3. CASE Lookup(s, 1, adr) # {}
  <2>1. w.state = s /\ w.line = {}
    BY <1>3 DEF LoadEntry
  <2>2. Flushed(Level(1), w.line) = {}
    BY <2>1, NothingToHandle
  <2>3. z = s
    BY <2>1, <2>2 DEF HandleWritePolicy, NextLevelStore, StoreInMem, Settle
  <2>4. q = Update(s, 1, adr)
    BY <1>1, <2>3
  <2> HIDE DEF w, z, d, below
  <2>5. s.outcome = "running" /\ \A k \in Levels : FitsAt(s, k)
    BY DEF AllFit
  <2>6. Fitting(s, q, 1)
    BY <1>2, <1>3, <2>4, <2>5, UpdateFits
  <2>7. \A k \in Levels : k # 1 => FitsAt(q, k)
    BY <2>5, <2>6, SameFits DEF Fitting
  <2> QED
    BY <2>6, <2>7 DEF Fitting, AllFit
<1>4. CASE Lookup(s, 1, adr) = {}
  <2>1. /\ Good(below) /\ AllClean(below)
        /\ \A u : Lookup(below, 1, u) = Lookup(s, 1, u)
    BY NextLevelLoaded
  <2>2. AllFit(below)
    BY NextLevelLoadFits
  <2> HIDE DEF below
  <2>3. PICK new : /\ IsNew(new, adr, d) /\ ~new.invalid
                   /\ Written(below, w.state, w.line, 1, adr, new)
    BY <1>2, <1>4, <2>1, LoadEntryCases
  <2> HIDE DEF w, d
  <2>4. z = HandleWritePolicy(w)
    OBVIOUS
  <2> HIDE DEF z
  <2> QED
    BY <1>1, <2>1, <2>2, <2>3, <2>4, FirstLevelFits
<1> QED
  BY <1>3, <1>4

LEMMA CacheStoreFits ==
    ASSUME config \in Configs, NEW s, Good(s), AllClean(s), AllFit(s),
           NEW adr \in Asked, NEW q, q = CacheStore(s, adr)
    PROVE  AllFit(q)
<1> DEFINE below == NextLevelLoad(s, adr, FALSE)
           w == StoreEntry(s, 1, adr, TRUE, below)
           z == HandleWritePolicy(w)
           b == IF Lookup(s, 1, adr) # {} THEN s ELSE below
<1>1. q = Update(z, 1, adr)
  BY DEF CacheStore
<1>2. 1 \in Levels
  BY Configured
<1>3. /\ Good(below) /\ AllClean(below)
      /\ \A u : Lookup(below, 1, u) = Lookup(s, 1, u)
  BY NextLevelLoaded
<1>4. AllFit(below)
  BY NextLevelLoadFits
<1> HIDE DEF below
<1>5. PICK new : /\ IsNew(new, adr, TRUE) /\ new.invalid
                 /\ Written(b, w.state, w.line, 1, adr, new)
  BY <1>2, <1>3, StoreEntryCases
<1>6. Good(b) /\ AllClean(b) /\ AllFit(b)
  BY <1>3, <1>4
<1>7. z = HandleWritePolicy(w)
  OBVIOUS
<1> HIDE DEF w, z, b
<1> QED
  BY <1>1, <1>5, <1>6, <1>7, FirstLevelFits

LEMMA OutdateFits ==
    ASSUME config \in Configs, NEW s, Good(s), AllFit(s), NEW adr \in Asked,
           NEW r, r = Outdate(s, adr)
    PROVE  AllFit(r)
<1>1. IsOutdated(s, r, adr)
  BY OutdateFields
<1>2. ASSUME NEW k \in Levels, NEW i \in Sets(k)
      PROVE  TagsIn(r.table[k][i]) = TagsIn(s.table[k][i])
  <2> DEFINE set == s.table[k][i]
             t == Tag(adr)
  <2>1. r.table[k][i] = {Outdated(line, t) : line \in set}
    BY <1>1, <1>2 DEF IsOutdated, OutdatedSet
  <2>2. \A line \in set : line \in Lines
    BY <1>2, GoodSet DEF IsSet
  <2> HIDE DEF set, t
  <2>3. \A line \in set : Outdated(line, t).tag = line.tag
    BY <2>2, OutdatedLine
  <2>4. TagsIn(r.table[k][i]) = TagsIn(set)
    BY <2>1, <2>3 DEF TagsIn
  <2> QED
    BY <2>4 DEF set
<1>3. r.order = s.order /\ r.outcome = s.outcome
  BY <1>1 DEF IsOutdated
<1> QED
  BY <1>2, <1>3 DEF AllFit, FitsAt

\* The lists of the empty caches, and of those a request leaves.
LEMMA InitFits ==
    ASSUME Init
    PROVE  AllFit(Now)
<1>1. /\ outcome = "running"
      /\ table = [k \in Levels |-> [i \in Sets(k) |-> {}]]
      /\ order = [k \in Levels |-> [i \in Sets(k) |-> << >>]]
  BY DEF Init, Sets
<1>2. ASSUME NEW k \in Levels, NEW i \in Sets(k)
      PROVE  Fits(k, TagsIn(Now.table[k][i]), Now.order[k][i])
  <2>1. Now.table[k][i] = {} /\ Now.order[k][i] = << >>
    BY <1>1, <1>2, NowIs
  <2>2. TagsIn({}) = {}
    BY DEF TagsIn
  <2>3. Names(<< >>, {})
    BY DEF Names, ToSet, IsInjective
  <2>4. Cardinality({}) <= Len(<< >>)
    BY FS_EmptySet
  <2> QED
    BY <2>1, <2>2, <2>3, <2>4 DEF Fits
<1> QED
  BY <1>1, <1>2, NowIs DEF AllFit, FitsAt

LEMMA BecomeFits ==
    ASSUME NEW s, Good(s), AllFit(s), Become(s)
    PROVE  AllFit(Now)'
<1>1. /\ table' = s.table /\ order' = s.order /\ outcome' = s.outcome /\ mem' = s.mem
      /\ config' = config
  BY DEF Become
<1>2. s \in States
  BY DEF Good
<1>3. s = [table |-> s.table, order |-> s.order, outcome |-> s.outcome, mem |-> s.mem]
  BY <1>2 DEF States
<1>4. Now' = s
  BY <1>1, <1>3 DEF Now
<1>5. AllFit(s)' <=> AllFit(s)
  BY <1>1 DEF AllFit, FitsAt, Fits, FullLevel, Sets, Levels, Level
<1>6. AllFit(Now)' <=> AllFit(s)'
  BY <1>4 DEF AllFit, FitsAt
<1> QED
  BY <1>4, <1>5, <1>6

\* What is inductive, besides IInv: without a prefetch, all lists fit.
ListsFit == ~config.prefetchTrigger => AllFit(Now)

LEMMA RequestsFit ==
    ASSUME IInv, ~config.prefetchTrigger, AllFit(Now), NEW adr \in Addresses,
           Load(adr) \/ Store(adr)
    PROVE  AllFit(Now)'
<1>1. config \in Configs /\ Good(Now) /\ AllClean(Now)
  BY DEF IInv
<1>2. adr \in Asked
  BY TagsAreAsked
<1>3. PICK now : now = Now
  OBVIOUS
<1>4. Good(now) /\ AllClean(now) /\ AllFit(now)
  BY <1>1, <1>3
<1>5. CASE Load(adr)
  <2>1. PICK loaded : loaded = CacheLoad(now, adr, FALSE)
    OBVIOUS
  <2>2. Become(loaded)
    BY <1>3, <1>5, <2>1 DEF Load
  <2>3. AllFit(loaded)
    BY <1>1, <1>2, <1>4, <2>1, CacheLoadFits
  <2>4. Good(loaded)
    BY <1>1, <1>2, <1>4, <2>1, CacheLoadIs DEF Ended
  <2> QED
    BY <2>2, <2>3, <2>4, BecomeFits
<1>6. CASE Store(adr)
  <2>1. PICK old : old = Outdate(now, adr)
    OBVIOUS
  <2>2. Good(old) /\ AllClean(old)
    BY <1>1, <1>2, <1>4, <2>1, OutdateIs
  <2>3. AllFit(old)
    BY <1>1, <1>2, <1>4, <2>1, OutdateFits
  <2>4. PICK done : done = CacheStore(old, adr)
    OBVIOUS
  <2>5. Become(done)
    BY <1>3, <1>6, <2>1, <2>4 DEF Store
  <2>6. AllFit(done)
    BY <1>1, <1>2, <2>2, <2>3, <2>4, CacheStoreFits
  <2>7. Good(done)
    BY <1>1, <1>2, <2>2, <2>4, CacheStoreIs DEF Ended
  <2> QED
    BY <2>5, <2>6, <2>7, BecomeFits
<1> QED
  BY <1>5, <1>6

LEMMA ListsAlwaysFit == Spec => [](IInv /\ ListsFit)
<1>1. Init => ListsFit
  BY InitFits DEF ListsFit
<1>2. IInv /\ ListsFit /\ [Next]_vars => ListsFit'
  <2>1. SUFFICES ASSUME IInv, ListsFit, [Next]_vars, ~config'.prefetchTrigger
                 PROVE  AllFit(Now)'
    BY DEF ListsFit
  <2>2. config' = config
    BY <2>1 DEF Next, Load, Store, Become, vars
  <2>3. AllFit(Now)
    BY <2>1, <2>2 DEF ListsFit
  <2>4. ASSUME NEW adr \in Addresses, Load(adr) \/ Store(adr)
        PROVE  AllFit(Now)'
    BY <2>1, <2>2, <2>3, <2>4, RequestsFit
  <2>5. CASE UNCHANGED vars
    <3>1. PICK now : now = Now
      OBVIOUS
    <3>2. Become(now)
      BY <2>5, <3>1, NowIs DEF Become, vars
    <3>3. Good(now) /\ AllFit(now)
      BY <2>1, <2>3, <3>1 DEF IInv
    <3> QED
      BY <3>2, <3>3, BecomeFits
  <2> QED
    BY <2>1, <2>4, <2>5 DEF Next
<1> QED
  BY <1>1, <1>2, Inductive, PTL DEF Spec

\* The order list of a fully associative level names each line of the table
\* once, and nothing else, as long as nothing is prefetched: what getEntry
\* names can be evacuated.
THEOREM OrderListsMatch == Spec => []OrderMatchesTable
<1>1. IInv /\ ListsFit => OrderMatchesTable
  <2>1. SUFFICES ASSUME IInv, ListsFit, ~config.prefetchTrigger,
                        NEW k \in Levels, FullLevel(k)
                 PROVE  /\ ToSet(order[k][0]) = {line.tag : line \in table[k][0]}
                        /\ IsInjective(order[k][0])
    BY DEF OrderMatchesTable
  <2>2. config \in Configs /\ AllFit(Now)
    BY <2>1 DEF IInv, ListsFit
  <2>3. Level(k).numberOfSets = 1
    BY <2>1, <2>2, V1CacheAssumption DEF FullLevel, Level, Levels
  <2>4. 0 \in Sets(k)
    BY <2>3 DEF Sets
  <2>5. Fits(k, TagsIn(Now.table[k][0]), Now.order[k][0])
    BY <2>2, <2>4 DEF AllFit, FitsAt
  <2>6. Names(order[k][0], TagsIn(table[k][0]))
    BY <2>1, <2>5, NowIs DEF Fits
  <2> QED
    BY <2>6 DEF Names, TagsIn
<1> QED
  BY <1>1, ListsAlwaysFit, PTL

\* Without prefetching no load and no store ends in the exception of getEntry,
\* or evacuates the end iterator: a list is as long as its set, or names it.
THEOREM RequestsNeverFail == Spec => []NeverFails
<1>1. ListsFit => NeverFails
  BY NowIs DEF ListsFit, NeverFails, AllFit
<1> QED
  BY <1>1, ListsAlwaysFit, PTL

=============================================================================
