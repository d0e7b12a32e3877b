----------------------------- MODULE LruAccessor -----------------------------
(***************************************************************************)
(* A SetAccessor over one cache table, driven by any sequence of read and  *)
(* write calls, next to a clock that dates the last use of every line.     *)
(* The code keeps no dates: it trusts the order of each set's list.  The   *)
(* properties say that this order is the order of the dates, and that the  *)
(* lines of a set are always its most recently used ones.                  *)
(***************************************************************************)
EXTENDS SetAccessor

CONSTANTS Config,     \* the configuration of the cache
          Addresses,  \* the addresses it is asked for
          MaxUses     \* bound: uses of a line the clock can date

ASSUME ConfigAssumption == IsCacheConfig(Config)

ASSUME AddressesAssumption == Addresses \subseteq Nat

ASSUME MaxUsesAssumption == MaxUses \in Nat

VARIABLES table,     \* the CacheTable
          returned,  \* the line the last call returned, {} for nullptr
          clock,     \* auxiliary: number of uses so far
          lastUse    \* auxiliary: the date of each tag's last use, 0 for never

vars == <<table, returned, clock, lastUse>>

Tags == {DataTag(Config, adr) : adr \in Addresses}

Lines == CacheLine(Tags, {0})

Init ==
    /\ table = EmptyTable(Config)
    /\ returned = {}
    /\ clock = 0
    /\ lastUse = [dtag \in Tags |-> 0]

\* The line of adr is used now.
Use(adr) ==
    /\ clock < MaxUses
    /\ clock' = clock + 1
    /\ lastUse' = [lastUse EXCEPT ![DataTag(Config, adr)] = clock + 1]

ReadHit(adr) ==
    /\ IsCached(Config, table, adr)
    /\ table' = Read(Config, table, adr)
    /\ returned' = {Last(SetOf(Config, table', adr))}
    /\ Use(adr)

ReadMiss(adr) ==
    /\ ~IsCached(Config, table, adr)
    /\ table' = Read(Config, table, adr)
    /\ returned' = {}
    /\ UNCHANGED <<clock, lastUse>>

WriteLine(adr) ==
    /\ table' = Write(Config, table, adr, 0).table
    /\ returned' = Write(Config, table, adr, 0).line
    /\ Use(adr)

Next ==
    \E adr \in Addresses : ReadHit(adr) \/ ReadMiss(adr) \/ WriteLine(adr)

Spec == Init /\ [][Next]_vars

------------------------------------------------------------------------------
\* Every set holds at most setSize lines, each of an address of that set
\* and none of them marked as evacuated: type correctness of the table the
\* code indexes without a check (set_accessor.cpp:39, :62).
TypeOK ==
    /\ table \in [0..(Config.numberOfSets - 1) -> Seq(Lines)]
    /\ returned \in SUBSET Lines
    /\ clock \in 0..MaxUses
    /\ lastUse \in [Tags -> 0..clock]
    /\ \A ltag \in DOMAIN table :
        /\ Len(table[ltag]) <= Config.setSize
        /\ \A i \in DOMAIN table[ltag] :
            /\ LocTag(Config, table[ltag][i].tag) = ltag
            /\ ~table[ltag][i].evacuated

\* The list of a set is sorted by last use, oldest first: what read and write
\* maintain by moving an entry to the end.  Since no two uses have the same
\* date, it also says that no line is in a set twice.
RecencyOrder ==
    \A ltag \in DOMAIN table : \A i, j \in DOMAIN table[ltag] :
        i < j => lastUse[table[ltag][i].tag] < lastUse[table[ltag][j].tag]

\* A set holds its most recently used lines: a line that was used and is no
\* longer cached left a full set, and every line now in that set was used
\* after it.  This is the LRU policy the class comment announces
\* (set_accessor.hpp:11), for any sequence of calls.
KeepsMostRecent ==
    \A adr \in Addresses :
        LET set  == SetOf(Config, table, adr)
            dtag == DataTag(Config, adr)
        IN  lastUse[dtag] > 0 /\ ~IsCached(Config, table, adr)
            => /\ Len(set) = Config.setSize
               /\ \A i \in DOMAIN set : lastUse[dtag] < lastUse[set[i].tag]

\* A line leaves the table, or loses its dirty flag, only by being handed to
\* the caller with its flags intact and marked as evacuated: the caller is
\* the only one who can still write it back.
NoSilentLoss ==
    [][\A line \in LinesOf(table) :
          \/ \E kept \in LinesOf(table') :
                kept.tag = line.tag /\ (line.invalid => kept.invalid)
          \/ returned' = {[line EXCEPT !.evacuated = TRUE]}]_vars

==============================================================================
