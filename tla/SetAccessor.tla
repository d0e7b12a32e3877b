----------------------------- MODULE SetAccessor -----------------------------
(***************************************************************************)
(* class SetAccessor (set_accessor.cpp): how a set-associative LRU cache   *)
(* finds, refreshes, allocates and evicts the lines of a cache table.      *)
(*                                                                         *)
(* The table maps a set index to the list of the set's lines.  The list is *)
(* its own replacement state: a used line is moved to the end, the head is *)
(* the victim.                                                             *)
(***************************************************************************)
EXTENDS CacheDefs, SequencesExt, TLC

\* The constructor, on top of a CacheConfig: the location mask has
\* ceil(log2(numberOfSets)) bits, so it tells apart the smallest power of two
\* that is at least numberOfSets.
Accessor(config) ==
    config @@ [locTagRange |->
        Min({2^k : k \in {b \in 0..config.numberOfSets :
                                2^b >= config.numberOfSets}})]

LocTag(c, adr) == (adr \div c.cacheLineSize) % c.locTagRange

DataTag(c, adr) == adr - (adr % c.cacheLineSize)

EmptyTable(c) == [ltag \in 0..(c.numberOfSets - 1) |-> << >>]

\* The set an address falls in.
SetOf(c, table, adr) == table[LocTag(c, adr)]

IsCached(c, table, adr) ==
    \E i \in DOMAIN SetOf(c, table, adr) :
        SetOf(c, table, adr)[i].tag = DataTag(c, adr)

\* Where the scan of a set stops.
EntryOf(set, dtag) == CHOOSE i \in DOMAIN set : set[i].tag = dtag

\* DL_DELETE followed by DL_APPEND of the entry, its line now being line.
MoveToEnd(set, entry, line) == Append(RemoveAt(set, entry), line)

\* Mutant: one line too many.
MutIsFull(c, set) == Len(set) > c.setSize

IsFull(c, set) == Len(set) >= c.setSize

\* The entry a full set gives up: the head of its list.
Victim(set) == 1

\* SetAccessor::read: the table it leaves.  It returns a line iff IsCached,
\* and that line is then the last one of its set.
Read(c, table, adr) ==
    LET set   == SetOf(c, table, adr)
        entry == EntryOf(set, DataTag(c, adr))
    IN  IF IsCached(c, table, adr)
        THEN [table EXCEPT ![LocTag(c, adr)] = MoveToEnd(set, entry, set[entry])]
        ELSE table

\* SetAccessor::write of an address whose line now holds d: the table it
\* leaves, and the line it returns as a set of at most one line ({} is the
\* null pointer).
Write(c, table, adr, d) ==
    LET set   == SetOf(c, table, adr)
        dtag  == DataTag(c, adr)
        entry == EntryOf(set, dtag)
        rewritten == [SetEntryInvalid(set[entry]) EXCEPT !.data = d]
        victim == Victim(set)
        kept   == IF IsFull(c, set) THEN RemoveAt(set, victim) ELSE set
    IN  IF IsCached(c, table, adr)
        THEN [table |-> [table EXCEPT ![LocTag(c, adr)] =
                                          MoveToEnd(set, entry, rewritten)],
              line  |-> {rewritten}]
        ELSE [table |-> [table EXCEPT ![LocTag(c, adr)] =
                                          Append(kept, NewCacheLine(dtag, d))],
              line  |-> IF IsFull(c, set) THEN {SetEvacuated(set[victim])}
                                          ELSE {}]

\* The lines of a table, and their tags.
LinesOf(table) == UNION {ToSet(table[ltag]) : ltag \in DOMAIN table}

TagsOf(table) == {line.tag : line \in LinesOf(table)}

\* What every cache of the simulator is configured with, together with the
\* mask its accessor computes: a power of two as the number of sets, so that
\* the mask never leaves the table.
IsCacheConfig(c) ==
    /\ c.numberOfSets \in Nat \ {0}
    /\ c.setSize \in Nat \ {0}
    /\ c.cacheLineSize \in Nat \ {0}
    /\ c.writePolicy \in WritePolicy
    /\ c.locTagRange = c.numberOfSets

==============================================================================
