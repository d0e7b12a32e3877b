------------------------------- MODULE V1Cache -------------------------------
(***************************************************************************)
(* class Cache of version 1 (v1/cache.hpp), alone over the memory mock or  *)
(* as two levels, with the two associativities, the LRU policy they ask    *)
(* for a victim and the prefetcher the first level triggers.  Unlike       *)
(* SetAccessor, the policy keeps an order list of its own: Cache has to    *)
(* tell it of every use.                                                   *)
(*                                                                         *)
(* A FullAssociative cache is one set of maxSets lines here.  The counters *)
(* and the results of load and store are left out: no cache reads them.    *)
(*                                                                         *)
(* The field data of a line is auxiliary, as in CacheDefs; here it says    *)
(* whether the line holds what the program last stored in it.              *)
(***************************************************************************)
EXTENDS WritePolicyHandler, FiniteSetsExt

CONSTANTS Configs,     \* the configurations of the caches
          LineSize,    \* CACHE_LINE_SIZE
          PageSize,
          Threshold,   \* SEQ_PREFETCH_THRESHOLD
          HistoryMax,  \* MAX_CACHE_HISTORY
          Addresses    \* the addresses the program loads and stores

ASSUME V1CacheAssumption ==
    /\ \A c \in Configs :
        /\ c.prefetchTrigger \in BOOLEAN
        /\ Len(c.levels) \in 1..2
        /\ \A k \in 1..Len(c.levels) :
            /\ c.levels[k].assoc \in {"SET_ASSOC", "FULL_ASSOC"}
            /\ c.levels[k].numberOfSets \in Nat \ {0}
            /\ c.levels[k].setSize \in Nat \ {0}
            /\ c.levels[k].writePolicy \in WritePolicy
            /\ c.levels[k].assoc = "FULL_ASSOC" => c.levels[k].numberOfSets = 1
    /\ {LineSize, PageSize, HistoryMax} \subseteq Nat \ {0}
    /\ Threshold \in 2..HistoryMax
    /\ Addresses \subseteq Nat

VARIABLES config,   \* how the caches were configured
          table,    \* of each level, the lines of each set
          order,    \* of each level, the order list of each set
          history,  \* the last accesses of the first level
          outcome,  \* "running", or how the program ended
          mem       \* auxiliary: the data of the lines of memory

vars == <<config, table, order, history, outcome, mem>>

Level(k) == config.levels[k]

Levels == 1..Len(config.levels)

Tag(adr) == adr - (adr % LineSize)

Index(k, adr) == (adr \div LineSize) % Level(k).numberOfSets

\* The lines of the addresses, and of those the prefetcher may add.
Tags == {Tag(adr) : adr \in Addresses} \cup {Tag(adr) + LineSize : adr \in Addresses}

\* The state a load or store runs through.
Now == [table |-> table, order |-> order, outcome |-> outcome, mem |-> mem]

Become(s) ==
    /\ table' = s.table
    /\ order' = s.order
    /\ outcome' = s.outcome
    /\ mem' = s.mem
    /\ UNCHANGED config

Init ==
    /\ config \in Configs
    /\ table = [k \in Levels |-> [i \in 0..(Level(k).numberOfSets - 1) |-> {}]]
    /\ order = [k \in Levels |-> [i \in 0..(Level(k).numberOfSets - 1) |-> << >>]]
    /\ history = << >>
    /\ outcome = "running"
    /\ mem = [dtag \in Tags |-> TRUE]

\* read: the line of adr, if level k has it.
Lookup(s, k, adr) == {line \in s.table[k][Index(k, adr)] : line.tag = Tag(adr)}

\* What a load from level k gets, or from memory below the last level.
DataFrom(s, k, adr) ==
    LET holders == {j \in Levels : j >= k /\ Lookup(s, j, adr) # {}}
    IN  IF holders = {} THEN s.mem[Tag(adr)]
        ELSE TheLine(Lookup(s, Min(holders), adr)).data

\* Mutant: one line too many.
MutHasRoom(k, set) == Cardinality(set) <= Level(k).setSize

HasRoom(k, set) == Cardinality(set) < Level(k).setSize

\* Mutant: the list never counts as full.
MutHasVictim(k, list) == Len(list) > Level(k).setSize

\* getEntry has a victim to name.
HasVictim(k, list) == Len(list) >= Level(k).setSize

\* Mutant: the line is not marked as dirty.
MutWriteHit(s, k, adr, d) ==
    LET line == [TheLine(Lookup(s, k, adr)) EXCEPT !.data = d]
    IN  [state |-> [s EXCEPT !.table[k][Index(k, adr)] =
                        (@ \ Lookup(s, k, adr)) \cup {line}],
         line  |-> {line}]

\* The paths of write of the line of adr, which then holds d: the state they
\* leave, and the line they return, if any.
WriteHit(s, k, adr, d) ==
    LET line == [SetEntryInvalid(TheLine(Lookup(s, k, adr))) EXCEPT !.data = d]
    IN  [state |-> [s EXCEPT !.table[k][Index(k, adr)] =
                        (@ \ Lookup(s, k, adr)) \cup {line}],
         line  |-> {line}]

WriteFree(s, k, adr, d) ==
    [state |-> [s EXCEPT !.table[k][Index(k, adr)] =
                    @ \cup {NewCacheLine(Tag(adr), d)}],
     line  |-> {}]

WriteVictim(s, k, adr, d, victim) ==
    [state |-> [s EXCEPT !.table[k][Index(k, adr)] =
                    (@ \ {victim}) \cup {NewCacheLine(Tag(adr), d)}],
     line  |-> {SetEvacuated(victim)}]

\* The line getEntry names is not in the table: SetAssociative writes
\* nothing, FullAssociative goes on with the end iterator.
WriteNowhere(s, k) ==
    [state |-> IF Level(k).assoc = "SET_ASSOC" THEN s
               ELSE [s EXCEPT !.outcome = "undefined"],
     line  |-> {}]

\* write
WriteEntry(s, k, adr, d) ==
    LET set  == s.table[k][Index(k, adr)]
        list == s.order[k][Index(k, adr)]
        named == {line \in set : line.tag = Head(list)}
    IN  IF s.outcome # "running" THEN [state |-> s, line |-> {}]
        ELSE IF Lookup(s, k, adr) # {} THEN WriteHit(s, k, adr, d)
        ELSE IF HasRoom(k, set) THEN WriteFree(s, k, adr, d)
        ELSE IF ~HasVictim(k, list)
            THEN [state |-> [s EXCEPT !.outcome = "exception"], line |-> {}]
        ELSE IF named = {} THEN WriteNowhere(s, k)
        ELSE WriteVictim(s, k, adr, d, TheLine(named))

\* Mutant: the fully associative list takes a tag it has once more.
MutUpdateList(k, list, dtag) == AddAccess(list, Level(k).setSize, dtag)

\* LeastRecentlyUsed::update: only the fully associative one looks whether it
\* has the tag already.
UpdateList(k, list, dtag) ==
    IF Level(k).assoc = "FULL_ASSOC" /\ dtag \in ToSet(list)
    THEN MoveToEnd(list, CHOOSE entry \in DOMAIN list : list[entry] = dtag, dtag)
    ELSE AddAccess(list, Level(k).setSize, dtag)

Update(s, k, adr) ==
    IF s.outcome # "running" THEN s
    ELSE [s EXCEPT !.order[k][Index(k, adr)] = UpdateList(k, @, Tag(adr))]

\* What load gets from write, when the load from the next level left below.
LoadEntry(s, k, adr, below) ==
    IF Lookup(s, k, adr) # {} THEN [state |-> s, line |-> {}]
    ELSE WriteEntry(below, k, adr, DataFrom(s, k + 1, adr))

\* The same for a store of d.  After a miss the line is written twice, and
\* what the second write returns is dropped.
StoreEntry(s, k, adr, d, below) ==
    LET alloc == WriteEntry(below, k, adr, DataFrom(s, k + 1, adr))
        again == WriteEntry(alloc.state, k, adr, d)
    IN  IF Lookup(s, k, adr) # {} THEN WriteEntry(s, k, adr, d)
        ELSE [state |-> again.state, line |-> alloc.line]

\* After the store to the next level, which left s: a line that stays in the
\* table is clean.
Settle(s, k, flushed) ==
    LET line == TheLine(flushed)
    IN  IF flushed = {} \/ s.outcome # "running" \/ line.evacuated THEN s
        ELSE [s EXCEPT !.table[k][Index(k, line.tag)] =
                (@ \ {line}) \cup {SetEntryValid(line)}]

\* MainMemMock::store
StoreInMem(s, flushed) ==
    IF flushed = {} THEN s
    ELSE [s EXCEPT !.mem[TheLine(flushed).tag] = TheLine(flushed).data]

\* load and store of the last level.
WritePolicyOverMem(w, k) ==
    LET flushed == Flushed(Level(k), w.line)
    IN  Settle(StoreInMem(w.state, flushed), k, flushed)

\* A load that prefetches updates no order list on its way.
LoadLast(s, k, adr, prefetching) ==
    LET loaded == WritePolicyOverMem(LoadEntry(s, k, adr, s), k)
    IN  IF prefetching THEN loaded ELSE Update(loaded, k, adr)

StoreLast(s, k, adr, d) ==
    Update(WritePolicyOverMem(StoreEntry(s, k, adr, d, s), k), k, adr)

\* load and store of the next level of the first one: memory or the last level.
NextLevelLoad(s, adr, prefetching) ==
    IF 2 \in Levels THEN LoadLast(s, 2, adr, prefetching) ELSE s

NextLevelStore(s, flushed) ==
    IF 2 \in Levels /\ flushed # {}
    THEN StoreLast(s, 2, TheLine(flushed).tag, TheLine(flushed).data)
    ELSE StoreInMem(s, flushed)

\* load and store of the first level.
HandleWritePolicy(w) ==
    LET flushed == Flushed(Level(1), w.line)
    IN  Settle(NextLevelStore(w.state, flushed), 1, flushed)

CacheLoad(s, adr, prefetching) ==
    LET below == NextLevelLoad(s, adr, prefetching)
        loaded == HandleWritePolicy(LoadEntry(s, 1, adr, below))
    IN  IF prefetching THEN loaded ELSE Update(loaded, 1, adr)

CacheStore(s, adr) ==
    LET below == NextLevelLoad(s, adr, FALSE)
    IN  Update(HandleWritePolicy(StoreEntry(s, 1, adr, TRUE, below)), 1, adr)

\* The line after a store to the line of dtag that did not reach it.
Outdated(line, dtag) == [line EXCEPT !.data = @ /\ line.tag # dtag]

\* What every level and memory hold of the line of adr is now outdated.
Outdate(s, adr) ==
    [s EXCEPT
        !.mem[Tag(adr)] = FALSE,
        !.table = [k \in Levels |-> [i \in DOMAIN s.table[k] |->
                    {Outdated(line, Tag(adr)) : line \in s.table[k][i]}]]]

\* addToHistory, unless an exception has left the method before.
AddToHistory(s, adr) ==
    IF s.outcome # "running" THEN history
    ELSE AddAccess(history, HistoryMax, adr)

\* ascendingAccess: each of the last Threshold accesses is at most one line
\* beyond the one before.  The list is at least that long, so the walk ends
\* before it could wrap.
IsStream(list) ==
    /\ Len(list) >= Threshold
    /\ \A i \in (Len(list) - Threshold + 2)..Len(list) :
        list[i] - list[i - 1] \in 0..(2 * LineSize - 1)

InSamePage(a1, a2) == a1 \div PageSize = a2 \div PageSize

\* The address the prefetcher asks for, if it does.
ToFetch(list) ==
    LET next == Last(list) + LineSize
    IN  IF IsStream(list) /\ InSamePage(list[Len(list) - Threshold + 1], next)
        THEN {next} ELSE {}

\* load of an address the program asks for, with the prefetch it triggers.
Load(adr) ==
    LET loaded   == CacheLoad(Now, adr, FALSE)
        accesses == AddToHistory(loaded, adr)
        toFetch  == ToFetch(accesses)
    IN  /\ history' = accesses
        /\ \/ /\ loaded.outcome # "running" \/ ~config.prefetchTrigger
                 \/ toFetch = {}
              /\ Become(loaded)
           \/ /\ loaded.outcome = "running" /\ config.prefetchTrigger
              /\ \E next \in toFetch : Become(CacheLoad(loaded, next, TRUE))

\* store: it triggers no prefetch.
Store(adr) ==
    LET done == CacheStore(Outdate(Now, adr), adr)
    IN  Become(done) /\ history' = AddToHistory(done, adr)

Next ==
    /\ outcome = "running"
    /\ \E adr \in Addresses : Load(adr) \/ Store(adr)

Spec == Init /\ [][Next]_vars

------------------------------------------------------------------------------
FullLevel(k) == Level(k).assoc = "FULL_ASSOC"

\* Types: no set outgrows its size or has a line twice, and no order list is
\* longer than a set.
TypeOK ==
    /\ config \in Configs
    /\ \A k \in Levels : \A i \in DOMAIN table[k] :
        /\ table[k][i] \subseteq CacheLine(Tags, BOOLEAN)
        /\ Cardinality(table[k][i]) <= Level(k).setSize
        /\ \A line \in table[k][i] : Index(k, line.tag) = i /\ ~line.evacuated
        /\ \A one, other \in table[k][i] : one.tag = other.tag => one = other
        /\ order[k][i] \in Seq(Tags)
        /\ Len(order[k][i]) <= Level(k).setSize
    /\ Len(history) <= HistoryMax
    /\ outcome \in {"running", "exception", "undefined"}
    /\ mem \in [Tags -> BOOLEAN]

\* A line that is not marked as dirty holds what a load from the levels below
\* would get, whatever was prefetched: its replacement without a store loses
\* nothing.  A write-through level over a set-associative one is left out: it
\* marks the line clean although the store below may have been lost.
CleanLinesMatch ==
    \A k \in Levels :
        Level(k).writePolicy = WRITE_BACK \/ (\A j \in Levels : j > k => FullLevel(j))
        =>  \A i \in DOMAIN table[k] : \A line \in table[k][i] :
                line.invalid \/ line.data = DataFrom(Now, k + 1, line.tag)

\* A store is in the cache when store returns ("store in cache", "write over
\* the loaded entry", cache.hpp:97-99), and below it when its line is not: as
\* long as the program runs, a load gets what was last stored.
NoStoreIsLost ==
    outcome = "running" => \A dtag \in Tags : DataFrom(Now, 1, dtag)

\* Fully associative caches, which have a tag once in their order list, lose
\* no store, at one level or at two.
FullKeepsStores == (\A k \in Levels : FullLevel(k)) => NoStoreIsLost

\* The order list of a fully associative cache names each line of the table
\* once, as long as nothing is prefetched: getEntry then names a line that can
\* be evacuated.  So does the list of a second level, which the loads and
\* write-backs of the first one use.
OrderMatchesTable ==
    ~config.prefetchTrigger /\ outcome = "running" =>
        \A k \in {j \in Levels : FullLevel(j)} :
            /\ ToSet(order[k][0]) = {line.tag : line \in table[k][0]}
            /\ IsInjective(order[k][0])

\* Without prefetching no request ends in an exception or worse: when a set is
\* full, its order list is.
NeverFails == ~config.prefetchTrigger => outcome = "running"

==============================================================================
