----------------------------- MODULE MainMemMock -----------------------------
(***************************************************************************)
(* class MainMemMock: the last level.  It counts the requests that reach   *)
(* it and never hits.  The field data is auxiliary (see CacheDefs): what   *)
(* each line of memory would hold.                                         *)
(***************************************************************************)
EXTENDS CacheDefs

CONSTANTS CounterMax,  \* the largest value of a size_t counter
          InitData     \* what every line of memory holds at first (auxiliary)

ASSUME CounterMaxAssumption == CounterMax \in Nat

\* A counter of the code, incremented when the condition holds.
Count(condition, n) == IF condition THEN Increment(n, CounterMax) ELSE n

NewMainMem(dtags) ==
    [data |-> [dtag \in dtags |-> InitData],
     loadCount |-> 0,
     storeCount |-> 0,
     prefetchCount |-> 0]

\* MainMemMock::load and what it returns
MemLoad(mm, prefetch) ==
    [mm EXCEPT !.prefetchCount = Count(prefetch, @),
               !.loadCount     = Count(~prefetch, @)]

MemLoadResult(prefetch) == IF prefetch THEN PREFETCH_MISS ELSE MISS

\* MainMemMock::store of a line that holds d
MemStore(mm, dtag, d) ==
    [mm EXCEPT !.storeCount = Count(TRUE, @), !.data[dtag] = d]

==============================================================================
