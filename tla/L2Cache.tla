------------------------------- MODULE L2Cache -------------------------------
(***************************************************************************)
(* class L2Cache over MainMemMock.  The operators take and return the      *)
(* state of all the caches of one thread, a record with the fields l1d,    *)
(* l1i, l2 and mm, because one request of the processor runs through       *)
(* several of them before it returns; those here change l2 and mm.         *)
(*                                                                         *)
(* The stream prefetcher of the class is left out: runStreamPrefetcher has *)
(* no caller and nothing is ever added to readRequests.                    *)
(***************************************************************************)
EXTENDS WritePolicyHandler, MainMemMock

NewL2Cache(config) ==
    [config |-> config,
     table |-> EmptyTable(config),
     cleanLinesEvacuatedByDemand |-> 0,
     dirtyLinesEvacuatedByDemand |-> 0,
     cleanLinesEvacuatedByPrefetcher |-> 0,
     dirtyLinesEvacuatedByPrefetcher |-> 0,
     loadRequest |-> 0,
     loadRequestHit |-> 0,
     prefetchRequest |-> 0,
     prefetchRequestMiss |-> 0]

InL2(s, adr) == IsCached(s.l2.config, s.l2.table, adr)

\* What the line of adr holds in a table that has it.
DataIn(c, table, adr) ==
    LET set == SetOf(c, table, adr) IN set[EntryOf(set, DataTag(c, adr))].data

\* What a load of adr from the L2 cache brings, and what it returns.
L2Data(s, adr) ==
    IF InL2(s, adr) THEN DataIn(s.l2.config, s.l2.table, adr)
                    ELSE s.mm.data[DataTag(s.l2.config, adr)]

L2LoadResult(s, adr, prefetch) ==
    IF InL2(s, adr) THEN s.l2.config.cacheLevel ELSE MemLoadResult(prefetch)

\* Mutant: only evictions by demand are looked at.
MutCountL2Eviction(l2, out, prefetch) ==
    LET dirty == \E line \in out : line.evacuated /\ line.invalid
        clean == \E line \in out : line.evacuated /\ ~line.invalid
    IN  [l2 EXCEPT
            !.dirtyLinesEvacuatedByDemand     = Count(dirty /\ ~prefetch, @),
            !.cleanLinesEvacuatedByPrefetcher = Count(clean /\ prefetch, @),
            !.cleanLinesEvacuatedByDemand     = Count(clean /\ ~prefetch, @)]

\* The four eviction counters, for the line write returned.
CountL2Eviction(l2, out, prefetch) ==
    LET dirty == \E line \in out : line.evacuated /\ line.invalid
        clean == \E line \in out : line.evacuated /\ ~line.invalid
    IN  [l2 EXCEPT
            !.dirtyLinesEvacuatedByPrefetcher = Count(dirty /\ prefetch, @),
            !.dirtyLinesEvacuatedByDemand     = Count(dirty /\ ~prefetch, @),
            !.cleanLinesEvacuatedByPrefetcher = Count(clean /\ prefetch, @),
            !.cleanLinesEvacuatedByDemand     = Count(clean /\ ~prefetch, @)]

\* L2Cache::handleWritePolicy
L2HandleWritePolicy(s, out) ==
    [s EXCEPT
        !.l2.table = Settled(s.l2.config, @, out),
        !.mm = IF Flushed(s.l2.config, out) = {} THEN @
               ELSE MemStore(@, TheLine(out).tag, TheLine(out).data)]

\* Mutant: a request is counted only when it misses.
MutCountL2Request(l2, hit, prefetch) ==
    [l2 EXCEPT !.loadRequest         = Count(~hit /\ ~prefetch, @),
               !.prefetchRequest     = Count(~hit /\ prefetch, @),
               !.prefetchRequestMiss = Count(~hit /\ prefetch, @)]

\* The four request counters
CountL2Request(l2, hit, prefetch) ==
    [l2 EXCEPT !.loadRequest         = Count(~prefetch, @),
               !.loadRequestHit      = Count(hit /\ ~prefetch, @),
               !.prefetchRequest     = Count(prefetch, @),
               !.prefetchRequestMiss = Count(~hit /\ prefetch, @)]

\* L2Cache::load
L2Load(s, adr, prefetch) ==
    LET hit   == InL2(s, adr)
        read  == Read(s.l2.config, s.l2.table, adr)
        write == Write(s.l2.config, read, adr, L2Data(s, adr))
        out   == IF hit THEN {} ELSE write.line
        counted ==
            [CountL2Request(s.l2, hit, prefetch) EXCEPT
                !.table = IF hit THEN read ELSE write.table]
    IN  L2HandleWritePolicy(
            [s EXCEPT !.l2 = CountL2Eviction(counted, out, prefetch),
                      !.mm = IF hit THEN @ ELSE MemLoad(@, prefetch)],
            out)

\* Mutant: a store that misses does not load the line first.
MutL2Fetch(mm) == mm

\* Mutant: the load of a store that misses passes for a prefetch.
MutL2FetchAsPrefetch(mm) == MemLoad(mm, TRUE)

\* What a store that misses asks of the memory.
L2Fetch(mm) == MemLoad(mm, FALSE)

\* L2Cache::store of a line that now holds d.  After a miss the line is
\* written twice, and only what the first write returned is handled.
L2Store(s, adr, d) ==
    LET hit   == InL2(s, adr)
        read  == Read(s.l2.config, s.l2.table, adr)
        alloc == Write(s.l2.config, read, adr, L2Data(s, adr))
        write == Write(s.l2.config, IF hit THEN read ELSE alloc.table, adr, d)
        out   == IF hit THEN write.line ELSE alloc.line
    IN  L2HandleWritePolicy(
            [s EXCEPT !.l2 = CountL2Eviction([@ EXCEPT !.table = write.table],
                                             out, FALSE),
                      !.mm = IF hit THEN @ ELSE L2Fetch(@)],
            out)

==============================================================================
