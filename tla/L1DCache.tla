------------------------------- MODULE L1DCache -------------------------------
(***************************************************************************)
(* class L1DCache over L2Cache.                                            *)
(*                                                                         *)
(* load and store read the flags of the line that handleWritePolicy has    *)
(* just deleted, to decide whether to count it in modifiedLinesEvacuated   *)
(* (L1DCache.hpp:50, :82).  What freed memory shows is not determined by   *)
(* the program: the operators take it as the parameter stale.              *)
(***************************************************************************)
EXTENDS L2Cache

CONSTANT HistoryMax  \* AccessList::maxSize of recentlyLoadedLines

ASSUME HistoryMaxAssumption == HistoryMax \in Nat \ {0}

NewL1DCache(config) ==
    [config |-> config,
     table |-> EmptyTable(config),
     recentlyLoadedLines |-> << >>,
     loadAccess |-> 0,
     loadHit |-> 0,
     storeAccess |-> 0,
     storeHit |-> 0,
     prefetchAccess |-> 0,
     prefetchHit |-> 0,
     loadedCachelines |-> 0,
     modifiedLinesEvacuated |-> 0,
     writebacksToL2 |-> 0]

InL1D(s, adr) == IsCached(s.l1d.config, s.l1d.table, adr)

\* What a load of adr brings to the processor, and what it returns.
L1DData(s, adr) ==
    IF InL1D(s, adr) THEN DataIn(s.l1d.config, s.l1d.table, adr)
                     ELSE L2Data(s, adr)

L1DLoadResult(s, adr, prefetch) ==
    IF InL1D(s, adr) THEN s.l1d.config.cacheLevel
                     ELSE L2LoadResult(s, adr, prefetch)

\* L1DCache::handleWritePolicy
L1DHandleWritePolicy(s, out) ==
    LET stored == Flushed(s.l1d.config, out) # {}
        settled ==
            [s EXCEPT
                !.l1d.table = Settled(s.l1d.config, @, out),
                !.l1d.writebacksToL2 =
                    Count(stored /\ s.l1d.config.writePolicy = WRITE_BACK, @)]
    IN  IF stored THEN L2Store(settled, TheLine(out).tag, TheLine(out).data)
                  ELSE settled

\* The test of the flags of what write returned.  An evacuated line is gone
\* by then; a line still in the table is not marked as evacuated.
CountModified(s, out, stale) ==
    [s EXCEPT !.l1d.modifiedLinesEvacuated =
        Count(stale /\ \E line \in out : line.evacuated, @)]

\* L1DCache::load
L1DLoad(s, adr, prefetch, stale) ==
    LET hit   == InL1D(s, adr)
        read  == Read(s.l1d.config, s.l1d.table, adr)
        write == Write(s.l1d.config, read, adr, L2Data(s, adr))
        out   == IF hit THEN {} ELSE write.line
        below == IF hit THEN s ELSE L2Load(s, adr, prefetch)
        counted ==
            [s.l1d EXCEPT
                !.table            = IF hit THEN read ELSE write.table,
                !.recentlyLoadedLines =
                    IF hit \/ prefetch THEN @ ELSE AddAccess(@, HistoryMax, adr),
                !.prefetchAccess   = Count(prefetch, @),
                !.loadAccess       = Count(~prefetch, @),
                !.prefetchHit      = Count(hit /\ prefetch, @),
                !.loadHit          = Count(hit /\ ~prefetch, @),
                !.loadedCachelines = Count(~hit, @)]
    IN  CountModified(
            L1DHandleWritePolicy([below EXCEPT !.l1d = counted], out), out, stale)

\* L1DCache::store of d.  A miss loads the line from the next level, then
\* writes it twice; only what the first write returned is handled.
L1DStore(s, adr, d, stale) ==
    LET hit   == InL1D(s, adr)
        read  == Read(s.l1d.config, s.l1d.table, adr)
        alloc == Write(s.l1d.config, read, adr, L2Data(s, adr))
        write == Write(s.l1d.config, IF hit THEN read ELSE alloc.table, adr, d)
        out   == IF hit THEN write.line ELSE alloc.line
        below == IF hit THEN s ELSE L2Load(s, adr, FALSE)
        counted ==
            [s.l1d EXCEPT
                !.table            = write.table,
                !.storeAccess      = Count(TRUE, @),
                !.storeHit         = Count(hit, @),
                !.loadedCachelines = Count(~hit, @)]
    IN  CountModified(
            L1DHandleWritePolicy([below EXCEPT !.l1d = counted], out), out, stale)

==============================================================================
