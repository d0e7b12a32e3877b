------------------------------- MODULE L1ICache -------------------------------
(***************************************************************************)
(* class L1ICache over the same L2Cache.  Its stride prefetcher keeps its  *)
(* own state, which load does not touch; the cache only passes what that   *)
(* prefetcher proposes to the L1 data cache.                               *)
(*                                                                         *)
(* Nothing keeps this cache coherent with stores, and the simulator has no *)
(* use for what its lines hold.  They hold InitData here, so that writing  *)
(* one back would show.                                                    *)
(***************************************************************************)
EXTENDS L1DCache

NewL1ICache(config) ==
    [config |-> config,
     table |-> EmptyTable(config),
     loadAccess |-> 0,
     loadHit |-> 0]

InL1I(s, ip) == IsCached(s.l1i.config, s.l1i.table, ip)

L1ILoadResult(s, ip) ==
    IF InL1I(s, ip) THEN s.l1i.config.cacheLevel ELSE L2LoadResult(s, ip, FALSE)

\* L1ICache::handleWritePolicy
L1IHandleWritePolicy(s, out) ==
    LET settled == [s EXCEPT !.l1i.table = Settled(s.l1i.config, @, out)]
    IN  IF Flushed(s.l1i.config, out) = {} THEN settled
        ELSE L2Store(settled, TheLine(out).tag, TheLine(out).data)

\* L1ICache::load
L1ILoad(s, ip) ==
    LET hit   == InL1I(s, ip)
        read  == Read(s.l1i.config, s.l1i.table, ip)
        write == Write(s.l1i.config, read, ip, InitData)
        below == IF hit THEN s ELSE L2Load(s, ip, FALSE)
        counted ==
            [s.l1i EXCEPT
                !.table      = IF hit THEN read ELSE write.table,
                !.loadAccess = Count(TRUE, @),
                !.loadHit    = Count(hit, @)]
    IN  L1IHandleWritePolicy([below EXCEPT !.l1i = counted],
                             IF hit THEN {} ELSE write.line)

==============================================================================
