---------------------------- MODULE CacheHierarchy ----------------------------
(***************************************************************************)
(* The caches of one thread of the analysed program, as memtrace.cpp sets  *)
(* them up: an L1 data cache and an L1 instruction cache over one L2       *)
(* cache, over the memory mock.  A thread's caches are its own             *)
(* (memtrace.cpp:33-43), so each call of a cache is one step.              *)
(***************************************************************************)
EXTENDS L1ICache, FiniteSets

CONSTANTS Hierarchies,   \* the configurations of the three caches
          LineSize,      \* cacheLineSize of all of them
          Addresses,     \* the addresses the program loads and stores
          Instructions,  \* the addresses of its instructions
          Data,          \* what a line can hold (auxiliary)
          FreedFlags     \* what the flags of a deleted line may show: is it a
                         \* dirty evacuated line?

ASSUME HierarchiesAssumption ==
    \A configs \in Hierarchies :
        /\ configs = [l1d |-> configs.l1d, l1i |-> configs.l1i, l2 |-> configs.l2]
        /\ \A name \in {"l1d", "l1i", "l2"} :
            /\ IsCacheConfig(configs[name])
            /\ configs[name].cacheLevel = IF name = "l2" THEN 2 ELSE 1
            /\ configs[name].cacheLineSize = LineSize

ASSUME AddressesAssumption == Addresses \cup Instructions \subseteq Nat

ASSUME InitDataAssumption == InitData \in Data

ASSUME FreedFlagsAssumption == FreedFlags \subseteq BOOLEAN

VARIABLES l1d, l1i, l2, mm,  \* the caches and the memory mock
          result,            \* the last request and what it returned
          passed             \* auxiliary: what the last request, if a load,
                             \* observed, or what it, if a store, stored

vars == <<l1d, l1i, l2, mm, result, passed>>

Tag(adr) == adr - (adr % LineSize)

LineTags == {Tag(adr) : adr \in Addresses \cup Instructions}

Lines == CacheLine(LineTags, Data)

Requests == {"load", "store", "fetch", "prefetch"}

Caches == [l1d |-> l1d, l1i |-> l1i, l2 |-> l2, mm |-> mm]

\* The caches are left in the state s.
Become(s) == l1d' = s.l1d /\ l1i' = s.l1i /\ l2' = s.l2 /\ mm' = s.mm

Returns(request, adr, res) ==
    result' = {[request |-> request, line |-> Tag(adr), res |-> res]}

Init ==
    /\ \E configs \in Hierarchies :
        /\ l1d = NewL1DCache(configs.l1d)
        /\ l1i = NewL1ICache(configs.l1i)
        /\ l2 = NewL2Cache(configs.l2)
    /\ mm = NewMainMem(LineTags)
    /\ result = {}
    /\ passed = {}

\* recordMemRef of a load: l1dCache->load(addr)
Load(adr, stale) ==
    /\ Become(L1DLoad(Caches, adr, FALSE, stale))
    /\ Returns("load", adr, L1DLoadResult(Caches, adr, FALSE))
    /\ passed' = {L1DData(Caches, adr)}

\* recordMemRef of a store: l1dCache->store(addr)
Store(adr, d, stale) ==
    /\ Become(L1DStore(Caches, adr, d, stale))
    /\ Returns("store", adr, L1DLoadResult(Caches, adr, FALSE))
    /\ passed' = {d}

\* recordInstruction: l1iCache->load(ip)
Fetch(ip) ==
    /\ Become(L1ILoad(Caches, ip))
    /\ Returns("fetch", ip, L1ILoadResult(Caches, ip))
    /\ passed' = {}

\* L1ICache::runPrefetcher, when its stride prefetcher proposes toFetch
RunPrefetcher(toFetch, stale) ==
    /\ Become(L1DLoad(Caches, toFetch, TRUE, stale))
    /\ Returns("prefetch", toFetch, L1DLoadResult(Caches, toFetch, TRUE))
    /\ passed' = {}

Next ==
    \/ \E adr \in Addresses, stale \in FreedFlags :
        \/ Load(adr, stale)
        \/ \E d \in Data : Store(adr, d, stale)
        \/ RunPrefetcher(adr, stale)
    \/ \E ip \in Instructions : Fetch(ip)

Spec == Init /\ [][Next]_vars

------------------------------------------------------------------------------
(* Types *)

Counter == 0..CounterMax

\* A table of a cache: sets of at most setSize lines, each line in the set of
\* its address, once, and none of them evacuated.
IsTable(c, table) ==
    /\ table \in [0..(c.numberOfSets - 1) -> Seq(Lines)]
    /\ \A ltag \in DOMAIN table :
        /\ Len(table[ltag]) <= c.setSize
        /\ \A i \in DOMAIN table[ltag] :
            /\ LocTag(c, table[ltag][i].tag) = ltag
            /\ ~table[ltag][i].evacuated
            /\ \A j \in DOMAIN table[ltag] :
                table[ltag][i].tag = table[ltag][j].tag => i = j

\* Every table is well formed, every counter in its range.
TypeOK ==
    /\ [l1d |-> l1d.config, l1i |-> l1i.config, l2 |-> l2.config] \in Hierarchies
    /\ IsTable(l1d.config, l1d.table)
    /\ IsTable(l1i.config, l1i.table)
    /\ IsTable(l2.config, l2.table)
    /\ \A field \in DOMAIN l1d \ {"config", "table", "recentlyLoadedLines"} :
            l1d[field] \in Counter
    /\ l1d.recentlyLoadedLines \in Seq(Addresses)
    /\ Len(l1d.recentlyLoadedLines) <= HistoryMax
    /\ \A field \in DOMAIN l1i \ {"config", "table"} : l1i[field] \in Counter
    /\ \A field \in DOMAIN l2 \ {"config", "table"} : l2[field] \in Counter
    /\ mm \in [data : [LineTags -> Data], loadCount : Counter,
               storeCount : Counter, prefetchCount : Counter]
    /\ result \subseteq [request : Requests, line : LineTags,
                         res : CacheOperationResult]
    /\ passed \subseteq Data

------------------------------------------------------------------------------
(* The hierarchy is a memory *)

\* The lines of a table with a given tag.
Holding(table, dtag) == {line \in LinesOf(table) : line.tag = dtag}

\* What a line holds for the level above L2, and for the program.
BelowL1D(dtag) ==
    LET held == Holding(l2.table, dtag)
    IN  IF held # {} THEN TheLine(held).data ELSE mm.data[dtag]

Contents ==
    [dtag \in LineTags |->
        LET held == Holding(l1d.table, dtag)
        IN  IF held # {} THEN TheLine(held).data ELSE BelowL1D(dtag)]

LastRequest == {<<r.request, r.line>> : r \in result}

Memory == INSTANCE AbstractMemory
            WITH mem <- Contents, request <- LastRequest, passed <- passed

\* The hierarchy implements a memory: a request to store leaves its data in
\* its line and every other line alone, a request to load returns what its
\* line holds, and no request but a store changes what any line holds for the
\* program, in whichever cache it is and whatever its flags are, however many
\* lines it evicts, writes back, prefetches or fetches.  This is what read,
\* write and the three handleWritePolicy methods have to agree on.
ImplementsMemory == Memory!Spec

\* A line that a cache does not mark as dirty holds what the level below
\* holds: deleting it without a store (handleWritePolicy) loses nothing.
CleanLinesMatch ==
    /\ \A line \in LinesOf(l1d.table) :
            line.invalid \/ line.data = BelowL1D(line.tag)
    /\ \A line \in LinesOf(l2.table) :
            line.invalid \/ line.data = mm.data[line.tag]

\* Under WRITE_THROUGH a store that hits in the L1 data cache is in the next
\* level by the time it returns.
StoreHitsAreWrittenThrough ==
    \A r \in result :
        /\ l1d.config.writePolicy = WRITE_THROUGH
        /\ r.request = "store"
        /\ r.res = L1HIT
        => BelowL1D(r.line) = Contents[r.line]

------------------------------------------------------------------------------
(* What the counters and results say *)

Modulo(n) == n % (CounterMax + 1)

L1DMisses == (l1d.loadAccess - l1d.loadHit) + (l1d.storeAccess - l1d.storeHit)

L2Evictions ==
    l2.cleanLinesEvacuatedByDemand + l2.dirtyLinesEvacuatedByDemand
    + l2.cleanLinesEvacuatedByPrefetcher + l2.dirtyLinesEvacuatedByPrefetcher

\* Every line the L2 cache asked of memory is in it or was counted by one of
\* the four eviction counters, once.  Counters wrap, hence the modulus.
MemoryTraffic ==
    Modulo(mm.loadCount + mm.prefetchCount)
        = Modulo(Cardinality(TagsOf(l2.table)) + L2Evictions)

\* With a write-back L2 cache, memory sees one store for each line the
\* counters say was evacuated dirty.
MemoryWritebacks ==
    l2.config.writePolicy = WRITE_BACK =>
        mm.storeCount = Modulo(l2.dirtyLinesEvacuatedByDemand
                               + l2.dirtyLinesEvacuatedByPrefetcher)

\* The requests L2 counts are the misses the L1 counters print
\* (L1DCache.hpp:92-96, L1ICache.hpp:62): each miss is one load request, each
\* prefetch miss one prefetch request, and a write-back is neither.
L2Requests ==
    /\ l2.loadRequest = Modulo(L1DMisses + (l1i.loadAccess - l1i.loadHit))
    /\ l2.prefetchRequest = Modulo(l1d.prefetchAccess - l1d.prefetchHit)

\* Every prefetch of memory is an L2 prefetch miss, and the demand loads of
\* memory beyond the L2 load misses are the lines L2 had to fetch because a
\* line written back to it was no longer there: at most one per write-back.
\* Those fetches are made on behalf of no miss that recordMemRef reports.
\* (For counters that did not wrap.)
WriteAllocations ==
    /\ mm.prefetchCount = l2.prefetchRequestMiss
    /\ l1d.config.writePolicy = WRITE_BACK =>
        mm.loadCount - (l2.loadRequest - l2.loadRequestHit)
            \in 0..l1d.writebacksToL2

\* What perf_reg:10 says of modified lines evicted from L1D: under WRITE_BACK
\* each of them is written back, so the two counters printed next to each
\* other agree.
ModifiedEvictionsCounted ==
    l1d.config.writePolicy = WRITE_BACK =>
        l1d.modifiedLinesEvacuated = l1d.writebacksToL2

==============================================================================
