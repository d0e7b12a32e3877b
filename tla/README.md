# A TLA+ model of cache_sim

cache_sim is a Pin tool. It runs a program, sends every instruction and every
memory reference through simulated caches, and hands the references that miss,
with the computation cycles spent between them, to a `MissHandler`. This
directory holds TLA+ modules translated from its source, TLC configurations that
check them, and proofs that TLAPS checks. Line numbers are those of the
repository's files.

## 1. The system

### Components

| component | state | operations | what makes it correct |
|---|---|---|---|
| `SetAccessor` (src/set_accessor.cpp) | the cache table: one linked list of lines per set, least recently used first | `read`, `write` | a set never outgrows its size, no line is in it twice, the order of the list is the order of use, the victim is the least recently used line, no dirty line disappears unseen |
| `L1DCache` (src/L1DCache.hpp) | a table, nine counters, a history of loaded lines | `load`, `store`, `handleWritePolicy`, `runPrefetcher` (no caller) | with L2 and memory: what was stored is what is loaded; counters agree with those of L2 |
| `L1ICache` (src/L1ICache.hpp) | a table, two counters, a stride prefetcher | `load`, `handleWritePolicy`, `runPrefetcher` | its misses are L2's load requests |
| `L2Cache` (src/L2Cache.hpp) | a table, eight counters, an access history nobody fills | `load`, `store`, `handleWritePolicy`; `runStreamPrefetcher`, `spatialPrefetcher` (no callers) | as L1D; each eviction is counted once, under the right name |
| `MainMemMock` (src/main_mem_mock.hpp) | three counters | `load`, `store` | its counters are the traffic of L2 |
| `StridePrefetcher` (src/stride_prefetcher.cpp) | a bounded table: instruction, last operand, stride, how often | `prefetch`, `deleteOneEntry` | proposes after steady moves, and only then; always makes room |
| `StreamPrefetcher` (src/stream_prefetcher.cpp), `AccessList` | a bounded linked list of the last accesses | `ascendingPrefetch`, `descendingPrefetch`, `add` | finds the streams that end in the last access, and no others; an ascending one proposes a new line of its page |
| Pin tool (src/memtrace.cpp) | `cycles`, thread-local cache pointers, `MissHandler` | `Instruction`, `recordInstruction`, `recordMemRef` | no cycle is lost or sent twice; misses arrive paired; every thread is traced |
| Pin tool, version 1 (v1/memtrace.cpp) | `cycles`, a mutex, one set of caches | `Instruction`, `RecordMemRef` | the same, and the mutex is given back |
| `InstrCostTable` (instr_cost.hpp) | costs read from a file, or default ones | the constructor, two `lookup`s | the cost that counts is the one the file lists last |
| utlist (src/uthash/utlist.h) | doubly linked lists, the `prev` of the first node being the last one | `DL_APPEND`, `DL_DELETE`, `DL_FOREACH` | no pointer to a deleted node, no node lost, the same order both ways |
| `MissHandler` (miss_handler.hpp) | none: empty methods | `sendComp`, `sendRW` | receives one `sendComp`, then one `sendRW`, for each miss |
| Caches of version 1 (v1/cache.hpp, associativity.hpp, replacement_policy.hpp) | a table, and an order list kept apart from it | `load`, `store`, `write`, `update`, `getEntry` | no store is lost; the order list names the lines of the table |
| Prefetchers of version 1 (v1/prefetcher.hpp) | stride table | `ascendingAccess` and others without a caller | proposes the next line of a stream of its page |
| Drafts (memtrace.cpp.main, .tmp, .thread_local), the rest of vendored uthash, tests, sample programs | | | |

### How they interact

Everything above memory is called synchronously, from the top:

    recordInstruction -> L1ICache.load  -+
    recordMemRef      -> L1DCache.load   +-> L2Cache.load / store -> MainMemMock
                         L1DCache.store -+
    L1ICache.runPrefetcher -> StridePrefetcher.prefetch
                           -> L1DCache.load(prefetch)

A cache that misses loads from the next level, writes the line into its own
table, and passes what `write` returned (a victim, or on a store hit the line
itself) to `handleWritePolicy`, which may store it in the next level and deletes
it if it was evicted. So one load of L1D can run a load of L2, an eviction from
L2, a store of memory, then a store of L2 that misses, loads from memory and
evicts again, in that order.

Pin calls `Instruction` once for an instruction, before it first runs, under a
lock of its own, and the inserted routines each time it runs, concurrently in all
threads. The threads share `cycles`, the `MissHandler`, the memory mock and, in
version 1, the caches and a mutex.

### What is hard

- *Long sequences.* Whether a store survives depends on flags set, cleared and
  read in three classes, many evictions later.
- *Order as state.* LRU is nothing but the order of a linked list, whose nodes are
  relinked at each hit and whose size is counted apart from it.
- *Reentrant evictions* from the write-back of the victim of the L1D.
- *Use after free.* `load` and `store` of L1D read the flags of a victim that
  `handleWritePolicy` has deleted.
- *Interleaving.* `cycles` is a plain variable, read, written, sent and reset in
  separate steps by several threads.
- *Limits*: a full set, a full prediction table, a counter compared with `==`,
  differences of addresses in an `int`.

`PROJECT.json` lists each of these at its line, with the properties that cover it.

## 2. Modules

    CacheDefs                         lines, flags, results, CacheConfig, AccessList
      SetAccessor                     read, write, tags           (operators)
        LruAccessor                   a table under any calls     (state machine)
          LinkedAccessor              the same on linked lists    (state machine)
        WritePolicyHandler            decisions of handleWritePolicy
          L2Cache   (and MainMemMock)
            L1DCache
              L1ICache
                CacheHierarchy        the caches of a thread      (state machine)
                  AbstractMemory      what they implement
          V1Cache                     v1/cache.hpp                (state machine)
      InstrCostTable                  costs and their file        (operators)
        TraceCycles                   cycles and MissHandler, shared by
          MemTrace                    src/memtrace.cpp            (state machine)
          V1MemTrace                  v1/memtrace.cpp             (state machine)
      StreamPrefetcher                the walk over an AccessList (state machine)
    LinkedList                        utlist, under LinkedAccessor and
                                      StreamPrefetcher            (operators)
    StridePrefetcher                  both versions of the class  (state machine)

    SetAccessor_proofs                  lemmas on Read and Write
      LinkedLists_proofs                a table under any calls, linked lists,
                                        the stream prefetcher
      CacheHierarchy_proofs             the caches of a thread, their counters
      V1Cache_proofs                    the caches of version 1
    TraceCycles_proofs                  lemmas on cycles, cost files, folds
      MemTrace_proofs, V1MemTrace_proofs
    StridePrefetcher_proofs

    MC*                                 instances for TLC

**CacheDefs, SetAccessor.** A line is a record of its tag and its two flags. A
table maps a set index to the sequence of the set's lines; `DL_DELETE` and
`DL_APPEND` of an entry are `RemoveAt` and `Append`. `Read` and `Write` are the
two methods, as functions from a table to a table and to the line the method
returns, a set of at most one line because a method may return `nullptr`. The bit
masks of the code are `\div` and `%`. With a number of sets that is not a power
of two the location mask would reach beyond the table; no configuration of the
repository has one, and `IsCacheConfig` assumes it.

**LruAccessor.** Actions `ReadHit`, `ReadMiss`, `WriteLine`. `clock` and
`lastUse` are auxiliary: they date each use, which the code never does, so that
the properties can say what the order of the list is worth.

**LinkedList, LinkedAccessor.** A linked list is a head and the nodes in memory, a
function from allocated nodes to `prev`, `next` and a value, so that TLC stops with
an error where a deleted node, or null, is followed. `DL_APPEND` and `DL_DELETE`
are the assignments of the macros. Memory is finite (`NodesAssumption`): when it is
full no node is new, as when `new` throws. In LinkedAccessor the variables of the code are
`nodes`, `head` and `size`, with one action per path: `LinkedReadHit`,
`LinkedReadMiss`, `LinkedWriteHit`, `LinkedAdd`, `LinkedReplace`. `table` is what the
lists hold. The module extends LruAccessor, whose properties apply to `table`, and
whose specification it implements (`ImplementsLru`, which is proved): this is why all
other modules may work on sequences, and why what is proved of LruAccessor is true of
the lists.

**L2Cache, L1DCache, L1ICache, MainMemMock, WritePolicyHandler.** One operator
per method, from the state of all caches of a thread to the next one: a request
runs through several caches before it returns, so it is one step and the
methods compose as calls do. Every counter is there, a `size_t` that wraps at
`CounterMax`. `handleWritePolicy` has the same decisions in the three classes;
they are in WritePolicyHandler. Each cache has its configuration in its state, as in
the code, so that one run compares write policies. What the deleted victim's flags show is a
parameter, `stale`.

**CacheHierarchy.** Actions `Load`, `Store` (recordMemRef), `Fetch`
(recordInstruction) and `RunPrefetcher`. The caches of a thread are its own, so
there is nothing to interleave. `runPrefetcher` may load any address here,
because it depends on a stride prefetcher that is a component of its own; its
call in recordMemRef is commented out at present, and what holds with it holds
without. The code keeps no contents of lines. The field `data` of a line is
auxiliary: what the line would hold. Nothing but properties depends on it.

**AbstractMemory** is what a hierarchy promises: a map from lines to contents,
`Load`, `Store`, and `Other` for a fetch or a prefetch, which changes nothing the
program can see. Each step names its request, and the datum that was loaded or
stored. CacheHierarchy implements it under the mapping `mem <- Contents`, where a
line's content is what L1D holds, or else L2, or else memory, and
`request <- LastRequest`, the kind and the line of the request in `result`; so a store
can only be a `Store` of its line and its datum, and a load no more than a `Load`.

**StridePrefetcher.** One action per path of `prefetch`: `AddEntry`,
`ReplaceEntry` and `DeleteEnd` for an instruction without entry (room, an entry
deleted, none to delete), `SameLine`, `SteadyStride`, `SameStride`,
`OtherStride`. Widths of `Address` and `int` are parameters, conversion is
modelled. The order of an `unordered_map` is any order, so `deleteOneEntry` may
take any entry of occurence 0. `version` is that of the class: version 1 differs in
`deleteOneEntry`, which uses an erased iterator or `end()` whenever the table is full
(`V1DeleteOneEntry`). `defined` becomes FALSE where the behaviour is
undefined, and the model stops. `moves` and `asked` are auxiliary.

**StreamPrefetcher.** `Add` is `AccessList::add`; `RunL1DPrefetcher` and
`RunL2Prefetcher` are the methods with which the caches would run the prefetcher
(nothing calls them). The walk goes back by `prev` over the nodes of LinkedList, so
that it could go round as in the code; `history` is auxiliary, the accesses as a
sequence, over which the properties define what a stream is. What the prefetcher
makes a cache load is kept in `loads`. Its specification is `StreamSpec`.
`SpaceAssumption` says that a page, a line and the longest stream together fit the
address space, which is 2^64 in the code: else a stream could go round it.

**InstrCostTable.** A file is a sequence of lines, each a name and a cost, which may
be missing or no number. `TableFromFile` folds the loop's body over them: a line without a
number takes what the variable `cost` has from the line before, or the junk it
began with; something that is no number makes it 0; names that are no category are
entered as INVALID. The object is a global, so that its two other costs are 0
until assigned. A missing file gives the default table. `costs[category] = cost` of
a `std::map` is `AssignCost`, which extends the domain of a function by the category.

**TraceCycles, MemTrace, V1MemTrace.** The threads run programs of a few
instructions. `cycles += cost` is two steps, read and write; `sendComp`, the reset
and `sendRW` are three more. Only one thread at a time is in `Instruction`: Pin
guarantees that. What a cache answers is free here. In MemTrace the thread-local
pointers are set in the main thread only, as `initializeThreadLocals` does; any
other thread dereferences null at its first instruction. `raced` is auxiliary: it
becomes TRUE when a thread is in `Instruction` while another one is between a read of
`cycles` and what `recordMemRef` does with it. In V1MemTrace the mutex
is taken and given back where the code does, and `Throw` is the exception that may
leave `l1cache.load`, after which the thread does nothing more and holds the mutex. `tid` is the thread Pin called
`Instruction` in, which is what `sendRW` is given. `charged` is an auxiliary sum.
`costTable` is built from a file that `Init` chooses.

**V1Cache.** A `Cache` of version 1 over memory, or over another one as in
`memtrace.cpp`, each with `FullAssociative` or `SetAssociative` and its
`LeastRecentlyUsed`, and the prefetcher the first level triggers. `CacheLoad`
and `CacheStore` are the operations of the first level, `LoadLast` and `StoreLast`
those of the second one; the parts they share take the level as a parameter.
Actions `Load` and `Store`; each is one step, since nothing runs beside a cache
whose callers hold a mutex. The table is a set of lines for each set, because
its order means nothing: the victim is what `getEntry` reads off `order`, a list
of tags that only `update` changes. `config`, which never changes, ranges over all
configurations, so that one run compares them. `outcome` says how the program
ended: by an exception nobody catches, or by using `end()` where
`FullAssociative` does not look whether it found the named line. `data` is one bit
here: whether a line, or memory, holds what was last stored.

Definitions whose name begins with `Mut` are not used: each states a plausible
mistake in the operator it stands before, and the property named for it in
`PROJECT.json` fails with it.

## 3. What the runs check

| run | instance | shows |
|---|---|---|
| `linked_accessor` | two sets of three lines on linked lists, four lines competing for one set, two addresses in one line, 6 uses | `ListsAreSound`: every set is a proper list, as long as its size says, with all nodes in memory on one list. `ImplementsLru`: the lists behave as sequences. `RecencyOrder`: each is sorted by last use. `KeepsMostRecent`: a line that is gone was used before all those that stayed. `NoSilentLoss`: a line, or its dirty flag, leaves only into the caller's hands. |
| `hierarchy` | one-line caches, L1D and L2 both write back or both write through; three lines of data, two of code, two values, unbounded | `ImplementsMemory`, and `CleanLinesMatch`: a line not marked dirty equals what is below it. `StoreHitsAreWrittenThrough`: under write-through, at once. |
| `hierarchy_counters` | L1D of two sets, L2 of two ways, any 5 requests | the counters of different levels agree: `MemoryTraffic`, `MemoryWritebacks`, `L2Requests`, `WriteAllocations`. |
| `freed_victim` (violated) | one-line caches, 4 requests | `ModifiedEvictionsCounted`, see section 5. |
| `stride` | two instructions, one entry, seven addresses in six lines, ints of 12 values, `abs(INT_MIN)` either way; prefetches after four equal moves, as in L1ICache.hpp:16; either version of the class | `OccurenceCounts`: the counter is the number of moves in a row by the stride, as an int. `FollowsSteadyMoves`, `MissesNoSteadyMove`: an address is proposed after steady moves, only then, and always then unless it was proposed last. |
| `stride_full_table` (violated) | three instructions, two entries, four lines, version 2 | `AlwaysMakesRoom`, see section 5. |
| `stream_prefetcher` | seven addresses on both sides of a page's end; a list of four accesses, streams of three | `HoldsLastAccesses`: the list is the last accesses, both ways. `FollowsStreams`: a prefetch is proposed just when they end in a stream. `AscendsWithinPage`: an ascending one is a new line of the page of all of them. |
| `trace_threads` | a main thread and a worker, all instructions still to be instrumented; 315 cost files | until the worker ends the process, `MissesArePaired`, and `OnlyRacesLoseCycles`: no cycle is lost or sent twice before `Instruction` has raced `recordMemRef`. `CostsAreTheLastListed`: costs are those the file lists last. |
| `trace_cycle_race` (violated) | the same, without cost file | `CyclesConserved`, see section 5. |
| `v1_threads` | two threads, an instruction of both, instrumented beforehand, and one of each | `MissesArePaired`; `MutexKeepsCycles`: until Pin calls `Instruction` again, no cycle is lost; `UnsharedMissesNameTheirThread`: what one thread alone runs is reported with its name; `ThreadsFinish`: every thread gets through, unless the cache throws in one of them. |
| `v1_cache` | a cache of version 1, two lines or two sets of two lines, in all eight configurations; one line over two that write back, and over one that writes through, or that writes back below a cache that prefetches | `CleanLinesMatch`: a line not marked dirty equals what a load from below it gets. `FullKeepsStores`: fully associative caches lose no store. `OrderMatchesTable`, `NeverFails`: without prefetching, their order lists name their lines, and no request to any cache ends in an exception. |
| `v1_lost_store` (violated) | the single caches, without prefetching | `NoStoreIsLost`, see section 5. |

Each module that is a state machine has one type invariant, `TypeOK` (in
StreamPrefetcher `StreamTypeOK`; in LinkedAccessor that of LruAccessor), which also
holds the bounds the code relies on: lines in the set of their address, no set
too long, an occurence below its limit, the mutex held exactly where the code
holds it.

### Bounds

- *One-line caches.* With three lines and caches of one line every miss evicts,
  at both levels, so evictions inside evictions, write-backs to an L2 that no
  longer has the line, and write-backs that evict are reached in a few requests;
  with `CounterMax = 0` counters vanish and all reachable states are explored,
  without a bound on requests. Instruction fetches add nothing but evictions
  from L2, so two lines of code are enough. What a set of several lines adds is
  checked by `linked_accessor` and, for all sizes, proved of LruAccessor, of
  LinkedAccessor and of CacheHierarchy.
- *Linked lists.* Three lines to a set, so that the only, the first, a middle and the
  last node are moved and replaced; five nodes, one more than both sets can hold,
  so that a new one can be another one than the node just deleted. Which node `new`
  takes means nothing, hence the symmetry of nodes; TLC checks the refinement under
  it, since the state of LruAccessor has no nodes in it.
- *Counters.* `hierarchy_counters` counts, so it bounds requests (`MaxCalls = 5`);
  `CounterMax = 20` is above what five requests can reach. Five requests fill and
  overflow an L2 of two lines and write a dirty line back into it after it has
  left. L1D has two sets and L2 one, so that L2 evicts lines L1D still has.
- `MaxUses = 6` dates: enough to fill a set of three, reuse a line in any place, evict
  twice and ask for an evicted line again.
- `HistoryMax` is the length of the history of loaded lines, which nothing reads.
- *Stride prefetcher.* `MinOccurence = 4`, as L1I uses it, so that the counter goes up
  three times before it makes a prefetch and stays. `MaxStride = 2`, lines of 2, and an
  `int` of 12 values under addresses of 24: a distance of 2 is a stride, 4 is too long, 6
  and -6 become `INT_MIN`, -10 becomes 2, and 12 and -12 become 0, the stride of a new
  entry. Steady moves go both ways, some proposals wrap or are address 0, and runs are
  broken and repeated. Entries meet only where one is deleted for another, so that a table
  of one entry shows every path, with two instructions to compete for it;
  `stride_full_table` has three of them and two entries, and distances that fit an `int`.
  Instructions are interchangeable, hence the symmetry.
- *Stream prefetcher.* Streams of three, a list of four: both shorter and longer
  histories, and `add` dropping the oldest access, occur. Two pages of four lines, and
  addresses up to the last line of the address space, whose next line wraps.
- *Cost files.* A missing one; up to two lines; five lines as in the repository's
  file, then up to two more, that name a category, no category, a hit or a miss, with
  a number, without one or with something else.
- *Caches of version 1.* Three lines compete for a set of two, with a fourth one
  next to one of them; a stream is two accesses, the history is as short, and the
  page ends after six lines, so that a stream may run into its end. All reachable
  states are explored: nothing counts.
- *Threads.* Programs of two instructions, at most two operands each, put two
  threads into every pair of places of the routines.

### Fairness and deadlock

Only V1MemTrace states fairness: weak fairness of the steps of each thread, which
the scheduler of the system gives. A thread that waits for the mutex is
enabled again whenever the mutex is free; a thread makes finitely many
references, so its rivals cannot keep the mutex from it for ever, and weak
fairness is enough. Everywhere else the properties are safety properties; an
analysed program may stop at any time.

Deadlock is checked in all runs but those in which the program really may stop:
the runs of the stride prefetcher, `v1_cache` and `v1_lost_store` end where the
behaviour is undefined or an exception is thrown, and in V1MemTrace the program
ends (`ThreadsFinish` excludes that it stops before, but for an exception).

## 4. What is proved

TLC checks the instances of section 3. TLAPS proves the following for every value
of the constants that satisfies the named assumptions of the modules.

| module | theorem | statement |
|---|---|---|
| `LinkedLists_proofs` | `TypeCorrect` | `Spec => []TypeOK` (Spec of LruAccessor) |
| | `ListsAreSorted` | `Spec => []RecencyOrder` |
| | `LruReplacement` | `Spec => []KeepsMostRecent` |
| | `LinesAreHandedOver` | `Spec => NoSilentLoss` |
| | `ListsImplementSequences` | `LinkedSpec => ImplementsLru`, that is, `LinkedSpec => Spec` |
| | `ListsStaySound` | `LinkedSpec => []ListsAreSound` |
| | `StreamTypeCorrect` | `StreamSpec => []StreamTypeOK` |
| | `AccessesAreHeld` | `StreamSpec => []HoldsLastAccesses` |
| | `StreamsAreFollowed` | `StreamSpec => []FollowsStreams` |
| | `PrefetchesAscend` | `StreamSpec => []AscendsWithinPage` |
| `CacheHierarchy_proofs` | `HierarchyTypeCorrect` | `Spec => []TypeOK` |
| | `DirtyBitIsSound` | `Spec => []CleanLinesMatch` |
| | `WriteThroughReachesL2` | `Spec => []StoreHitsAreWrittenThrough` |
| | `HierarchyImplementsMemory` | `Spec => ImplementsMemory` |
| | `MemoryTrafficAccounted` | `Spec => []MemoryTraffic` |
| | `WritebacksAccounted` | `Spec => []MemoryWritebacks` |
| | `L2RequestsAreL1Misses` | `Spec => []L2Requests` |
| | `WriteBacksAllocate` | `Spec /\ []CountersHaveRoom => []WriteAllocations` |
| `StridePrefetcher_proofs` | `TypeCorrect` | `Spec => []TypeOK` |
| | `CountersAreRuns` | `Spec => []OccurenceCounts` |
| | `OnlySteadyMovesPrefetch` | `Spec => []FollowsSteadyMoves` |
| | `SteadyMovesPrefetch` | `Spec => MissesNoSteadyMove` |
| `V1MemTrace_proofs` | `TypeCorrect` | `Spec => []TypeOK` |
| | `PairsAreKept` | `Spec => []MissesArePaired` |
| | `MutexSuffices` | `Spec => []MutexKeepsCycles` |
| | `UnsharedMissesNamed` | `Spec => []UnsharedMissesNameTheirThread` |
| `MemTrace_proofs` | `TypeCorrect` | `Spec => []TypeOK` |
| | `PairsAreKept` | `Spec => []MissesArePaired` |
| | `LastLineCounts` | `Spec => []CostsAreTheLastListed` |
| | `OnlyRacesLose` | `Spec => []OnlyRacesLoseCycles` |
| `V1Cache_proofs` | `TypeCorrect` | `Spec => []TypeOK` |
| | `CleanLinesAreBelow` | `Spec => []CleanLinesMatch` |
| | `FullLevelsKeepStores` | `Spec => []FullKeepsStores` |
| | `OrderListsMatch` | `Spec => []OrderMatchesTable` |
| | `RequestsNeverFail` | `Spec => []NeverFails` |

The assumptions on constants: the numbers of sets are powers of two and a hierarchy
has one line size (`ConfigAssumption`, `HierarchiesAssumption`); addresses are
naturals; programs, operands, categories and cost files have the types of the code
(`TraceAssumption`, `CostAssumption`, the latter only that the two stand-ins for a
missing and an unreadable number are no numbers); `minOccurence` is at least 2
and `abs(INT_MIN)` compares somehow (`StrideAssumption`); a cache of version 1 has one or two levels, of any numbers of sets
and lines that are not 0, one set if it is fully associative (`V1CacheAssumption`);
memory has finitely many nodes and `NULL` is none (`NodesAssumption`); a line, a page
and an access list are not empty, a stream has two accesses or more, pages divide the
address space (`StreamAssumption`), which has room for a page and a stream
(`SpaceAssumption`). TLC evaluates each of them in a run.
Hypotheses of a single theorem are named beside it in the table
and explained below.

### One cache

The inductive invariant of the first part of `LinkedLists_proofs`, on LruAccessor, is `IInv == TypeOK /\ RecencyOrder /\
KeepsMostRecent`. The conjuncts need each other. `KeepsMostRecent` after an eviction
needs that the head of the list is its oldest line, which is `RecencyOrder`.
`RecencyOrder` after a use needs that dates never exceed the clock, that each line is
in the set of its own address (or another set could hold a line just dated) and that
no line is in a set twice, the first two of which are in `TypeOK` and the third
follows from `RecencyOrder`. All three uses of a line, a read hit, a write hit and an
allocation, do the same thing to a set: they take out at most one entry and append
the line with a new date. Lemma `UseStep` proves the invariant for that shape, from
the fact (`RemoveAtIsSubList`) that what is left is a sublist; `HitStep` and
`AllocationStep` show that the code's steps have it. `SetAccessor_proofs` has the
lemmas on operators: what `Read` and `Write` do to the lines of a table, and where
the tags of an address lie.

### Linked lists

`Linked(l, c)` says that the list `l` is that of the nodes `c`, a sequence: the head is
the first, `next` leads to the following one, `prev` back, and from the first to the
last. All lemmas are about it. `DL_APPENDIs` and `DL_DELETEIs` go through the
assignments of the macros, in their order, where the node just assigned may also be the
first one or the last one; what comes out is the sequence with the node at its end, or
without it. `MovedIs`, `WithoutIs` and `WithIs` put them together as `read` and `write`
do. `StaysLinked` is the frame: a list is not affected by what is assigned elsewhere.
`ChainIs` says that a walk along `next` visits `c` and ends. The walk is a recursive
function; that its values are those of `c` follows from a least step at which they
would not be (`SameWalk`), and that it ends within `Cardinality(Nodes)` steps from
`c` being injective (`ListFits`).

`LinkInv == IInv /\ Represents` is the invariant of LinkedAccessor. `Represents` says
that there is a sequence of nodes for each set such that each set is `Linked` by its
own, as long as its size says, the table is what those nodes hold, and each node in memory
is in one of the sequences, and in one only. The last is what keeps an assignment to one
list from reaching another, and what makes a deleted node dangle nowhere. It is stated by
a witness and not by the walks, because a walk over memory in the midst of being changed
says nothing. For each action a lemma shows that it keeps `Represents` and is the action
of LruAccessor of that name (`LinkedReadHitIs` to `LinkedReplaceIs`, `LinkedStep`). So
`ListsImplementSequences` covers every size, every memory and every choice of `new`, and
what is proved of `Spec` holds of `LinkedSpec`.

### The stream prefetcher

`StreamInv` says by the same means that the list is `Linked` by some sequence of nodes
which hold `history`, and that they are all the nodes there are (`HoldsIn`). `AddHolds`
goes through `add`, which allocates its node before it deletes the first one. `BackIs`
says that going back `k` steps by `prev` reaches the access before the last `k`, as long as
there is one; past the first it would come round to the last, hence the two tests in the
code. `StreamPrefetchIs` is the whole method over the history. That an ascending
prefetch is in the page of all accesses of the stream (`AscendingPrefetch`) follows from
the page of the first and from the order of the others, unless a stream is so long that
it goes round the address space and comes back to its page; `SmallSteps` bounds how far
it gets, and `SpaceAssumption` excludes that.

### The caches of a thread

The contents of a table depend only on the set of its lines. So the first part of
`CacheHierarchy_proofs` says what `Read`, `Write` and the table's side of
`handleWritePolicy` do to that set and to `IsTable`; the second part goes through the
methods from memory up, with one lemma for each. Three notions carry the argument:

- `Shown`: what a cache over some contents shows to the level above, its own line or
  else what is below;
- `Clean`: each of its lines is marked dirty or equals what is below;
- `Below`: what is below after a returned line has been flushed.

Each method lemma says: if the level is `Clean`, then afterwards it is, and what it
shows is unchanged, or changed at the one stored line. A write that evicts is the
case with substance: dropping a clean victim changes nothing shown because it is
clean; a dirty one is flushed and shows through from below. `Inv` is the conjunction
of the types, of `Clean` for L1D over what L2 shows and for L2 over memory, and of
the fact that no line of L1I is dirty. The last is needed because `handleWritePolicy`
of L1I would otherwise store a line of instructions into L2; it holds because nothing
but a write hit sets the flag and L1I only writes after a miss. `CleanLinesMatch` is
then a part of `Inv`, and `ImplementsMemory` follows step by step: what L1D shows is
`Contents`, the refinement mapping; `Load` and `Store` are those of AbstractMemory,
`Fetch` and `RunPrefetcher` are `Other`.

Stated for every hierarchy, the theorems cover a shape no run has: sets of any size
in any of the three caches, and any mixture of write policies. The freed flags
(`stale`) are arbitrary booleans in them.

### The counters

Counters wrap, so `CountersInv == Traffic /\ Writebacks /\ Tally` states equality
modulo `CounterMax + 1` (`Congruent`), which `Increment` respects and which adds up.
Each method of L2 changes both sides of each equation by the same amount (`Exchanges`):
a write into L2 adds a tag, or counts an eviction, or both when one line goes and
another comes, hence a lemma on the cardinality of the set of tags, which must be
finite. Reentrant evictions compose, since each is such an exchange.

`WriteAllocations` compares differences of counters by size, which wrapping destroys, so
`WriteBacksAllocate` supposes `CountersHaveRoom`: each of the four counters it subtracts
is at least 2 below `CounterMax`, because one request can load from memory twice. The
counters of the code have 64 bits; in `hierarchy_counters` the hypothesis holds in every
state, by the bound on requests. `Allocations(s)`, the loads of memory that are no load
misses of L2, is inductive with its bounds (`Allocating`): `L2Load` leaves it alone,
`L2Store` adds one if it allocates, and every store that reaches L2 from a write-back
L1D has been counted in `writebacksToL2` by then. L1I has nothing to store
(`FetchFlushesNothing`).

### The stride prefetcher

`Types` gives the bounds of the table. The invariant for the rest, `CountsInv`, ties
an entry to the history of its instruction: the history ends in the entry's line, its
last `occurence` moves are equal and small, one more is not unless the counter is at
its highest, and `stride` is the last of them. Lemma `SteadyMoved` describes histories
from their end, so that dropping the oldest access does not matter. Every path of
`prefetch` then has a lemma. Equal and small are said of distances as the code
computes them, as ints, so that the theorems need no assumption on addresses: a
distance that is cut off to 0 does count as a move by the stride 0 of a new entry, and
one of `INT_MIN` counts or not. `CountedStrides` and `CertainStrides` are the ints that may
and that must count, which differ by `INT_MIN` at most. That the int is not the
distance is said in section 5. `AskedInv` ties
`prevPrefetchedAdr` to the last address proposed. Both versions of the class are
covered, `defined` or not.

### Threads and cycles

`TraceCycles_proofs` is about what the two versions share. `WellTyped` are the types,
with each thread inside an instruction exactly where it has one. `Paired` says of the
messages that they alternate, and that there is an open one exactly while a thread is
between `sendComp` and `sendRW`. `Balanced(labels)` says that sent and stored cycles are
what was charged, that a thread in one of `labels` holds in `old` what `cycles` is, and
that between `sendComp` and its reset the cycles are counted twice. Lemmas
`StepKeepsTypes`, `StepKeepsPairs` and `StepKeepsBalance` prove a step of a thread to
keep them if no other thread is at a critical place; where that comes from is
what the two versions differ in:

- V1MemTrace: from the mutex (`MutexInv`: who is at such a place holds it). Instrumentation
  is outside it, so the balance holds as long as `tid = Translated`, that is, while
  nothing has been instrumented (`BalanceInv`). `OwnInstructions` and `NamedInv` give the
  thread names.
- MemTrace: from the null pointers: only the main thread gets to those places
  (`MainRefers`). Instrumentation by another thread can still lose cycles of the main
  one, which is what `trace_cycle_race` shows. `RaceInv` says that until then all are
  there: `~raced` excludes that another thread is in `Instruction` while the main one is
  at `adding` or `sent`, in the state before the step and in the one after it
  (`StepKeepsCycles`), and `OneCharging` that two threads are in `Instruction`.

### The caches of version 1

A request is an operator on states, so the lemmas of `V1Cache_proofs` say what an
operator does to any state `s` that is `Good` (the types of `TypeOK`), and only the last
ones speak of steps. There are two invariants.

`IInv` is about contents. `Written` lists the five things `write` may do to a set: hit,
fill, replace what the order list names, write nothing, end the program. `PassedOn` says
what the levels below have afterwards of a line that was flushed: what was stored, or
what they had before, the latter only if one of them is set-associative and dropped it.
`Handled` puts the two and `Settle` together, for either level, and lemmas about it give
`Ended`: the other lines are as they were and the requested one holds what it should.
`AllClean` is `CleanLinesMatch` for states; it is needed to show `FullKeepsStores`
inductive, because a clean victim is dropped, and `FullKeepsStores` speaks only of fully
associative levels, because only there does a write that finds no place end the program.
A store begins by outdating all copies of its line (`Outdate`), clean ones and what is
below them together, so that `AllClean` survives although the contents do not.

`ListsFit` is about the order lists, as long as nothing is prefetched. That of a fully
associative set has the tag of each line once and nothing else (`Names`); of a
set-associative one, which the code lets go wrong, what remains true is that it is at
least as long as the set has lines (`Fits`). The second suffices for `NeverFails`:
`getEntry` throws when its list is shorter than a full set. The first says that the
victim is there. Between `write` and `update` a fully associative list names one line
that is gone and misses the new one; the head is the victim, so that `update`, which
drops the head and appends the new tag, repairs it. That it is this order, and that the
flush of the victim to the second level in between repairs the list of the second level
before that of the first, is what lemma `FirstLevelFits` goes through.

### Files of any length

`TableFromFile` and `SentCycles` are folds over sequences. A fold of the community
modules is a function chosen to satisfy its recursion. `FoldExists` shows that one
exists, by a least counterexample in the well-founded order of the naturals
(`LeastNatural`, `SmallestSubset`), and what is then known about every step of it
(`LinesAreReadInOrder`, `SumOfAppend`) is proved in the same way. So the theorems
are about files and message lists of every length.

### Only model-checked

`ThreadsFinish`: liveness under fairness is out of the prover's reach. Of every other
property of a passing run there is a theorem.

## 5. Where the code disagrees with its documentation

- `freed_victim`. L1D decides whether to count an eviction by flags of a line it
  has deleted (L1DCache.hpp:50, :82). A modified line can be evicted and written
  back and not counted, where perf_reg announces a count of modified
  lines evicted.
- `stride_full_table`. "Just delete the first one" is a comparison,
  `itr == table.begin();` (stride_prefetcher.cpp:86), and the end iterator is
  deleted.
- `trace_cycle_race`. The mutex is commented out: `Instruction` in the second thread
  (memtrace.cpp:168) and `recordMemRef` in the main one (:110, :117-118) update `cycles` at
  once, and the `MissHandler`, which is to receive "computation cycles in between" the
  misses (:30), never hears of some of them.
- `v1_lost_store`. The order list of a set of version 1 takes the tag of a line
  at every use, also when it has it (replacement_policy.hpp:121-125), and drops its
  oldest element each time. It comes to name lines the set no longer has. Then
  `SetAssociative::write` finds nothing to replace and writes nothing
  (associativity.hpp:188-199), and `store`, which expects its line in the cache after
  two writes, has stored nowhere.

Modelled, but not the subject of a run:

- A second thread finds null pointers for its caches: `initializeThreadLocals` is called
  by the main thread only (memtrace.cpp:35, :237), and recordInstruction calls `load`
  through them (:130), where memtrace.cpp:64 says that recordMemRef "is called for each
  load/store operation requested by the cpu".
- In version 1 a full table leads to `table.end()` being deleted whatever the loop has
  found: it does not end at the entry it deletes, but goes on from the erased iterator
  (v1/prefetcher.hpp:196-214).
- `prefetch` cuts the difference of two addresses off to an `int` (stride_prefetcher.cpp:34)
  before it compares it with `maxStrideSize`. Moves by a little more than a multiple of 2^32
  are counted as short strides; prefetcher_test.cpp:163 has an oversized one not counted.
- An entry remembers its last proposal only (stride_prefetcher.cpp:43). After a run up, a
  run down and the same run up, it proposes the first address once more;
  prefetcher_test.cpp:194 has the same prefetch not occur, when there was no other one
  in between.
- The cost of an instruction is added when Pin instruments it (memtrace.cpp:168), so
  that a loop is charged once.
- `Instruction` of version 1 adds to `cycles` without the mutex (v1/memtrace.cpp:92), so
  that `CyclesConserved` fails there as well; `MutexKeepsCycles` states it for
  executions in which no `Instruction` interferes.
- An exception of `l1cache.load` leaves `RecordMemRef` with the mutex held
  (v1/memtrace.cpp:47-57); should the process survive it, the other threads wait for ever.
  `ThreadsFinish` says that there is no other way for that.
- `sendRW` names the thread Pin called `Instruction` in (memtrace.cpp:144, :182), where
  memtrace.cpp:68 has the thread of the reference; for an instruction several threads
  run, it is the wrong one for all but one. `UnsharedMissesNameTheirThread` is about
  the others.
- A descending stream is answered with the line above its last access
  (stream_prefetcher.cpp:42, :65), so that `AscendsWithinPage` speaks of ascending ones.
- A line of the cost file without a number takes the cost of the line before
  (instr_cost.hpp:121), and a file without CACHE_HIT or CACHE_MISS makes them free.
- 0 stands for no prefetch (stride_prefetcher.cpp:43), so that a prefetch of address 0
  is proposed again at once. `MissesNoSteadyMove` allows that.
- A prefetched line of version 1 enters the table and not the order list, so that a
  full set may ask a list that is not full for a victim, which throws
  (replacement_policy.hpp:21, :93); a fully associative table may be asked for a line
  it does not have. The prefetching loads of a first level do not reach the order list
  of a second one either. `NeverFails` therefore leaves prefetching caches out.
- A write-through cache over a set-associative one marks a line clean although the
  store below may have written nothing (cache.hpp:106-107), so that `CleanLinesMatch`
  of V1Cache leaves this pair out.

## 6. What is not modelled

- Of version 1, the counters and results of the caches, `descendingAccess` and
  `spatialPrefetcher`.
- What L1I's lines hold: stores do not reach it and the simulator has no use for it.
- Printing, symbol names, time stamps: input and output. How a line of the cost file is
  split is modelled by what it yields.
- `spatialPrefetcher`: a function without a caller. The loads that a stream prefetch
  would cause are kept and not followed into a cache; `RunPrefetcher` of CacheHierarchy
  has what such a load does there.
- Pin itself is modelled by its use. Of utlist, the macros the code does not use; uthash
  and the other vendored headers are not used at all.
- Drafts of the tool that the makefile does not build; tests; sample programs.
- The location mask for a number of sets that is not a power of two.

## 7. Plan

Done, in this order: CacheDefs, SetAccessor, LruAccessor and its proofs; the
hierarchy and AbstractMemory; StridePrefetcher; TraceCycles, MemTrace,
V1MemTrace; V1Cache; LinkedList and LinkedAccessor; StreamPrefetcher;
InstrCostTable; the stride prefetcher of version 1; its caches at two levels; proofs of
the hierarchy, its counters, the two tools, the stride prefetcher, the caches of
version 1, the linked lists and the stream prefetcher.

Next: results and counters of the caches of version 1, and its tool composed with them.
