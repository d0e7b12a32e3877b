------------------------------ MODULE CacheDefs ------------------------------
(***************************************************************************)
(* The vocabulary of cache_defs.hpp and cache_config.hpp: cache lines and  *)
(* their flags, the results of a cache operation, a cache configuration,   *)
(* the bounded history of accesses and the size_t performance counters.    *)
(*                                                                         *)
(* A CacheLine of the code holds a tag and two flags.  The field data is   *)
(* auxiliary: it is what the simulated line would contain, so that a       *)
(* property can say which store a line holds.  No flag, tag or counter     *)
(* ever depends on it.                                                     *)
(***************************************************************************)
EXTENDS Naturals, Sequences

\* enum CacheOperationResult: a cache answers a hit with its own level.
MISS == 0
L1HIT == 1
L2HIT == 2
PREFETCH_MISS == 4
CacheOperationResult == 0..4

\* enum WritePolicy
WRITE_THROUGH == "WRITE_THROUGH"
WRITE_BACK == "WRITE_BACK"
WritePolicy == {WRITE_THROUGH, WRITE_BACK}

\* invalid is the flag INVALID_ENTRY, the dirty bit of the line; evacuated
\* is EVACUATED, set when the line leaves its set.
CacheLine(Tag, Data) ==
    [tag : Tag, invalid : BOOLEAN, evacuated : BOOLEAN, data : Data]

NewCacheLine(dtag, d) ==
    [tag |-> dtag, invalid |-> FALSE, evacuated |-> FALSE, data |-> d]

\* Mutant: a write hit does not mark the line.
MutSetEntryInvalid(line) == line

\* The macros SET_ENTRY_INVALID, SET_ENTRY_VALID and SET_EVACUATED.
SetEntryInvalid(line) == [line EXCEPT !.invalid = TRUE]

SetEntryValid(line) == [line EXCEPT !.invalid = FALSE]

\* Mutant: the flag is assigned, not or-ed in.
MutSetEvacuated(line) == [line EXCEPT !.invalid = FALSE, !.evacuated = TRUE]

SetEvacuated(line) == [line EXCEPT !.evacuated = TRUE]

\* The constructor of CacheConfig; the associativity and replacement policy
\* it is given are never read.
CacheConfig(cacheSize, writePolicy, cacheLevel, cacheLineSize, setSize) ==
    [numberOfSets  |-> cacheSize \div (cacheLineSize * setSize),
     setSize       |-> setSize,
     writePolicy   |-> writePolicy,
     cacheLevel    |-> cacheLevel,
     cacheLineSize |-> cacheLineSize]

\* AccessList::add, on a list of at most maxSize addresses, oldest first.
AddAccess(list, maxSize, adr) ==
    Append(IF Len(list) >= maxSize THEN Tail(list) ELSE list, adr)

\* ++ on a size_t counter of which CounterMax is the largest value.
Increment(n, CounterMax) == IF n = CounterMax THEN 0 ELSE n + 1

==============================================================================
