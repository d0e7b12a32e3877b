--------------------------- MODULE StridePrefetcher ---------------------------
(***************************************************************************)
(* class StridePrefetcher: a table that remembers, for each load           *)
(* instruction, by how much its operand last moved and how often in a row  *)
(* it moved by as much, and proposes the address it will move to next.     *)
(*                                                                         *)
(* Addresses are unsigned long long and strides are int, so that a         *)
(* difference of addresses loses its upper half (stride_prefetcher.cpp:34);*)
(* both widths are parameters.                                             *)
(*                                                                         *)
(* v1/prefetcher.hpp has an earlier version of the class, which differs in *)
(* how it makes room in a full table.                                      *)
(***************************************************************************)
EXTENDS Integers, Sequences, FiniteSets

CONSTANTS Versions,      \* the versions of the class to look at, of 1 and 2
          Ips,           \* the load instructions
          Addresses,     \* the addresses they load
          AddressSpace,  \* the number of values of an Address
          IntSpace,      \* the number of values of an int
          LineSize,      \* cacheLineSize
          MaxStride,     \* maxStrideSize
          MinOccurence,  \* minOccurence
          MaxTableSize,  \* maxTableSize
          AbsOfIntMin    \* what abs(INT_MIN) <= maxStrideSize may evaluate to

\* With a minOccurence below 2 the counter passes it without a comparison.
ASSUME StrideAssumption ==
    /\ Versions \subseteq {1, 2}
    /\ AddressSpace \in Nat \ {0}
    /\ IntSpace \in Nat \ {0, 1}
    /\ LineSize \in Nat \ {0}
    /\ MaxStride \in Nat
    /\ MinOccurence \in Nat \ {0, 1}
    /\ MaxTableSize \in Nat \ {0}
    /\ Addresses \subseteq 0..(AddressSpace - 1)
    /\ AbsOfIntMin \subseteq BOOLEAN
    /\ AbsOfIntMin # {}

VARIABLES version,   \* that of the class
          table,     \* the PredictionTable: an entry for some of the Ips
          proposed,  \* the instruction and address of the prefetch the last
                     \* call proposed, if it did
          defined,   \* FALSE once the program has done what is undefined
          moves,     \* auxiliary: the last lines each instruction moved to
          asked      \* auxiliary: the last address proposed for each entry

vars == <<version, table, proposed, defined, moves, asked>>

IntMin == -(IntSpace \div 2)

Ints == IntMin..(IntSpace - 1 + IntMin)

\* The conversion of an integer to int.
ToInt(n) == ((n - IntMin) % IntSpace) + IntMin

\* getCachelineAdr
Line(adr) == adr - (adr % LineSize)

\* The address at a distance, as unsigned arithmetic computes it.
Beyond(adr, stride) == (adr + stride) % AddressSpace

PredictionTableEntry(adr) ==
    [prevAdr |-> adr, prevPrefetchedAdr |-> 0, stride |-> 0, occurence |-> 0]

Init ==
    /\ version \in Versions
    /\ table = [ip \in {} |-> PredictionTableEntry(0)]
    /\ proposed = {}
    /\ defined = TRUE
    /\ moves = [ip \in Ips |-> << >>]
    /\ asked = [ip \in Ips |-> {}]

Known(ip) == ip \in DOMAIN table

IsTableFull(size) == size >= MaxTableSize

\* What deleteOneEntry looks for, in the order of an unordered map.
Deletable == {ip \in DOMAIN table : table[ip].occurence = 0}

\* The table without the entries of gone, and with a new entry for ip.
Insert(ip, adr, gone) ==
    /\ table' = [known \in (DOMAIN table \ gone) \cup {ip} |->
                    IF known = ip THEN PredictionTableEntry(adr)
                                  ELSE table[known]]
    /\ proposed' = {}
    /\ moves' = [known \in Ips |->
                    IF known = ip THEN <<Line(adr)>>
                    ELSE IF known \in gone THEN << >> ELSE moves[known]]
    /\ asked' = [known \in Ips |->
                    IF known \in gone \cup {ip} THEN {} ELSE asked[known]]
    /\ UNCHANGED defined

\* An instruction that has no entry, and room for one.
AddEntry(ip, adr) ==
    /\ ~Known(ip)
    /\ ~IsTableFull(Cardinality(DOMAIN table))
    /\ Insert(ip, adr, {})

\* deleteOneEntry finds an entry.
ReplaceEntry(ip, adr) ==
    /\ ~Known(ip)
    /\ IsTableFull(Cardinality(DOMAIN table))
    /\ \E gone \in Deletable : Insert(ip, adr, {gone})

\* deleteOneEntry finds none: the iterator it then deletes is table.end().
DeleteEnd(ip) ==
    /\ ~Known(ip)
    /\ IsTableFull(Cardinality(DOMAIN table))
    /\ Deletable = {}
    /\ defined' = FALSE
    /\ proposed' = {}
    /\ UNCHANGED <<table, moves, asked>>

\* deleteOneEntry of version 1 goes on after the entry it has erased, from the
\* iterator of that entry, and has no other way out of its loop than the end
\* of the table, which it deletes too.
V1DeleteOneEntry(ip) ==
    /\ ~Known(ip)
    /\ IsTableFull(Cardinality(DOMAIN table))
    /\ defined' = FALSE
    /\ proposed' = {}
    /\ UNCHANGED <<table, moves, asked>>

\* The instruction stays in the line of its previous operand.
SameLine(ip, adr) ==
    /\ Known(ip)
    /\ Line(adr) = Line(table[ip].prevAdr)
    /\ table' = [table EXCEPT ![ip].prevAdr = adr]
    /\ proposed' = {}
    /\ UNCHANGED <<defined, moves, asked>>

\* The distance from its previous operand, as an int.
Stride(ip, adr) == ToInt(Line(adr) - Line(table[ip].prevAdr))

\* The instruction moves to another line.
Move(ip, adr) ==
    /\ Known(ip)
    /\ Line(adr) # Line(table[ip].prevAdr)
    /\ moves' = [moves EXCEPT ![ip] =
            LET longer == Append(@, Line(adr))
            IN  IF Len(@) > MinOccurence THEN Tail(longer) ELSE longer]
    /\ UNCHANGED defined

\* Mutant: a null prevPrefetchedAdr is taken for an address.
MutIsNewPrefetch(entry, toFetch) == toFetch # entry.prevPrefetchedAdr

\* A null prevPrefetchedAdr stands for no prefetch.
IsNewPrefetch(entry, toFetch) ==
    ~(entry.prevPrefetchedAdr # 0 /\ toFetch = entry.prevPrefetchedAdr)

\* Mutant: the counter is not taken back.
MutStillSteady(entry) == [entry EXCEPT !.occurence = MinOccurence]

\* The entry when occurence reaches minOccurence: ++, then --.
StillSteady(entry) == [entry EXCEPT !.occurence = MinOccurence - 1]

\* By the stride of its entry, often enough to propose the next address.
SteadyStride(ip, adr) ==
    LET entry   == table[ip]
        toFetch == Beyond(adr, entry.stride)
        new     == IsNewPrefetch(entry, toFetch)
    IN  /\ Move(ip, adr)
        /\ entry.stride = Stride(ip, adr)
        /\ entry.occurence + 1 = MinOccurence
        /\ table' = [table EXCEPT ![ip] =
                [StillSteady(entry) EXCEPT
                    !.prevAdr = adr,
                    !.prevPrefetchedAdr = IF new THEN toFetch ELSE @]]
        /\ proposed' = IF new THEN {[ip |-> ip, adr |-> adr, toFetch |-> toFetch]}
                              ELSE {}
        /\ asked' = [asked EXCEPT ![ip] = IF new THEN {toFetch} ELSE @]

\* By the stride of its entry, not often enough yet.
SameStride(ip, adr) ==
    /\ Move(ip, adr)
    /\ table[ip].stride = Stride(ip, adr)
    /\ table[ip].occurence + 1 # MinOccurence
    /\ table' = [table EXCEPT ![ip].prevAdr = adr, ![ip].occurence = @ + 1]
    /\ proposed' = {}
    /\ UNCHANGED asked

\* abs(stride) <= (int)maxStrideSize
IsSmall(stride, absOfIntMin) ==
    IF stride = IntMin THEN absOfIntMin
                       ELSE stride \in -MaxStride..MaxStride

\* Mutant: an oversized stride does not end the run of the previous one.
MutWithStride(entry, stride, small) ==
    IF small THEN [entry EXCEPT !.stride = stride, !.occurence = 1] ELSE entry

\* The entry of an instruction that has begun to move by another stride.
WithStride(entry, stride, small) ==
    [entry EXCEPT !.stride    = IF small THEN stride ELSE 0,
                  !.occurence = IF small THEN 1 ELSE 0]

\* By another stride than that of its entry.
OtherStride(ip, adr) ==
    /\ Move(ip, adr)
    /\ table[ip].stride # Stride(ip, adr)
    /\ \E absOfIntMin \in AbsOfIntMin :
        LET small == IsSmall(Stride(ip, adr), absOfIntMin)
        IN  table' = [table EXCEPT ![ip] =
                [WithStride(@, Stride(ip, adr), small) EXCEPT !.prevAdr = adr]]
    /\ proposed' = {}
    /\ UNCHANGED asked

\* What prefetch does for an instruction that has an entry.
UpdateEntry(ip, adr) ==
    \/ SameLine(ip, adr)
    \/ SteadyStride(ip, adr)
    \/ SameStride(ip, adr)
    \/ OtherStride(ip, adr)

\* StridePrefetcher::prefetch
Prefetch(ip, adr) ==
    \/ AddEntry(ip, adr)
    \/ ReplaceEntry(ip, adr)
    \/ DeleteEnd(ip)
    \/ UpdateEntry(ip, adr)

\* StridePrefetcher::prefetch of version 1
V1Prefetch(ip, adr) ==
    \/ AddEntry(ip, adr)
    \/ V1DeleteOneEntry(ip)
    \/ UpdateEntry(ip, adr)

Next ==
    /\ defined
    /\ \E ip \in Ips, adr \in Addresses :
        \/ version = 1 /\ V1Prefetch(ip, adr)
        \/ version = 2 /\ Prefetch(ip, adr)
    /\ UNCHANGED version

Spec == Init /\ [][Next]_vars

------------------------------------------------------------------------------
\* The types of the table and of its entries, within the bounds that prefetch
\* keeps: at most maxTableSize entries, and an occurence that is below
\* minOccurence between two calls.
TypeOK ==
    /\ version \in Versions
    /\ DOMAIN table \subseteq Ips
    /\ Cardinality(DOMAIN table) <= MaxTableSize
    /\ \A ip \in DOMAIN table :
        table[ip] \in [prevAdr : Addresses,
                       prevPrefetchedAdr : 0..(AddressSpace - 1),
                       stride : Ints,
                       occurence : 0..(MinOccurence - 1)]
    /\ proposed \subseteq [ip : Ips, adr : Addresses,
                           toFetch : 0..(AddressSpace - 1)]
    /\ defined \in BOOLEAN
    /\ moves \in [Ips -> Seq(Addresses \cup {Line(adr) : adr \in Addresses})]
    /\ asked \in [Ips -> SUBSET (0..(AddressSpace - 1))]

\* The strides that prefetch may take for one that is not too long, and those
\* that it must; they differ by INT_MIN at most.
CountedStrides ==
    {stride \in Ints : \E absOfIntMin \in AbsOfIntMin : IsSmall(stride, absOfIntMin)}

CertainStrides ==
    {stride \in Ints : \A absOfIntMin \in AbsOfIntMin : IsSmall(stride, absOfIntMin)}

\* The i-th move of a history, as the code computes it: as an int.
MoveBy(history, i) == ToInt(history[i + 1] - history[i])

LastMove(history) == MoveBy(history, Len(history) - 1)

\* The last k moves of a history were all by the same one of the strides.
Steady(strides, history, k) ==
    /\ k < Len(history)
    /\ \E stride \in strides :
        \A i \in (Len(history) - k)..(Len(history) - 1) : MoveBy(history, i) = stride

\* occurence counts the moves in a row by the stride of the entry, up to
\* minOccurence - 1, whatever was too far, stayed in its line, wrapped or was
\* deleted in between, and it is zero only when no stride is set: what
\* prefetch decides on and what deleteOneEntry takes for an entry of no use.
OccurenceCounts ==
    \A ip \in DOMAIN table :
        LET n == table[ip].occurence
        IN  /\ Steady(CountedStrides, moves[ip], n)
            /\ n < MinOccurence - 1 => ~Steady(CertainStrides, moves[ip], n + 1)
            /\ table[ip].stride = IF n = 0 THEN 0 ELSE LastMove(moves[ip])

\* A prefetch is proposed only after minOccurence moves by the same stride,
\* none of them too long, and it continues them.  Distances are the ints that
\* prefetch computes.
FollowsSteadyMoves ==
    \A p \in proposed :
        /\ Steady(CountedStrides, moves[p.ip], MinOccurence)
        /\ p.toFetch = Beyond(p.adr, LastMove(moves[p.ip]))

\* Whenever an instruction has moved steadily, the next address is proposed,
\* unless it is the one that was proposed last.
MissesNoSteadyMove ==
    [][\A ip \in Ips :
          moves'[ip] # moves[ip] /\ Steady(CertainStrides, moves'[ip], MinOccurence)
          => \/ \E p \in proposed' : p.ip = ip
             \/ Beyond(table'[ip].prevAdr, LastMove(moves'[ip])) \in asked[ip]]_vars

\* A full table always has room for one more instruction: "if couldn't find
\* any entry to delete just delete the first one" (stride_prefetcher.cpp:84,
\* v1/prefetcher.hpp:207-208).
AlwaysMakesRoom == defined

==============================================================================
