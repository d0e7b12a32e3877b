------------------------ MODULE StridePrefetcher_proofs ------------------------
(***************************************************************************)
(* Proofs about StridePrefetcher, both versions of the class: the bounds   *)
(* of its table, that its counters are the moves in a row, and that it     *)
(* proposes after steady moves and only then, for every program, with      *)
(* distances as the ints that the code computes.                           *)
(***************************************************************************)
EXTENDS StridePrefetcher, SequenceTheorems, FiniteSetTheorems, TLAPS

Words == 0..(AddressSpace - 1)

Histories == Seq(Addresses \cup {Line(adr) : adr \in Addresses})

------------------------------------------------------------------------------
(* Integers of the two widths *)

LEMMA IntsAreInts == IntMin \in Int /\ 0 \in Ints /\ Ints \subseteq Int
<1>1. IntSpace \in Nat /\ IntSpace >= 2
  BY StrideAssumption
<1>2. IntSpace \div 2 \in Nat /\ IntSpace \div 2 <= IntSpace - 1
  BY <1>1
<1> QED
  BY <1>1, <1>2 DEF Ints, IntMin

\* The cast to int yields an int, and is the identity on what fits one.
LEMMA ToIntProperties ==
    ASSUME NEW n \in Int
    PROVE  ToInt(n) \in Ints /\ (n \in Ints => ToInt(n) = n)
<1>1. IntSpace \in Nat /\ IntSpace >= 2 /\ IntMin \in Int
  BY StrideAssumption, IntsAreInts
<1>2. (n - IntMin) % IntSpace \in 0..(IntSpace - 1)
  BY <1>1
<1>3. ASSUME n - IntMin \in 0..(IntSpace - 1)
      PROVE  (n - IntMin) % IntSpace = n - IntMin
  BY <1>1, <1>3
<1> QED
  BY <1>1, <1>2, <1>3 DEF ToInt, Ints

LEMMA BeyondType ==
    ASSUME NEW adr \in Int, NEW stride \in Int
    PROVE  Beyond(adr, stride) \in Words
BY StrideAssumption DEF Beyond, Words

LEMMA AddressProperties ==
    ASSUME NEW adr \in Addresses
    PROVE  adr \in Nat /\ adr \in Words /\ Line(adr) \in Int
<1>1. adr \in Nat /\ adr \in Words
  BY StrideAssumption DEF Words
<1>2. LineSize \in Nat \ {0}
  BY StrideAssumption
<1> QED
  BY <1>1, <1>2 DEF Line

LEMMA HistoriesAreOfInts == Histories \subseteq Seq(Int)
<1>1. Addresses \cup {Line(adr) : adr \in Addresses} \subseteq Int
  BY AddressProperties
<1> QED
  BY <1>1 DEF Histories

------------------------------------------------------------------------------
(* Types *)

Entries ==
    [prevAdr : Addresses, prevPrefetchedAdr : Words, stride : Ints,
     occurence : 0..(MinOccurence - 1)]

Types ==
    /\ version \in Versions
    /\ IsFiniteSet(DOMAIN table)
    /\ DOMAIN table \subseteq Ips
    /\ Cardinality(DOMAIN table) <= MaxTableSize
    /\ table \in [DOMAIN table -> Entries]
    /\ proposed \subseteq [ip : Ips, adr : Addresses, toFetch : Words]
    /\ defined \in BOOLEAN
    /\ moves \in [Ips -> Histories]
    /\ asked \in [Ips -> SUBSET Words]

LEMMA TypesImplyTypeOK == Types => TypeOK
BY DEF Types, TypeOK, Entries, Words, Histories

LEMMA InitTypes == Init => Types
<1> SUFFICES ASSUME Init PROVE Types
  OBVIOUS
<1>1. DOMAIN table = {}
  BY DEF Init
<1>2. IsFiniteSet(DOMAIN table) /\ Cardinality(DOMAIN table) = 0
  BY <1>1, FS_EmptySet
<1>3. << >> \in Histories
  BY EmptySeq DEF Histories
<1>4. MaxTableSize \in Nat
  BY StrideAssumption
<1> QED
  BY <1>1, <1>2, <1>3, <1>4 DEF Init, Types

\* What a call changes of the entry and of the history of an instruction that
\* has an entry.
Updated(ip, entry, history, last) ==
    /\ table' = [table EXCEPT ![ip] = entry]
    /\ moves' = [moves EXCEPT ![ip] = history]
    /\ asked' = [asked EXCEPT ![ip] = last]
    /\ UNCHANGED defined

\* The history of an instruction after it has moved to another line.
Moved(history, line) ==
    LET longer == Append(history, line)
    IN  IF Len(history) > MinOccurence THEN Tail(longer) ELSE longer

LEMMA MovedType ==
    ASSUME NEW history \in Histories, NEW adr \in Addresses
    PROVE  Moved(history, Line(adr)) \in Histories
<1>1. Line(adr) \in Addresses \cup {Line(a) : a \in Addresses}
  OBVIOUS
<1>2. /\ Append(history, Line(adr)) \in Histories
      /\ Append(history, Line(adr)) # << >>
  BY <1>1, AppendProperties DEF Histories
<1>3. Tail(Append(history, Line(adr))) \in Histories
  BY <1>2, HeadTailProperties DEF Histories
<1> QED
  BY <1>2, <1>3 DEF Moved

\* The entries that prefetch leaves after a move.
LEMMA SteadyEntryType ==
    ASSUME NEW entry \in Entries, NEW adr \in Addresses, NEW toFetch \in Words,
           NEW new
    PROVE  [StillSteady(entry) EXCEPT
                !.prevAdr = adr,
                !.prevPrefetchedAdr = IF new THEN toFetch ELSE @] \in Entries
<1> DEFINE steady == StillSteady(entry)
           last == IF new THEN toFetch ELSE steady.prevPrefetchedAdr
<1>1. MinOccurence - 1 \in 0..(MinOccurence - 1)
  BY StrideAssumption
<1>2. steady \in Entries
  BY <1>1 DEF Entries, StillSteady
<1> HIDE DEF steady
<1>3. last \in Words
  BY <1>2 DEF Entries
<1> HIDE DEF last
<1>4. [steady EXCEPT !.prevAdr = adr, !.prevPrefetchedAdr = last] \in Entries
  BY <1>2, <1>3 DEF Entries
<1> QED
  BY <1>4 DEF last, steady

LEMMA OtherEntryType ==
    ASSUME NEW entry \in Entries, NEW adr \in Addresses, NEW stride \in Ints,
           NEW small
    PROVE  [WithStride(entry, stride, small) EXCEPT !.prevAdr = adr] \in Entries
<1> DEFINE s == IF small THEN stride ELSE 0
           n == IF small THEN 1 ELSE 0
           with == WithStride(entry, stride, small)
<1>1. s \in Ints /\ n \in 0..(MinOccurence - 1)
  BY StrideAssumption, IntsAreInts
<1>2. with = [entry EXCEPT !.stride = s, !.occurence = n]
  BY DEF WithStride
<1> HIDE DEF s, n, with
<1>3. with \in Entries
  BY <1>1, <1>2 DEF Entries
<1>4. [with EXCEPT !.prevAdr = adr] \in Entries
  BY <1>3 DEF Entries
<1> QED
  BY <1>4 DEF with

\* prefetch for an instruction with an entry replaces that entry.
LEMMA UpdateStep ==
    ASSUME Types, NEW ip \in Ips, NEW adr \in Addresses, UpdateEntry(ip, adr)
    PROVE  /\ Known(ip)
           /\ \E entry \in Entries, history \in Histories, last \in SUBSET Words :
                Updated(ip, entry, history, last)
           /\ proposed' \subseteq [ip : Ips, adr : Addresses, toFetch : Words]
<1>1. Known(ip) /\ table[ip] \in Entries /\ ip \in DOMAIN table
  BY DEF UpdateEntry, SameLine, SteadyStride, SameStride, OtherStride, Move,
         Known, Types
<1>2. /\ moves[ip] \in Histories
      /\ asked[ip] \in SUBSET Words
      /\ moves = [moves EXCEPT ![ip] = moves[ip]]
      /\ asked = [asked EXCEPT ![ip] = asked[ip]]
  BY DEF Types
<1>3. MinOccurence \in Nat /\ MinOccurence >= 2
  BY StrideAssumption
<1>4. Stride(ip, adr) \in Ints /\ Beyond(adr, table[ip].stride) \in Words
  <2>1. Line(adr) - Line(table[ip].prevAdr) \in Int
    BY <1>1, AddressProperties DEF Entries
  <2>2. adr \in Int
    BY AddressProperties
  <2>3. table[ip].stride \in Ints
    BY <1>1 DEF Entries
  <2>4. table[ip].stride \in Int
    BY <2>3, IntsAreInts
  <2> QED
    BY <2>1, <2>2, <2>4, ToIntProperties, BeyondType DEF Stride
<1>5. ASSUME Move(ip, adr)
      PROVE  /\ moves' = [moves EXCEPT ![ip] = Moved(moves[ip], Line(adr))]
             /\ Moved(moves[ip], Line(adr)) \in Histories
             /\ defined' = defined
  BY <1>2, <1>5, MovedType DEF Move, Moved
<1>6. CASE SameLine(ip, adr)
  <2> DEFINE entry == [table[ip] EXCEPT !.prevAdr = adr]
  <2>1. entry \in Entries
    BY <1>1 DEF Entries
  <2>2. Updated(ip, entry, moves[ip], asked[ip])
    BY <1>2, <1>6 DEF SameLine, Updated
  <2>3. proposed' = {}
    BY <1>6 DEF SameLine
  <2> QED
    BY <1>1, <1>2, <2>1, <2>2, <2>3
<1>7. CASE SteadyStride(ip, adr)
  <2> DEFINE toFetch == Beyond(adr, table[ip].stride)
             new == IsNewPrefetch(table[ip], toFetch)
             entry == [StillSteady(table[ip]) EXCEPT
                    !.prevAdr = adr,
                    !.prevPrefetchedAdr = IF new THEN toFetch ELSE @]
             last == IF new THEN {toFetch} ELSE asked[ip]
  <2>1. entry \in Entries
    BY <1>1, <1>4, SteadyEntryType
  <2>2. last \in SUBSET Words
    BY <1>2, <1>4
  <2>3. Move(ip, adr)
    BY <1>7 DEF SteadyStride
  <2>4. Updated(ip, entry, Moved(moves[ip], Line(adr)), last)
    BY <1>5, <1>7, <2>3 DEF SteadyStride, Updated
  <2>5. proposed' \subseteq [ip : Ips, adr : Addresses, toFetch : Words]
    BY <1>4, <1>7 DEF SteadyStride
  <2> QED
    BY <1>1, <1>5, <2>1, <2>2, <2>3, <2>4, <2>5
<1>8. CASE SameStride(ip, adr)
  <2> DEFINE entry == [table[ip] EXCEPT !.prevAdr = adr, !.occurence = @ + 1]
  <2>1. entry \in Entries
    BY <1>1, <1>3, <1>8 DEF Entries, SameStride
  <2>2. Move(ip, adr)
    BY <1>8 DEF SameStride
  <2>3. table' = [table EXCEPT ![ip] = entry]
    BY <1>8 DEF SameStride
  <2>4. Updated(ip, entry, Moved(moves[ip], Line(adr)), asked[ip])
    BY <1>2, <1>5, <1>8, <2>2, <2>3 DEF SameStride, Updated
  <2>5. proposed' = {}
    BY <1>8 DEF SameStride
  <2> QED
    BY <1>1, <1>2, <1>5, <2>1, <2>2, <2>4, <2>5
<1>9. CASE OtherStride(ip, adr)
  <2>1. PICK absOfIntMin \in AbsOfIntMin :
            table' = [table EXCEPT ![ip] =
                [WithStride(@, Stride(ip, adr),
                            IsSmall(Stride(ip, adr), absOfIntMin))
                    EXCEPT !.prevAdr = adr]]
    BY <1>9 DEF OtherStride
  <2> DEFINE entry == [WithStride(table[ip], Stride(ip, adr),
                                  IsSmall(Stride(ip, adr), absOfIntMin))
                          EXCEPT !.prevAdr = adr]
  <2>2. entry \in Entries
    BY <1>1, <1>4, OtherEntryType
  <2>3. Move(ip, adr)
    BY <1>9 DEF OtherStride
  <2>4. Updated(ip, entry, Moved(moves[ip], Line(adr)), asked[ip])
    BY <1>2, <1>5, <1>9, <2>1, <2>3 DEF OtherStride, Updated
  <2>5. proposed' = {}
    BY <1>9 DEF OtherStride
  <2> QED
    BY <1>1, <1>2, <1>5, <2>2, <2>3, <2>4, <2>5
<1> QED
  BY <1>6, <1>7, <1>8, <1>9 DEF UpdateEntry

\* A new entry, in the room an old one leaves or in room that is left.
LEMMA InsertStep ==
    ASSUME Types, NEW ip \in Ips, NEW adr \in Addresses, ~Known(ip),
           NEW gone \in SUBSET DOMAIN table,
           Cardinality(DOMAIN table \ gone) < MaxTableSize,
           Insert(ip, adr, gone), version' = version
    PROVE  Types'
<1> DEFINE kept == DOMAIN table \ gone
           known == kept \cup {ip}
<1>1. IsFiniteSet(kept) /\ ip \notin kept
  BY FS_Subset DEF Types, Known
<1>2. /\ IsFiniteSet(known)
      /\ Cardinality(known) = Cardinality(kept) + 1
      /\ Cardinality(kept) \in Nat
  BY <1>1, FS_AddElement, FS_CardinalityType
<1>3. Cardinality(known) <= MaxTableSize
  BY <1>2, StrideAssumption
<1>4. PredictionTableEntry(adr) \in Entries
  <2>1. 0 \in Words /\ 0 \in Ints /\ 0 \in 0..(MinOccurence - 1)
    BY StrideAssumption, IntsAreInts DEF Words
  <2> QED
    BY <2>1 DEF PredictionTableEntry, Entries
<1>5. <<Line(adr)>> \in Histories /\ << >> \in Histories
  BY EmptySeq DEF Histories
<1>6. table' = [k \in known |->
                    IF k = ip THEN PredictionTableEntry(adr) ELSE table[k]]
  BY DEF Insert
<1>7. known \subseteq Ips
  BY DEF Types
<1>8. table' \in [known -> Entries] /\ DOMAIN table' = known
  <2>1. \A k \in kept : table[k] \in Entries
    BY DEF Types
  <2> QED
    BY <1>4, <1>6, <2>1
<1>9. moves' \in [Ips -> Histories]
  <2>1. \A k \in Ips : moves[k] \in Histories
    BY DEF Types
  <2> QED
    BY <1>5, <2>1 DEF Insert
<1>10. asked' \in [Ips -> SUBSET Words]
  BY DEF Insert, Types
<1> HIDE DEF known
<1> QED
  BY <1>2, <1>3, <1>7, <1>8, <1>9, <1>10 DEF Insert, Types

LEMMA TypesStep ==
    ASSUME Types, [Next]_vars
    PROVE  Types'
<1>1. CASE UNCHANGED vars
  BY <1>1 DEF Types, vars
<1>2. ASSUME NEW ip \in Ips, NEW adr \in Addresses, UpdateEntry(ip, adr),
             version' = version
      PROVE  Types'
  <2>1. PICK entry \in Entries, history \in Histories, last \in SUBSET Words :
            Updated(ip, entry, history, last)
    BY <1>2, UpdateStep
  <2>2. proposed' \subseteq [ip : Ips, adr : Addresses, toFetch : Words]
        /\ Known(ip)
    BY <1>2, UpdateStep
  <2>3. DOMAIN table' = DOMAIN table
    BY <2>1 DEF Updated, Types
  <2>4. table' \in [DOMAIN table -> Entries]
    BY <2>1, <2>2 DEF Updated, Types, Known
  <2>5. moves' \in [Ips -> Histories] /\ asked' \in [Ips -> SUBSET Words]
    BY <2>1 DEF Updated, Types
  <2> QED
    BY <1>2, <2>1, <2>2, <2>3, <2>4, <2>5 DEF Types, Updated
<1>3. ASSUME NEW ip \in Ips, NEW adr \in Addresses, AddEntry(ip, adr),
             version' = version
      PROVE  Types'
  <2>1. Cardinality(DOMAIN table) \in Nat
    BY FS_CardinalityType DEF Types
  <2>2. DOMAIN table \ {} = DOMAIN table
    OBVIOUS
  <2>3. Cardinality(DOMAIN table \ {}) < MaxTableSize
    BY <1>3, <2>1, <2>2, StrideAssumption DEF AddEntry, IsTableFull
  <2> QED
    BY <1>3, <2>3, InsertStep DEF AddEntry
<1>4. ASSUME NEW ip \in Ips, NEW adr \in Addresses, ReplaceEntry(ip, adr),
             version' = version
      PROVE  Types'
  <2>1. PICK gone \in Deletable : Insert(ip, adr, {gone})
    BY <1>4 DEF ReplaceEntry
  <2>2. gone \in DOMAIN table
    BY DEF Deletable
  <2>3. /\ Cardinality(DOMAIN table \ {gone}) = Cardinality(DOMAIN table) - 1
        /\ Cardinality(DOMAIN table) \in Nat
    BY <2>2, FS_RemoveElement, FS_CardinalityType DEF Types
  <2>4. Cardinality(DOMAIN table \ {gone}) < MaxTableSize
    BY <2>3, StrideAssumption DEF Types
  <2> QED
    BY <1>4, <2>1, <2>2, <2>4, InsertStep DEF ReplaceEntry
<1>5. ASSUME NEW ip \in Ips, DeleteEnd(ip) \/ V1DeleteOneEntry(ip),
             version' = version
      PROVE  Types'
  BY <1>5 DEF DeleteEnd, V1DeleteOneEntry, Types
<1> QED
  BY <1>1, <1>2, <1>3, <1>4, <1>5 DEF Next, Prefetch, V1Prefetch

\* No call of prefetch, with a full table or not, of either version, leaves
\* more than maxTableSize entries or an occurence at minOccurence.
THEOREM TypeCorrect == Spec => []TypeOK
<1>1. Spec => []Types
  BY InitTypes, TypesStep, PTL DEF Spec
<1> QED
  BY <1>1, TypesImplyTypeOK, PTL

------------------------------------------------------------------------------
(* Steady moves: a history is read from its end *)

\* The line an instruction was at j moves ago.
Back(history, j) == history[Len(history) - j]

\* The last k moves were all by the given distance.
SteadyBy(history, k, stride) ==
    \A j \in 0..(k - 1) : ToInt(Back(history, j) - Back(history, j + 1)) = stride

LEMMA SteadyFromTheEnd ==
    ASSUME NEW strides, NEW history \in Seq(Int), NEW k \in Nat
    PROVE  Steady(strides, history, k)
           <=> /\ k < Len(history)
               /\ \E stride \in strides : SteadyBy(history, k, stride)
<1> DEFINE n == Len(history)
<1>1. n \in Nat
  BY LenProperties
<1>2. ASSUME NEW stride, k < n,
             \A i \in (n - k)..(n - 1) : MoveBy(history, i) = stride
      PROVE  SteadyBy(history, k, stride)
  <2> SUFFICES ASSUME NEW j \in 0..(k - 1)
               PROVE  ToInt(history[n - j] - history[n - (j + 1)]) = stride
    BY DEF SteadyBy, Back
  <2>1. n - (j + 1) \in (n - k)..(n - 1) /\ (n - (j + 1)) + 1 = n - j
    BY <1>1
  <2> QED
    BY <1>2, <2>1 DEF MoveBy
<1>3. ASSUME NEW stride, k < n, SteadyBy(history, k, stride)
      PROVE  \A i \in (n - k)..(n - 1) : MoveBy(history, i) = stride
  <2> SUFFICES ASSUME NEW i \in (n - k)..(n - 1)
               PROVE  ToInt(history[i + 1] - history[i]) = stride
    BY DEF MoveBy
  <2> DEFINE j == n - (i + 1)
  <2>1. j \in 0..(k - 1) /\ n - j = i + 1 /\ n - (j + 1) = i
    BY <1>1
  <2> HIDE DEF j
  <2> QED
    BY <1>3, <2>1 DEF SteadyBy, Back
<1> QED
  BY <1>2, <1>3 DEF Steady

\* What an instruction did k moves in a row it did fewer moves in a row.
LEMMA SteadyBefore ==
    ASSUME NEW strides, NEW history \in Seq(Int), NEW k \in Nat, NEW j \in 0..k,
           Steady(strides, history, k)
    PROVE  Steady(strides, history, j)
<1>1. PICK stride \in strides : SteadyBy(history, k, stride)
  BY SteadyFromTheEnd
<1>2. k < Len(history) /\ Len(history) \in Nat
  BY SteadyFromTheEnd, LenProperties
<1>3. SteadyBy(history, j, stride)
  BY <1>1 DEF SteadyBy
<1> QED
  BY <1>2, <1>3, SteadyFromTheEnd

LEMMA NothingIsSteady ==
    ASSUME NEW strides, 0 \in strides, NEW history \in Seq(Int), Len(history) > 0
    PROVE  Steady(strides, history, 0)
<1>1. Len(history) \in Nat
  BY LenProperties
<1>2. \A i \in (Len(history) - 0)..(Len(history) - 1) : FALSE
  BY <1>1
<1> QED
  BY <1>1, <1>2 DEF Steady

\* The strides that are counted: zero is, and what prefetch takes for small.
LEMMA StridesProperties ==
    /\ 0 \in CountedStrides /\ 0 \in CertainStrides
    /\ \A stride \in Ints, absOfIntMin \in AbsOfIntMin :
          IF IsSmall(stride, absOfIntMin) THEN stride \in CountedStrides
                                          ELSE stride \notin CertainStrides
<1>1. 0 \in Ints /\ 0 \in -MaxStride..MaxStride /\ IntMin # 0
  <2>1. IntSpace \in Nat /\ IntSpace >= 2 /\ MaxStride \in Nat
    BY StrideAssumption
  <2>2. IntSpace \div 2 >= 1
    BY <2>1
  <2> QED
    BY <2>1, <2>2, IntsAreInts DEF IntMin
<1>2. \A absOfIntMin : IsSmall(0, absOfIntMin)
  BY <1>1 DEF IsSmall
<1>3. PICK absOfIntMin : absOfIntMin \in AbsOfIntMin
  BY StrideAssumption
<1>4. 0 \in CountedStrides /\ 0 \in CertainStrides
  BY <1>1, <1>2, <1>3 DEF CountedStrides, CertainStrides
<1> QED
  BY <1>4 DEF CountedStrides, CertainStrides

\* How the end of the history changes with a move.
LEMMA MovedBack ==
    ASSUME NEW history \in Seq(Int), Len(history) > 0, NEW line \in Int
    PROVE  LET after == Moved(history, line)
           IN  /\ after \in Seq(Int)
               /\ Len(after) \in Nat
               /\ \/ Len(after) = Len(history) + 1
                  \/ Len(after) = Len(history) /\ Len(history) > MinOccurence
               /\ Back(after, 0) = line
               /\ \A j \in 0..(Len(after) - 2) : Back(after, j + 1) = Back(history, j)
<1> DEFINE longer == Append(history, line)
           after == Moved(history, line)
           n == Len(history)
<1>1. n \in Nat
  BY LenProperties
<1>2. /\ longer \in Seq(Int)
      /\ longer # << >>
      /\ Len(longer) = n + 1
      /\ longer[n + 1] = line
      /\ \A i \in 1..n : longer[i] = history[i]
  BY AppendProperties
<1>3. CASE n > MinOccurence
  <2>1. after = Tail(longer)
    BY <1>3 DEF Moved
  <2>2. /\ after \in Seq(Int)
        /\ Len(after) = n
        /\ \A i \in 1..n : after[i] = longer[i + 1]
    BY <1>1, <1>2, <2>1, HeadTailProperties
  <2>3. Back(after, 0) = line
    BY <1>1, <1>2, <1>3, <2>2 DEF Back
  <2>4. ASSUME NEW j \in 0..(n - 2)
        PROVE  after[n - (j + 1)] = history[n - j]
    <3>1. n - (j + 1) \in 1..n /\ (n - (j + 1)) + 1 = n - j /\ n - j \in 1..n
      BY <1>1
    <3> QED
      BY <1>2, <2>2, <3>1
  <2> HIDE DEF after
  <2> QED
    BY <1>1, <1>3, <2>2, <2>3, <2>4 DEF Back, after
<1>4. CASE ~(n > MinOccurence)
  <2>1. after = longer
    BY <1>4 DEF Moved
  <2>2. Back(after, 0) = line
    BY <1>1, <1>2, <2>1 DEF Back
  <2>3. ASSUME NEW j \in 0..((n + 1) - 2)
        PROVE  longer[(n + 1) - (j + 1)] = history[n - j]
    <3>1. (n + 1) - (j + 1) = n - j /\ n - j \in 1..n
      BY <1>1
    <3> QED
      BY <1>2, <3>1
  <2> QED
    BY <1>1, <1>2, <2>1, <2>2, <2>3 DEF Back
<1> QED
  BY <1>3, <1>4

\* The last moves after a move: it, and those before it.
LEMMA SteadyMoved ==
    ASSUME NEW history \in Seq(Int), Len(history) > 0, NEW line \in Int,
           NEW d, d = ToInt(line - history[Len(history)]), NEW strides
    PROVE  LET after == Moved(history, line)
           IN  /\ after \in Seq(Int)
               /\ Len(after) > 0
               /\ after[Len(after)] = line
               /\ LastMove(after) = d
               /\ Steady(strides, after, 1) <=> d \in strides
               /\ \A k \in 1..(MinOccurence - 1) :
                    Steady(strides, after, k + 1)
                    <=> Steady(strides, history, k) /\ d = LastMove(history)
<1> DEFINE after == Moved(history, line)
           n == Len(history)
           m == Len(after)
<1>1. n \in Nat /\ MinOccurence \in Nat /\ MinOccurence >= 2
  BY LenProperties, StrideAssumption
<1>2. /\ after \in Seq(Int)
      /\ m \in Nat
      /\ \/ m = n + 1
         \/ m = n /\ n > MinOccurence
      /\ Back(after, 0) = line
      /\ \A j \in 0..(m - 2) : Back(after, j + 1) = Back(history, j)
  BY MovedBack
<1> HIDE DEF after, m
<1>3. m >= 2
  BY <1>1, <1>2
<1>4. ToInt(Back(after, 0) - Back(after, 1)) = d
  <2>1. Back(after, 0 + 1) = Back(history, 0)
    BY <1>2, <1>3
  <2> QED
    BY <1>1, <1>2, <2>1 DEF Back
<1>5. after[Len(after)] = line /\ LastMove(after) = d
  <2>1. (m - 1) + 1 = m /\ m - 0 = m
    BY <1>2
  <2> QED
    BY <1>2, <1>4, <2>1 DEF Back, LastMove, MoveBy, m
<1>7. Steady(strides, after, 1) <=> d \in strides
  <2>1. \A stride : SteadyBy(after, 1, stride) <=> d = stride
    BY <1>4 DEF SteadyBy
  <2>2. Steady(strides, after, 1)
        <=> 1 < m /\ \E stride \in strides : SteadyBy(after, 1, stride)
    BY <1>2, SteadyFromTheEnd DEF m
  <2> QED
    BY <1>2, <1>3, <2>1, <2>2
<1>8. ASSUME NEW k \in 1..(MinOccurence - 1)
      PROVE  Steady(strides, after, k + 1)
             <=> Steady(strides, history, k) /\ d = LastMove(history)
  <2>1. k + 1 < m <=> k < n
    BY <1>1, <1>2
  <2>2. ASSUME k < n, NEW stride
        PROVE  SteadyBy(after, k + 1, stride)
               <=> SteadyBy(history, k, stride) /\ d = stride
    <3>1. \A j \in 0..(k - 1) :
            /\ Back(after, j + 1) = Back(history, j)
            /\ Back(after, (j + 1) + 1) = Back(history, j + 1)
      BY <1>1, <1>2, <2>2, SMTT(30)
    <3>2. ASSUME SteadyBy(after, k + 1, stride)
          PROVE  SteadyBy(history, k, stride) /\ d = stride
      <4>1. d = stride
        BY <1>4, <3>2 DEF SteadyBy
      <4>2. \A j \in 0..(k - 1) :
                ToInt(Back(after, j + 1) - Back(after, (j + 1) + 1)) = stride
        BY <3>2 DEF SteadyBy
      <4> QED
        BY <3>1, <4>1, <4>2 DEF SteadyBy
    <3>3. ASSUME SteadyBy(history, k, stride), d = stride
          PROVE  SteadyBy(after, k + 1, stride)
      <4> SUFFICES ASSUME NEW j \in 0..((k + 1) - 1)
                   PROVE  ToInt(Back(after, j) - Back(after, j + 1)) = stride
        BY DEF SteadyBy
      <4>1. CASE j = 0
        BY <1>4, <3>3, <4>1
      <4>2. CASE j # 0
        <5>1. j - 1 \in 0..(k - 1) /\ (j - 1) + 1 = j
          BY <4>2
        <5>2. ToInt(Back(history, j - 1) - Back(history, j)) = stride
          BY <3>3, <5>1 DEF SteadyBy
        <5> QED
          BY <3>1, <5>1, <5>2
      <4> QED
        BY <4>1, <4>2
    <3> QED
      BY <3>2, <3>3
  <2>3. ASSUME k < n, NEW stride, SteadyBy(history, k, stride)
        PROVE  LastMove(history) = stride
    <3>1. ToInt(Back(history, 0) - Back(history, 0 + 1)) = stride
      BY <2>3 DEF SteadyBy
    <3>2. Back(history, 0) = history[(n - 1) + 1] /\ Back(history, 0 + 1) = history[n - 1]
      BY <1>1 DEF Back
    <3> QED
      BY <3>1, <3>2 DEF LastMove, MoveBy
  <2>4. k \in Nat /\ k + 1 \in Nat
    BY <1>1
  <2>5. Steady(strides, after, k + 1)
        <=> k + 1 < m /\ \E stride \in strides : SteadyBy(after, k + 1, stride)
    BY <1>2, <2>4, SteadyFromTheEnd DEF m
  <2>6. Steady(strides, history, k)
        <=> k < n /\ \E stride \in strides : SteadyBy(history, k, stride)
    BY <2>4, SteadyFromTheEnd
  <2> QED
    BY <2>1, <2>2, <2>3, <2>5, <2>6
<1> QED
  BY <1>2, <1>3, <1>5, <1>7, <1>8 DEF after, m

------------------------------------------------------------------------------
(* What the counter of an entry says of the moves of its instruction *)

Counts(entry, history) ==
    /\ Len(history) > 0
    /\ history[Len(history)] = Line(entry.prevAdr)
    /\ Steady(CountedStrides, history, entry.occurence)
    /\ entry.occurence < MinOccurence - 1
       => ~Steady(CertainStrides, history, entry.occurence + 1)
    /\ entry.stride = IF entry.occurence = 0 THEN 0 ELSE LastMove(history)

CountsInv == \A ip \in DOMAIN table : Counts(table[ip], moves[ip])

IInv == Types /\ CountsInv /\ FollowsSteadyMoves

LEMMA CountsImplyOccurenceCounts == CountsInv => OccurenceCounts
BY DEF CountsInv, Counts, OccurenceCounts

\* What is known when an instruction moves to another line: d is by how much,
\* as an int.
Moving(ip, adr, d) ==
    /\ d \in Ints
    /\ Stride(ip, adr) = d
    /\ Len(moves'[ip]) > 0
    /\ moves'[ip][Len(moves'[ip])] = Line(adr)
    /\ LastMove(moves'[ip]) = d
    /\ moves'[ip] \in Seq(Int)
    /\ \A strides \in {CountedStrides, CertainStrides} :
        /\ Steady(strides, moves'[ip], 1) <=> d \in strides
        /\ \A k \in 1..(MinOccurence - 1) :
             Steady(strides, moves'[ip], k + 1)
             <=> Steady(strides, moves[ip], k) /\ d = LastMove(moves[ip])

LEMMA MoveProperties ==
    ASSUME Types, CountsInv, NEW ip \in Ips, NEW adr \in Addresses, Move(ip, adr)
    PROVE  Moving(ip, adr, Stride(ip, adr))
<1> DEFINE d == Stride(ip, adr)
           h == moves[ip]
           after == Moved(h, Line(adr))
<1>1. ip \in DOMAIN table /\ table[ip].prevAdr \in Addresses
  BY DEF Move, Known, Types, Entries
<1>2. Line(adr) \in Int /\ Line(table[ip].prevAdr) \in Int
  BY <1>1, AddressProperties
<1>3. d \in Ints
  BY <1>2, ToIntProperties DEF Stride
<1>4. h \in Seq(Int) /\ Len(h) > 0 /\ d = ToInt(Line(adr) - h[Len(h)])
  BY <1>1, HistoriesAreOfInts DEF Types, CountsInv, Counts, Stride
<1>5. moves'[ip] = after
  BY DEF Move, Moved, Types
<1> HIDE DEF d, h
<1>6. ASSUME NEW strides
      PROVE  /\ after \in Seq(Int)
             /\ Len(after) > 0
             /\ after[Len(after)] = Line(adr)
             /\ LastMove(after) = d
             /\ Steady(strides, after, 1) <=> d \in strides
             /\ \A k \in 1..(MinOccurence - 1) :
                  Steady(strides, after, k + 1)
                  <=> Steady(strides, h, k) /\ d = LastMove(h)
  BY <1>2, <1>4, SteadyMoved
<1> HIDE DEF after
<1> QED
  BY <1>3, <1>5, <1>6 DEF Moving, d, h

\* What the entry of an instruction and its history are before a call.
LEMMA EntryProperties ==
    ASSUME Types, CountsInv, NEW ip \in DOMAIN table
    PROVE  /\ table[ip] \in Entries
           /\ table[ip].occurence \in Nat
           /\ table[ip].occurence <= MinOccurence - 1
           /\ MinOccurence \in Nat /\ MinOccurence >= 2
           /\ moves[ip] \in Seq(Int)
           /\ Counts(table[ip], moves[ip])
<1>1. MinOccurence \in Nat /\ MinOccurence >= 2
  BY StrideAssumption
<1>2. table[ip] \in Entries /\ moves[ip] \in Seq(Int)
  BY HistoriesAreOfInts DEF Types
<1> QED
  BY <1>1, <1>2 DEF Entries, CountsInv

\* A run goes on: its length so far was counted, and the move is one more.  A
\* stride that is zero as an int may begin a run where no stride is set.
LEMMA RunGoesOn ==
    ASSUME Types, CountsInv, NEW ip \in DOMAIN table, NEW adr \in Addresses,
           NEW d, Moving(ip, adr, d), table[ip].stride = d
    PROVE  /\ Steady(CountedStrides, moves'[ip], table[ip].occurence + 1)
           /\ \A k \in 1..(MinOccurence - 1) :
                ~Steady(CertainStrides, moves[ip], k)
                => ~Steady(CertainStrides, moves'[ip], k + 1)
<1> DEFINE n == table[ip].occurence
<1>1. n \in Nat /\ n <= MinOccurence - 1 /\ MinOccurence \in Nat
  BY EntryProperties
<1>2. Steady(CountedStrides, moves[ip], n)
  BY EntryProperties DEF Counts
<1>3. CASE n = 0
  <2>1. d = 0
    BY <1>3, EntryProperties DEF Counts
  <2>2. Steady(CountedStrides, moves'[ip], 1)
    BY <2>1, StridesProperties DEF Moving
  <2> QED
    BY <1>3, <2>2 DEF Moving
<1>4. CASE n # 0
  <2>1. n \in 1..(MinOccurence - 1) /\ d = LastMove(moves[ip])
    BY <1>1, <1>4, EntryProperties DEF Counts
  <2>2. Steady(CountedStrides, moves'[ip], n + 1)
    BY <1>2, <2>1 DEF Moving
  <2> QED
    BY <2>2 DEF Moving
<1> QED
  BY <1>3, <1>4

\* SteadyStride: the run is minOccurence long, and the counter stays below.
LEMMA SteadyStrideCounts ==
    ASSUME Types, CountsInv, NEW ip \in Ips, NEW adr \in Addresses,
           SteadyStride(ip, adr)
    PROVE  /\ Counts(table'[ip], moves'[ip])
           /\ Steady(CountedStrides, moves'[ip], MinOccurence)
           /\ table[ip].stride = LastMove(moves'[ip])
           /\ table'[ip].prevAdr = adr
<1> DEFINE d == Stride(ip, adr)
           entry == table[ip]
           n == entry.occurence
           h2 == moves'[ip]
<1>1. ip \in DOMAIN table
  BY DEF SteadyStride, Move, Known
<1>2. Moving(ip, adr, d)
  BY MoveProperties DEF SteadyStride
<1>3. entry.stride = d /\ n + 1 = MinOccurence
  BY <1>2 DEF SteadyStride, Moving
<1>4. Steady(CountedStrides, h2, MinOccurence)
  BY <1>1, <1>2, <1>3, RunGoesOn
<1>5. n \in Nat /\ n >= 1 /\ MinOccurence \in Nat /\ n = MinOccurence - 1
      /\ entry \in Entries
  BY <1>1, <1>3, EntryProperties
<1>6. Steady(CountedStrides, h2, n)
  <2>1. n \in 0..MinOccurence
    BY <1>5
  <2> QED
    BY <1>2, <1>4, <1>5, <2>1, SteadyBefore DEF Moving
<1>7. /\ table'[ip].prevAdr = adr
      /\ table'[ip].stride = entry.stride
      /\ table'[ip].occurence = n
  <2> DEFINE toFetch == Beyond(adr, entry.stride)
             new == IsNewPrefetch(entry, toFetch)
  <2>1. table' = [table EXCEPT ![ip] =
                    [StillSteady(entry) EXCEPT
                        !.prevAdr = adr,
                        !.prevPrefetchedAdr = IF new THEN toFetch ELSE @]]
    BY DEF SteadyStride
  <2> HIDE DEF new, toFetch
  <2> QED
    BY <1>1, <1>5, <2>1 DEF Types, Entries, StillSteady
<1> QED
  BY <1>2, <1>3, <1>4, <1>5, <1>6, <1>7 DEF Counts, Moving

\* SameStride: the run is one longer, and still short of minOccurence.
LEMMA SameStrideCounts ==
    ASSUME Types, CountsInv, NEW ip \in Ips, NEW adr \in Addresses,
           SameStride(ip, adr)
    PROVE  /\ Counts(table'[ip], moves'[ip])
           /\ ~Steady(CertainStrides, moves'[ip], MinOccurence)
<1> DEFINE d == Stride(ip, adr)
           entry == table[ip]
           n == entry.occurence
           h2 == moves'[ip]
<1>1. ip \in DOMAIN table
  BY DEF SameStride, Move, Known
<1>2. Moving(ip, adr, d)
  BY MoveProperties DEF SameStride
<1>3. entry.stride = d /\ n + 1 # MinOccurence
  BY <1>2 DEF SameStride, Moving
<1>4. Steady(CountedStrides, h2, n + 1)
  BY <1>1, <1>2, <1>3, RunGoesOn
<1>5. n \in Nat /\ MinOccurence \in Nat /\ n < MinOccurence - 1
      /\ entry \in Entries /\ Counts(entry, moves[ip])
  BY <1>1, <1>3, EntryProperties
<1>6. ~Steady(CertainStrides, h2, (n + 1) + 1)
  <2>1. ~Steady(CertainStrides, moves[ip], n + 1)
    BY <1>5 DEF Counts
  <2>2. n + 1 \in 1..(MinOccurence - 1)
    BY <1>5
  <2> QED
    BY <1>1, <1>2, <1>3, <2>1, <2>2, RunGoesOn
<1>7. ~Steady(CertainStrides, h2, MinOccurence)
  <2>1. (n + 1) + 1 \in 0..MinOccurence
    BY <1>5
  <2> QED
    BY <1>2, <1>5, <1>6, <2>1, SteadyBefore DEF Moving
<1>8. /\ table'[ip].prevAdr = adr
      /\ table'[ip].stride = entry.stride
      /\ table'[ip].occurence = n + 1
  BY <1>1, <1>5 DEF SameStride, Types, Entries
<1> QED
  BY <1>2, <1>3, <1>4, <1>5, <1>6, <1>7, <1>8 DEF Counts, Moving

\* OtherStride: a run ends, and with a small stride another one begins.
LEMMA OtherStrideCounts ==
    ASSUME Types, CountsInv, NEW ip \in Ips, NEW adr \in Addresses,
           OtherStride(ip, adr)
    PROVE  /\ Counts(table'[ip], moves'[ip])
           /\ ~Steady(CertainStrides, moves'[ip], MinOccurence)
<1> DEFINE d == Stride(ip, adr)
           entry == table[ip]
           n == entry.occurence
           h2 == moves'[ip]
<1>1. ip \in DOMAIN table
  BY DEF OtherStride, Move, Known
<1>2. Moving(ip, adr, d)
  BY MoveProperties DEF OtherStride
<1>3. entry.stride # d
  BY <1>2 DEF OtherStride, Moving
<1>4. /\ n \in Nat /\ n <= MinOccurence - 1
      /\ MinOccurence \in Nat /\ MinOccurence >= 2
      /\ entry \in Entries
      /\ moves[ip] \in Seq(Int)
      /\ Counts(entry, moves[ip])
  BY <1>1, EntryProperties
<1>5. \A k \in 1..(MinOccurence - 1) : ~Steady(CertainStrides, h2, k + 1)
  <2> SUFFICES ASSUME NEW k \in 1..(MinOccurence - 1),
                      Steady(CertainStrides, h2, k + 1)
               PROVE  FALSE
    OBVIOUS
  <2>1. Steady(CertainStrides, moves[ip], k) /\ d = LastMove(moves[ip])
    BY <1>2 DEF Moving
  <2>2. n = 0
    BY <1>3, <1>4, <2>1 DEF Counts
  <2>3. ~Steady(CertainStrides, moves[ip], 1)
    BY <1>4, <2>2 DEF Counts
  <2>4. 1 \in 0..k /\ k \in Nat
    BY <1>4
  <2> QED
    BY <1>4, <2>1, <2>3, <2>4, SteadyBefore
<1>6. ~Steady(CertainStrides, h2, MinOccurence)
  <2>1. MinOccurence - 1 \in 1..(MinOccurence - 1)
        /\ (MinOccurence - 1) + 1 = MinOccurence
    BY <1>4
  <2> QED
    BY <1>5, <2>1
<1>7. MinOccurence - 1 > 1 => ~Steady(CertainStrides, h2, 1 + 1)
  BY <1>4, <1>5, SMTT(30)
<1>8. PICK absOfIntMin \in AbsOfIntMin :
        table' = [table EXCEPT ![ip] =
            [WithStride(@, Stride(ip, adr), IsSmall(Stride(ip, adr), absOfIntMin))
                EXCEPT !.prevAdr = adr]]
  BY DEF OtherStride
<1> DEFINE small == IsSmall(d, absOfIntMin)
<1>9. /\ small => d \in CountedStrides
      /\ ~small => d \notin CertainStrides
      /\ d \in Ints
  BY <1>2, StridesProperties DEF Moving
<1> HIDE DEF small
<1>10. /\ table'[ip].prevAdr = adr
       /\ table'[ip].stride = IF small THEN d ELSE 0
       /\ table'[ip].occurence = IF small THEN 1 ELSE 0
  <2> HIDE DEF d
  <2> QED
    BY <1>1, <1>4, <1>8 DEF Types, Entries, WithStride, small, d
<1>11. CASE small
  <2>1. Steady(CountedStrides, h2, 1)
    BY <1>2, <1>9, <1>11 DEF Moving
  <2> QED
    BY <1>2, <1>6, <1>7, <1>10, <1>11, <2>1 DEF Counts, Moving
<1>12. CASE ~small
  <2>1. Steady(CountedStrides, h2, 0) /\ ~Steady(CertainStrides, h2, 0 + 1)
    BY <1>2, <1>9, <1>12, NothingIsSteady, StridesProperties DEF Moving
  <2> QED
    BY <1>2, <1>6, <1>10, <1>12, <2>1 DEF Counts, Moving
<1> QED
  BY <1>11, <1>12

\* SameLine: nothing has moved.
LEMMA SameLineCounts ==
    ASSUME Types, CountsInv, NEW ip \in Ips, NEW adr \in Addresses,
           SameLine(ip, adr)
    PROVE  Counts(table'[ip], moves'[ip]) /\ moves' = moves
<1>1. ip \in DOMAIN table
  BY DEF SameLine, Known
<1>2. Counts(table[ip], moves[ip]) /\ table[ip] \in Entries
  BY <1>1, EntryProperties
<1>3. /\ table'[ip].prevAdr = adr
      /\ table'[ip].stride = table[ip].stride
      /\ table'[ip].occurence = table[ip].occurence
      /\ moves' = moves
      /\ Line(adr) = Line(table[ip].prevAdr)
  BY <1>1, <1>2 DEF SameLine, Types, Entries
<1> QED
  BY <1>2, <1>3 DEF Counts

\* All of what prefetch does for an instruction that has an entry.
LEMMA UpdateCounts ==
    ASSUME Types, CountsInv, NEW ip \in Ips, NEW adr \in Addresses,
           UpdateEntry(ip, adr)
    PROVE  CountsInv' /\ FollowsSteadyMoves'
<1>1. PICK entry \in Entries, history \in Histories, last \in SUBSET Words :
        Updated(ip, entry, history, last)
  BY UpdateStep
<1>2. /\ DOMAIN table' = DOMAIN table
      /\ \A other \in DOMAIN table \ {ip} :
            table'[other] = table[other] /\ moves'[other] = moves[other]
  BY <1>1 DEF Updated, Types
<1>3. Counts(table'[ip], moves'[ip])
  BY SameLineCounts, SteadyStrideCounts, SameStrideCounts, OtherStrideCounts
     DEF UpdateEntry
<1>4. CountsInv'
  BY <1>2, <1>3 DEF CountsInv
<1>5. FollowsSteadyMoves'
  <2>1. CASE SteadyStride(ip, adr)
    <3>1. \A p \in proposed' :
            p.ip = ip /\ p.adr = adr /\ p.toFetch = Beyond(adr, table[ip].stride)
      BY <2>1 DEF SteadyStride
    <3>2. /\ Steady(CountedStrides, moves'[ip], MinOccurence)
          /\ table[ip].stride = LastMove(moves'[ip])
      BY <2>1, SteadyStrideCounts
    <3> QED
      BY <3>1, <3>2 DEF FollowsSteadyMoves
  <2>2. CASE ~SteadyStride(ip, adr)
    BY <2>2 DEF UpdateEntry, SameLine, SameStride, OtherStride, FollowsSteadyMoves
  <2> QED
    BY <2>1, <2>2
<1> QED
  BY <1>4, <1>5

LEMMA InsertCounts ==
    ASSUME Types, CountsInv, NEW ip \in Ips, NEW adr \in Addresses,
           NEW gone \in SUBSET DOMAIN table, Insert(ip, adr, gone)
    PROVE  CountsInv' /\ FollowsSteadyMoves'
<1> DEFINE h == <<Line(adr)>>
           known == (DOMAIN table \ gone) \cup {ip}
<1>1. DOMAIN table' = known
  BY DEF Insert
<1>2. /\ table'[ip] = PredictionTableEntry(adr)
      /\ moves'[ip] = h
  BY DEF Insert
<1>3. \A other \in known \ {ip} :
        /\ other \in DOMAIN table
        /\ table'[other] = table[other]
        /\ moves'[other] = moves[other]
  BY DEF Insert, Types
<1>4. h \in Seq(Int) /\ Len(h) = 1 /\ h[1] = Line(adr)
  BY AddressProperties
<1> HIDE DEF h
<1>5. Steady(CountedStrides, h, 0) /\ ~Steady(CertainStrides, h, 1)
  <2>1. Steady(CountedStrides, h, 0)
    BY <1>4, NothingIsSteady, StridesProperties
  <2>2. Steady(CertainStrides, h, 1) => 1 < Len(h)
    BY DEF Steady
  <2> QED
    BY <1>4, <2>1, <2>2
<1>6. Counts(PredictionTableEntry(adr), h)
  BY <1>4, <1>5 DEF Counts, PredictionTableEntry
<1>7. CountsInv'
  BY <1>1, <1>2, <1>3, <1>6 DEF CountsInv
<1>8. FollowsSteadyMoves'
  BY DEF Insert, FollowsSteadyMoves
<1> QED
  BY <1>7, <1>8

LEMMA InitCounts == Init => IInv
<1> SUFFICES ASSUME Init PROVE IInv
  OBVIOUS
<1>1. DOMAIN table = {} /\ proposed = {}
  BY DEF Init
<1> QED
  BY <1>1, InitTypes DEF IInv, CountsInv, FollowsSteadyMoves

LEMMA CountsStep ==
    ASSUME IInv, [Next]_vars
    PROVE  IInv'
<1>1. Types /\ CountsInv /\ Types'
  BY TypesStep DEF IInv
<1>2. CASE UNCHANGED vars
  BY <1>1, <1>2 DEF IInv, vars, CountsInv, FollowsSteadyMoves
<1>3. ASSUME NEW ip \in Ips, NEW adr \in Addresses, UpdateEntry(ip, adr)
      PROVE  CountsInv' /\ FollowsSteadyMoves'
  BY <1>1, <1>3, UpdateCounts
<1>4. ASSUME NEW ip \in Ips, NEW adr \in Addresses,
             AddEntry(ip, adr) \/ ReplaceEntry(ip, adr)
      PROVE  CountsInv' /\ FollowsSteadyMoves'
  <2>1. PICK gone \in SUBSET DOMAIN table : Insert(ip, adr, gone)
    BY <1>4 DEF AddEntry, ReplaceEntry, Deletable
  <2> QED
    BY <1>1, <2>1, InsertCounts
<1>5. ASSUME NEW ip \in Ips, DeleteEnd(ip) \/ V1DeleteOneEntry(ip)
      PROVE  CountsInv' /\ FollowsSteadyMoves'
  BY <1>1, <1>5 DEF DeleteEnd, V1DeleteOneEntry, CountsInv, FollowsSteadyMoves
<1>6. CountsInv' /\ FollowsSteadyMoves'
  BY <1>2, <1>3, <1>4, <1>5, <1>1 DEF Next, Prefetch, V1Prefetch, IInv
<1> QED
  BY <1>1, <1>6 DEF IInv

LEMMA SpecIInv == Spec => []IInv
<1>1. IInv /\ [Next]_vars => IInv'
  BY CountsStep
<1> QED
  BY <1>1, InitCounts, PTL DEF Spec

\* The counter that prefetch and deleteOneEntry decide on is the length of the
\* run of equal strides, whatever the distances that are too long for one or
\* for an int, the entries deleted and the references within a line in between.
THEOREM CountersAreRuns == Spec => []OccurenceCounts
<1>1. IInv => OccurenceCounts
  BY CountsImplyOccurenceCounts DEF IInv
<1> QED
  BY <1>1, SpecIInv, PTL

\* Nothing is prefetched but the continuation of minOccurence equal moves.
THEOREM OnlySteadyMovesPrefetch == Spec => []FollowsSteadyMoves
<1>1. IInv => FollowsSteadyMoves
  BY DEF IInv
<1> QED
  BY <1>1, SpecIInv, PTL

------------------------------------------------------------------------------
(* What has been proposed *)

\* prevPrefetchedAdr is the last address proposed, unless that is 0.
AskedInv ==
    \A ip \in DOMAIN table :
        LET prev == table[ip].prevPrefetchedAdr
        IN  asked[ip] \subseteq {prev} /\ (prev # 0 => prev \in asked[ip])

\* What the two fields are after SteadyStride.
LEMMA SteadyStrideAsked ==
    ASSUME Types, NEW ip \in Ips, NEW adr \in Addresses, SteadyStride(ip, adr)
    PROVE  LET toFetch == Beyond(adr, table[ip].stride)
               new     == IsNewPrefetch(table[ip], toFetch)
           IN  /\ table'[ip].prevPrefetchedAdr =
                    IF new THEN toFetch ELSE table[ip].prevPrefetchedAdr
               /\ asked'[ip] = IF new THEN {toFetch} ELSE asked[ip]
               /\ table'[ip].prevAdr = adr
<1> DEFINE toFetch == Beyond(adr, table[ip].stride)
           new == IsNewPrefetch(table[ip], toFetch)
           last == IF new THEN toFetch ELSE table[ip].prevPrefetchedAdr
<1>1. ip \in DOMAIN table /\ table[ip] \in Entries
  BY DEF SteadyStride, Move, Known, Types
<1>2. table' = [table EXCEPT ![ip] =
                    [StillSteady(table[ip]) EXCEPT
                        !.prevAdr = adr,
                        !.prevPrefetchedAdr = IF new THEN toFetch ELSE @]]
  BY DEF SteadyStride
<1>3. asked' = [asked EXCEPT ![ip] = IF new THEN {toFetch} ELSE @]
  BY DEF SteadyStride
<1> HIDE DEF toFetch, new
<1>4. asked'[ip] = IF new THEN {toFetch} ELSE asked[ip]
  BY <1>3 DEF Types
<1>5. table'[ip].prevPrefetchedAdr = last /\ table'[ip].prevAdr = adr
  BY <1>1, <1>2 DEF Types, Entries, StillSteady
<1> QED
  BY <1>4, <1>5 DEF toFetch, new

LEMMA AskedStep ==
    ASSUME Types, AskedInv, [Next]_vars
    PROVE  AskedInv'
<1>1. CASE UNCHANGED vars
  BY <1>1 DEF vars, AskedInv
<1>2. ASSUME NEW ip \in Ips, NEW adr \in Addresses, UpdateEntry(ip, adr)
      PROVE  AskedInv'
  <2>1. PICK entry \in Entries, history \in Histories, last \in SUBSET Words :
            Updated(ip, entry, history, last)
    BY <1>2, UpdateStep
  <2>2. /\ DOMAIN table' = DOMAIN table
        /\ \A other \in DOMAIN table \ {ip} :
              table'[other] = table[other] /\ asked'[other] = asked[other]
    BY <2>1 DEF Updated, Types
  <2>3. ip \in DOMAIN table /\ table[ip] \in Entries
    BY <1>2, UpdateStep DEF Known, Types
  <2>4. CASE SteadyStride(ip, adr)
    <3> DEFINE toFetch == Beyond(adr, table[ip].stride)
               new == IsNewPrefetch(table[ip], toFetch)
    <3>1. /\ table'[ip].prevPrefetchedAdr =
                IF new THEN toFetch ELSE table[ip].prevPrefetchedAdr
          /\ asked'[ip] = IF new THEN {toFetch} ELSE asked[ip]
      BY <2>4, SteadyStrideAsked
    <3> HIDE DEF toFetch, new
    <3> QED
      BY <2>2, <2>3, <3>1 DEF AskedInv
  <2>5. CASE ~SteadyStride(ip, adr)
    <3>1. asked' = asked
      BY <1>2, <2>5 DEF UpdateEntry, SameLine, SameStride, OtherStride
    <3>2. table'[ip].prevPrefetchedAdr = table[ip].prevPrefetchedAdr
      <4>1. CASE SameLine(ip, adr)
        BY <2>3, <4>1 DEF SameLine, Types, Entries
      <4>2. CASE SameStride(ip, adr)
        BY <2>3, <4>2 DEF SameStride, Types, Entries
      <4>3. CASE OtherStride(ip, adr)
        <5>1. PICK absOfIntMin \in AbsOfIntMin :
                table' = [table EXCEPT ![ip] =
                    [WithStride(@, Stride(ip, adr),
                                IsSmall(Stride(ip, adr), absOfIntMin))
                        EXCEPT !.prevAdr = adr]]
          BY <4>3 DEF OtherStride
        <5> QED
          BY <2>3, <5>1 DEF WithStride, Types, Entries
      <4> QED
        BY <1>2, <2>5, <4>1, <4>2, <4>3 DEF UpdateEntry
    <3> QED
      BY <2>2, <2>3, <3>1, <3>2 DEF AskedInv
  <2> QED
    BY <2>4, <2>5
<1>3. ASSUME NEW ip \in Ips, NEW adr \in Addresses,
             AddEntry(ip, adr) \/ ReplaceEntry(ip, adr)
      PROVE  AskedInv'
  <2>1. PICK gone \in SUBSET DOMAIN table : Insert(ip, adr, gone)
    BY <1>3 DEF AddEntry, ReplaceEntry, Deletable
  <2>2. ip \in DOMAIN table' /\ table'[ip].prevPrefetchedAdr = 0 /\ asked'[ip] = {}
    BY <2>1 DEF Insert, PredictionTableEntry
  <2>3. \A other \in DOMAIN table' \ {ip} :
            /\ other \in DOMAIN table
            /\ table'[other] = table[other]
            /\ asked'[other] = asked[other]
    BY <2>1 DEF Insert, Types
  <2> QED
    BY <2>2, <2>3 DEF AskedInv
<1>4. ASSUME NEW ip \in Ips, DeleteEnd(ip) \/ V1DeleteOneEntry(ip)
      PROVE  AskedInv'
  BY <1>4 DEF DeleteEnd, V1DeleteOneEntry, AskedInv
<1> QED
  BY <1>1, <1>2, <1>3, <1>4 DEF Next, Prefetch, V1Prefetch

LEMMA SpecAsked == Spec => [](Types /\ AskedInv)
<1>1. Init => AskedInv
  BY DEF Init, AskedInv
<1>2. Types /\ AskedInv /\ [Next]_vars => Types' /\ AskedInv'
  BY AskedStep, TypesStep
<1> QED
  BY <1>1, <1>2, InitTypes, PTL DEF Spec

\* Every run of minOccurence equal moves is answered with its continuation, or
\* that was asked for before and prefetch leaves it out.
THEOREM SteadyMovesPrefetch == Spec => MissesNoSteadyMove
<1> DEFINE Answers ==
        \A ip \in Ips :
            moves'[ip] # moves[ip] /\ Steady(CertainStrides, moves'[ip], MinOccurence)
            => \/ \E p \in proposed' : p.ip = ip
               \/ Beyond(table'[ip].prevAdr, LastMove(moves'[ip])) \in asked[ip]
<1>1. ASSUME IInv, AskedInv, NEW ip \in Ips, NEW adr \in Addresses,
             UpdateEntry(ip, adr)
      PROVE  Answers
  <2>1. PICK entry \in Entries, history \in Histories, last \in SUBSET Words :
            Updated(ip, entry, history, last)
    BY <1>1, UpdateStep DEF IInv
  <2>2. \A other \in Ips \ {ip} : moves'[other] = moves[other]
    BY <1>1, <2>1 DEF Updated, IInv, Types
  <2>3. CASE SteadyStride(ip, adr)
    <3> DEFINE toFetch == Beyond(adr, table[ip].stride)
               new == IsNewPrefetch(table[ip], toFetch)
               prev == table[ip].prevPrefetchedAdr
    <3>1. /\ table'[ip].prevAdr = adr
          /\ table[ip].stride = LastMove(moves'[ip])
      BY <1>1, <2>3, SteadyStrideCounts DEF IInv
    <3>2. CASE new
      <4>1. [ip |-> ip, adr |-> adr, toFetch |-> toFetch] \in proposed'
        BY <2>3, <3>2 DEF SteadyStride
      <4>2. \E p \in proposed' : p.ip = ip
        BY <4>1
      <4> QED
        BY <2>2, <4>2
    <3>3. CASE ~new
      <4>1. prev # 0 /\ toFetch = prev
        BY <3>3 DEF IsNewPrefetch
      <4>2. prev \in asked[ip]
        BY <1>1, <2>3, <4>1 DEF AskedInv, SteadyStride, Move, Known
      <4> QED
        BY <2>2, <3>1, <4>1, <4>2
    <3> QED
      BY <3>2, <3>3
  <2>4. CASE ~SteadyStride(ip, adr)
    <3>1. moves'[ip] = moves[ip] \/ ~Steady(CertainStrides, moves'[ip], MinOccurence)
      BY <1>1, <2>4, SameStrideCounts, OtherStrideCounts
         DEF UpdateEntry, SameLine, IInv
    <3> QED
      BY <2>2, <3>1
  <2> QED
    BY <2>3, <2>4
<1>2. ASSUME NEW ip \in Ips, NEW adr \in Addresses, NEW gone,
             Insert(ip, adr, gone)
      PROVE  Answers
  <2>1. MinOccurence \in Nat /\ MinOccurence >= 2
    BY StrideAssumption
  <2>2. Len(<<Line(adr)>>) = 1 /\ Len(<< >>) = 0
    OBVIOUS
  <2>3. /\ ~Steady(CertainStrides, <<Line(adr)>>, MinOccurence)
        /\ ~Steady(CertainStrides, << >>, MinOccurence)
    BY <2>1, <2>2 DEF Steady
  <2>4. \A k \in Ips : \/ moves'[k] = <<Line(adr)>>
                       \/ moves'[k] = << >>
                       \/ moves'[k] = moves[k]
    BY <1>2 DEF Insert
  <2> QED
    BY <2>3, <2>4
<1>3. ASSUME IInv, AskedInv, Next
      PROVE  Answers
  <2>1. ASSUME NEW ip \in Ips, DeleteEnd(ip) \/ V1DeleteOneEntry(ip)
        PROVE  Answers
    BY <2>1 DEF DeleteEnd, V1DeleteOneEntry
  <2>2. ASSUME NEW ip \in Ips, NEW adr \in Addresses,
               AddEntry(ip, adr) \/ ReplaceEntry(ip, adr)
        PROVE  Answers
    BY <1>2, <2>2 DEF AddEntry, ReplaceEntry
  <2> HIDE DEF Answers
  <2> QED
    BY <1>1, <1>3, <2>1, <2>2 DEF Next, Prefetch, V1Prefetch
<1>4. IInv /\ AskedInv /\ [Next]_vars => [Answers]_vars
  BY <1>3
<1> QED
  BY <1>4, SpecIInv, SpecAsked, PTL DEF Spec, MissesNoSteadyMove

=============================================================================
