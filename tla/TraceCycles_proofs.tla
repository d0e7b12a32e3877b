-------------------------- MODULE TraceCycles_proofs --------------------------
(***************************************************************************)
(* What the two versions of memtrace.cpp have in common, for any threads,  *)
(* programs and cost files: what the folds of the model compute (the sum   *)
(* of the cycles sent, the table of costs a file leaves), and what each    *)
(* step preserves.                                                         *)
(*                                                                         *)
(* The facts about folds are proved by a least counterexample: a set of    *)
(* naturals that is not empty has a least element.                         *)
(***************************************************************************)
EXTENDS TraceCycles, SequenceTheorems, FiniteSetTheorems,
        WellFoundedInduction, TLAPS

------------------------------------------------------------------------------
(* Induction, and the existence of folds.                                  *)

LEMMA LeastNatural ==
    ASSUME NEW T, T \subseteq Nat, T # {}
    PROVE  \E n \in T : \A m \in T : n <= m
<1> DEFINE R == {pair \in Nat \X Nat : pair[1] < pair[2]}
<1>1. IsWellFoundedOn(R, Nat)
  BY NatLessThanWellFounded DEF OpToRel
<1>2. \E n \in T : \A m \in T : <<m, n>> \notin R
  <2> HIDE DEF R
  <2> QED
    BY <1>1, WFMin
<1>3. PICK n \in T : \A m \in T : <<m, n>> \notin R
  BY <1>2
<1>4. \A m \in T : n <= m
  <2> TAKE m \in T
  <2>1. <<m, n>> \notin R
    BY <1>3
  <2>2. m \in Nat /\ n \in Nat
    OBVIOUS
  <2>3. ~(m < n)
    BY <2>1, <2>2
  <2> QED
    BY <2>2, <2>3
<1> QED
  BY <1>4

\* A family of subsets of a finite set has a member with none below it.
LEMMA SmallestSubset ==
    ASSUME NEW D, IsFiniteSet(D), NEW F, F \subseteq SUBSET D, F # {}
    PROVE  \E s \in F : \A x \in s : s \ {x} \notin F
<1> DEFINE T == {Cardinality(s) : s \in F}
<1>1. \A s \in F : IsFiniteSet(s) /\ Cardinality(s) \in Nat
  BY FS_Subset, FS_CardinalityType
<1>2. T \subseteq Nat /\ T # {}
  BY <1>1
<1>3. PICK n \in T : \A m \in T : n <= m
  BY <1>2, LeastNatural
<1>4. PICK s \in F : n = Cardinality(s)
  BY <1>3
<1>5. ASSUME NEW x \in s, s \ {x} \in F
      PROVE  FALSE
  <2>1. Cardinality(s \ {x}) = Cardinality(s) - 1
    BY <1>1, FS_RemoveElement
  <2>2. Cardinality(s \ {x}) \in T
    BY <1>5
  <2> HIDE DEF T
  <2>3. n <= Cardinality(s \ {x})
    BY <1>3, <2>2
  <2>4. Cardinality(s) \in Nat
    BY <1>1
  <2> QED
    BY <1>4, <2>1, <2>3, <2>4
<1> QED
  BY <1>4, <1>5

\* g folds the values of Op over the subsets of D, each element taken in the
\* order of the choices pick.
Folds(g, D, pick, base, Op) ==
    \A s \in SUBSET D :
        g[s] = IF s = {} THEN base ELSE Op[pick[s], g[s \ {pick[s]}]]

IsPick(pick, D) == \A s \in SUBSET D : s # {} => pick[s] \in s

\* ... and up to the size n.
FoldsUpTo(g, n, D, pick, base, Op) ==
    \A s \in SUBSET D :
        Cardinality(s) <= n =>
            g[s] = IF s = {} THEN base ELSE Op[pick[s], g[s \ {pick[s]}]]

LEMMA FoldExists ==
    ASSUME NEW D, IsFiniteSet(D), NEW pick, IsPick(pick, D),
           NEW V, NEW base \in V, NEW Op \in [D \X V -> V]
    PROVE  \E g \in [SUBSET D -> V] : Folds(g, D, pick, base, Op)
<1> DEFINE Exists(n) ==
        \E g \in [SUBSET D -> V] : FoldsUpTo(g, n, D, pick, base, Op)
    T == {n \in Nat : ~Exists(n)}
<1>1. \A s \in SUBSET D : IsFiniteSet(s) /\ Cardinality(s) \in 0..Cardinality(D)
  BY FS_Subset, FS_CardinalityType
<1>2. Cardinality(D) \in Nat
  BY FS_CardinalityType
<1>3. Exists(0)
  <2> DEFINE g == [s \in SUBSET D |-> base]
  <2>1. g \in [SUBSET D -> V]
    OBVIOUS
  <2>2. \A s \in SUBSET D : Cardinality(s) <= 0 => s = {}
    BY <1>1, FS_EmptySet
  <2>3. FoldsUpTo(g, 0, D, pick, base, Op)
    BY <2>2 DEF FoldsUpTo
  <2> QED
    BY <2>1, <2>3
<1>4. ASSUME NEW n \in Nat, Exists(n)
      PROVE  Exists(n + 1)
  <2>1. PICK g \in [SUBSET D -> V] : FoldsUpTo(g, n, D, pick, base, Op)
    BY <1>4
  <2> DEFINE h == [s \in SUBSET D |->
                      IF s = {} THEN base ELSE Op[pick[s], g[s \ {pick[s]}]]]
  <2>2. h \in [SUBSET D -> V]
    <3>1. ASSUME NEW s \in SUBSET D, s # {}
          PROVE  Op[pick[s], g[s \ {pick[s]}]] \in V
      <4>1. pick[s] \in D /\ s \ {pick[s]} \in SUBSET D
        BY <3>1 DEF IsPick
      <4>2. g[s \ {pick[s]}] \in V
        BY <4>1
      <4>3. <<pick[s], g[s \ {pick[s]}]>> \in D \X V
        BY <4>1, <4>2
      <4> QED
        BY <4>3
    <3> QED
      BY <3>1
  <2>3. ASSUME NEW s \in SUBSET D, Cardinality(s) <= n
        PROVE  h[s] = g[s]
    BY <2>1, <2>3 DEF FoldsUpTo
  <2>4. ASSUME NEW s \in SUBSET D, Cardinality(s) <= n + 1, s # {}
        PROVE  h[s \ {pick[s]}] = g[s \ {pick[s]}]
    <3>1. pick[s] \in s
      BY <2>4 DEF IsPick
    <3>2. s \ {pick[s]} \in SUBSET D
      OBVIOUS
    <3>3. Cardinality(s \ {pick[s]}) <= n
      BY <1>1, <2>4, <3>1, FS_RemoveElement
    <3> QED
      BY <2>3, <3>2, <3>3
  <2>5. FoldsUpTo(h, n + 1, D, pick, base, Op)
    BY <2>4 DEF FoldsUpTo
  <2> QED
    BY <2>2, <2>5
<1>5. Exists(Cardinality(D))
  <2>1. SUFFICES ASSUME Cardinality(D) \in T PROVE FALSE
    BY <1>2
  <2>2. PICK n \in T : \A m \in T : n <= m
    <3> HIDE DEF Exists
    <3>1. T \subseteq Nat /\ T # {}
      BY <2>1
    <3> HIDE DEF T
    <3> QED
      BY <3>1, LeastNatural
  <2>3. n \in Nat /\ ~Exists(n)
    BY <2>2
  <2>4. n # 0
    BY <1>3, <2>3
  <2> HIDE DEF Exists
  <2>5. n - 1 \in Nat /\ n - 1 \notin T
    BY <2>2, <2>3, <2>4
  <2>6. Exists(n - 1)
    BY <2>5
  <2>7. Exists((n - 1) + 1)
    BY <1>4, <2>5, <2>6
  <2> QED
    BY <2>3, <2>7
<1>6. PICK g \in [SUBSET D -> V] : FoldsUpTo(g, Cardinality(D), D, pick, base, Op)
  BY <1>5
<1>7. Folds(g, D, pick, base, Op)
  <2>1. \A s \in SUBSET D : Cardinality(s) <= Cardinality(D)
    BY <1>1, <1>2
  <2> QED
    BY <1>6, <2>1, Zenon DEF Folds, FoldsUpTo
<1> QED
  BY <1>7

------------------------------------------------------------------------------
(* The sum of the cycles sent.                                             *)

SumOf(messages) ==
    FoldSeq(LAMBDA message, sum : message.cycles + sum, 0, messages)

\* What SumOf computes, for each part of the messages: in whatever order.
Sums(g, messages) ==
    /\ g \in [SUBSET DOMAIN messages -> Nat]
    /\ g[{}] = 0
    /\ \A d \in SUBSET DOMAIN messages :
        \A x \in d : g[d] = g[d \ {x}] + messages[x].cycles

LEMMA SumFolds ==
    ASSUME NEW m, IsFiniteSet(DOMAIN m), \A i \in DOMAIN m : m[i].cycles \in Nat
    PROVE  \E g : Sums(g, m) /\ SumOf(m) = g[DOMAIN m]
<1> DEFINE D == DOMAIN m
           pick == [d \in SUBSET D |-> CHOOSE x \in d : TRUE]
           Op == [p \in D \X Nat |-> m[p[1]].cycles + p[2]]
           Step(f) == [d \in SUBSET D |->
                          IF d = {} THEN 0
                          ELSE m[CHOOSE x \in d : TRUE].cycles
                               + f[d \ {CHOOSE x \in d : TRUE}]]
           f == CHOOSE f : f = Step(f)
<1>1. SumOf(m) = f[D]
  BY DEF SumOf, FoldSeq, FoldFunction, FoldFunctionOnSet, MapThenFoldSet
<1>2. IsPick(pick, D)
  BY DEF IsPick
<1>3. Op \in [D \X Nat -> Nat]
  OBVIOUS
<1>4. \E g \in [SUBSET D -> Nat] : Folds(g, D, pick, 0, Op)
  <2> HIDE DEF D, pick, Op
  <2> QED
    BY <1>2, <1>3, FoldExists DEF D
<1>5. PICK g \in [SUBSET D -> Nat] : Folds(g, D, pick, 0, Op)
  BY <1>4
<1>6. \A d \in SUBSET D :
        g[d] = IF d = {} THEN 0
               ELSE m[CHOOSE x \in d : TRUE].cycles
                    + g[d \ {CHOOSE x \in d : TRUE}]
  <2> TAKE d \in SUBSET D
  <2>1. CASE d = {}
    BY <1>5, <2>1 DEF Folds
  <2>2. CASE d # {}
    <3> DEFINE c == CHOOSE x \in d : TRUE
    <3>1. c \in d /\ pick[d] = c
      BY <2>2
    <3>2. d \ {c} \in SUBSET D
      OBVIOUS
    <3>3. g[d] = Op[c, g[d \ {c}]]
      <4> HIDE DEF c, Op
      <4> QED
        BY <1>5, <2>2, <3>1 DEF Folds
    <3> HIDE DEF c
    <3>4. <<c, g[d \ {c}]>> \in D \X Nat
      BY <3>1, <3>2
    <3>5. g[d] = m[c].cycles + g[d \ {c}]
      BY <3>3, <3>4
    <3> QED
      BY <2>2, <3>5 DEF c
  <2> QED
    BY <2>1, <2>2
<1>7. g = Step(g)
  BY <1>6
<1>8. f = Step(f)
  BY <1>7
<1> HIDE DEF f
<1>9. \A d \in SUBSET D : f[d] = g[d]
  <2> DEFINE F == {d \in SUBSET D : f[d] # g[d]}
  <2>1. SUFFICES ASSUME F # {} PROVE FALSE
    OBVIOUS
  <2>2. PICK d \in F : \A x \in d : d \ {x} \notin F
    <3>1. F \subseteq SUBSET D
      OBVIOUS
    <3> HIDE DEF F
    <3> QED
      BY <2>1, <3>1, SmallestSubset
  <2>3. d \in SUBSET D /\ f[d] # g[d]
    OBVIOUS
  <2>4. f[d] = IF d = {} THEN 0
               ELSE m[CHOOSE x \in d : TRUE].cycles
                    + f[d \ {CHOOSE x \in d : TRUE}]
    BY <1>8, <2>3
  <2>5. d # {}
    BY <1>6, <2>3, <2>4
  <2> DEFINE c == CHOOSE x \in d : TRUE
  <2>6. c \in d
    BY <2>5
  <2>7. f[d \ {c}] = g[d \ {c}]
    BY <2>2, <2>6
  <2> QED
    BY <1>6, <2>3, <2>4, <2>5, <2>7
<1>10. \A d \in SUBSET D : \A x \in d : g[d] = g[d \ {x}] + m[x].cycles
  <2> DEFINE F == {d \in SUBSET D : \E x \in d : g[d] # g[d \ {x}] + m[x].cycles}
  <2>1. SUFFICES ASSUME F # {} PROVE FALSE
    OBVIOUS
  <2>2. PICK d \in F : \A x \in d : d \ {x} \notin F
    <3>1. F \subseteq SUBSET D
      OBVIOUS
    <3> HIDE DEF F
    <3> QED
      BY <2>1, <3>1, SmallestSubset
  <2>3. d \in SUBSET D
    OBVIOUS
  <2>4. PICK x \in d : g[d] # g[d \ {x}] + m[x].cycles
    BY <2>2
  <2> DEFINE c == CHOOSE y \in d : TRUE
  <2>5. c \in d /\ d # {}
    BY <2>4
  <2>6. g[d] = m[c].cycles + g[d \ {c}]
    BY <1>6, <2>3, <2>5
  <2> HIDE DEF c
  <2>7. x # c
    <3>1. SUFFICES ASSUME x = c PROVE FALSE
      OBVIOUS
    <3>2. d \ {c} \in SUBSET D /\ c \in D
      BY <2>3, <2>5
    <3>3. m[c].cycles \in Nat /\ g[d \ {c}] \in Nat
      BY <3>2
    <3> DEFINE a == m[c].cycles
               rest == g[d \ {c}]
    <3>4. a + rest # rest + a
      BY <2>4, <2>6, <3>1
    <3>5. a \in Nat /\ rest \in Nat
      BY <3>3
    <3> HIDE DEF a, rest
    <3> QED
      BY <3>4, <3>5
  <2>8. d \ {c} \in SUBSET D /\ d \ {x} \in SUBSET D /\ (d \ {c}) \ {x} \in SUBSET D
    BY <2>3
  <2>9. g[d \ {c}] = g[(d \ {c}) \ {x}] + m[x].cycles
    BY <2>2, <2>5, <2>7, <2>8
  <2>10. g[d \ {x}] = g[(d \ {x}) \ {c}] + m[c].cycles
    <3>1. d \ {x} \notin F /\ c \in d \ {x}
      BY <2>2, <2>5, <2>7
    <3> QED
      BY <2>8, <3>1
  <2>11. (d \ {x}) \ {c} = (d \ {c}) \ {x}
    OBVIOUS
  <2>12. /\ m[c].cycles \in Nat
         /\ m[x].cycles \in Nat
         /\ g[(d \ {c}) \ {x}] \in Nat
    BY <2>3, <2>5, <2>8
  <2> DEFINE a == m[c].cycles
             b == m[x].cycles
             rest == g[(d \ {c}) \ {x}]
  <2>13. g[d] = a + (rest + b) /\ g[d \ {x}] = rest + a
    BY <2>6, <2>9, <2>10, <2>11
  <2>14. a \in Nat /\ b \in Nat /\ rest \in Nat
    BY <2>12
  <2>15. g[d] # g[d \ {x}] + b
    BY <2>4
  <2> HIDE DEF a, b, rest
  <2> QED
    BY <2>13, <2>14, <2>15
<1>11. g[{}] = 0
  BY <1>6
<1>12. Sums(g, m)
  <2> HIDE DEF Step, Op, pick
  <2> QED
    BY <1>10, <1>11 DEF Sums
<1>13. SumOf(m) = g[DOMAIN m]
  <2> HIDE DEF Step, Op, pick
  <2>1. f[D] = g[D]
    BY <1>9
  <2> QED
    BY <1>1, <2>1 DEF D
<1> QED
  BY <1>12, <1>13

LEMMA SumOfEmpty == SumOf(<< >>) = 0
<1> DEFINE m == << >>
<1>1. DOMAIN m = {}
  BY EmptySeq
<1>2. PICK g : Sums(g, m) /\ SumOf(m) = g[DOMAIN m]
  BY <1>1, SumFolds, FS_EmptySet
<1> QED
  BY <1>1, <1>2 DEF Sums

LEMMA SumOfAppend ==
    ASSUME NEW S, NEW m \in Seq(S), NEW new \in S,
           \A i \in 1..Len(m) : m[i].cycles \in Nat, new.cycles \in Nat
    PROVE  SumOf(Append(m, new)) = SumOf(m) + new.cycles /\ SumOf(m) \in Nat
<1> DEFINE long == Append(m, new)
           n == Len(m)
<1>1. n \in Nat /\ DOMAIN m = 1..n
  BY LenProperties
<1>2. /\ DOMAIN long = 1..(n + 1)
      /\ \A i \in 1..n : long[i] = m[i]
      /\ long[n + 1] = new
  BY AppendProperties
<1> HIDE DEF long, n
<1>3. \A i \in 1..(n + 1) : long[i].cycles \in Nat
  BY <1>1, <1>2 DEF n
<1>4. IsFiniteSet(1..n) /\ IsFiniteSet(1..(n + 1))
  BY <1>1, FS_Interval
<1>5. PICK g : Sums(g, m) /\ SumOf(m) = g[DOMAIN m]
  BY <1>1, <1>4, SumFolds DEF n
<1>6. PICK h : Sums(h, long) /\ SumOf(long) = h[DOMAIN long]
  BY <1>2, <1>3, <1>4, SumFolds
<1>7. \A d \in SUBSET (1..n) : h[d] = g[d]
  <2> DEFINE F == {d \in SUBSET (1..n) : h[d] # g[d]}
  <2>1. SUFFICES ASSUME F # {} PROVE FALSE
    OBVIOUS
  <2>2. PICK d \in F : \A x \in d : d \ {x} \notin F
    <3>1. F \subseteq SUBSET (1..n)
      OBVIOUS
    <3> HIDE DEF F
    <3> QED
      BY <1>4, <2>1, <3>1, SmallestSubset
  <2>3. d # {}
    BY <1>5, <1>6 DEF Sums
  <2>4. PICK x \in d : TRUE
    BY <2>3
  <2>5. h[d \ {x}] = g[d \ {x}]
    BY <2>2, <2>4
  <2>6. g[d] = g[d \ {x}] + m[x].cycles
    BY <1>1, <1>5, <2>2, <2>4 DEF Sums
  <2>7. h[d] = h[d \ {x}] + long[x].cycles
    <3>1. d \in SUBSET DOMAIN long
      BY <1>1, <1>2, <2>2
    <3> QED
      BY <1>6, <2>4, <3>1 DEF Sums
  <2>8. long[x] = m[x]
    BY <1>2, <2>4
  <2> QED
    BY <2>2, <2>5, <2>6, <2>7, <2>8
<1>8. h[1..(n + 1)] = h[(1..(n + 1)) \ {n + 1}] + new.cycles
  <2> DEFINE all == 1..(n + 1)
  <2>1. n + 1 \in all
    BY <1>1
  <2> HIDE DEF all
  <2>2. h[all] = h[all \ {n + 1}] + long[n + 1].cycles
    <3>1. all \in SUBSET DOMAIN long
      BY <1>2 DEF all
    <3> QED
      BY <1>6, <2>1, <3>1 DEF Sums
  <2> QED
    BY <1>2, <2>2 DEF all
<1>9. (1..(n + 1)) \ {n + 1} = 1..n
  BY <1>1
<1>10. SumOf(long) = SumOf(m) + new.cycles
  BY <1>1, <1>2, <1>5, <1>6, <1>7, <1>8, <1>9
<1>11. SumOf(m) \in Nat
  BY <1>1, <1>5 DEF Sums
<1> QED
  BY <1>10, <1>11 DEF long

------------------------------------------------------------------------------
(* The table a file leaves.                                                *)

CategoryNames == UNION Range(DefaultCategories)

FileLines ==
    {Comment} \cup [name : STRING, cost : Nat \cup {NoNumber, NotANumber}]

Costs == UNION {[names -> Nat] : names \in SUBSET CategoryNames}

CostTables == [costs : Costs, hit : Nat, miss : Nat]

NothingRead(junk) ==
    [table |-> [costs |-> << >>, hit |-> 0, miss |-> 0], cost |-> junk]

Reads == [table : CostTables, cost : Nat]

LEMMA CategoryNamesProperties ==
    /\ "INVALID" \in CategoryNames
    /\ "CACHE_HIT" \notin CategoryNames
    /\ "CACHE_MISS" \notin CategoryNames
<1>1. DOMAIN DefaultCategories = 1..9
  BY DEF DefaultCategories
<1>2. \A c : c \in CategoryNames <=> \E n \in 1..9 : c \in DefaultCategories[n]
  BY <1>1 DEF CategoryNames, Range
<1>3. "INVALID" \in DefaultCategories[7]
  BY DEF DefaultCategories
<1>4. \A n \in 1..9 : "CACHE_HIT" \notin DefaultCategories[n]
  BY DEF DefaultCategories
<1>5. \A n \in 1..9 : "CACHE_MISS" \notin DefaultCategories[n]
  BY DEF DefaultCategories
<1> QED
  BY <1>2, <1>3, <1>4, <1>5

LEMMA DefaultTableType == DefaultTable \in CostTables
<1>1. DOMAIN DefaultCategories = 1..9
  BY DEF DefaultCategories
<1>2. \A c : c \in CategoryNames <=> \E n \in 1..9 : c \in DefaultCategories[n]
  BY <1>1 DEF CategoryNames, Range
<1>3. DefaultTable.costs \in [CategoryNames -> Nat]
  <2>1. \A c \in CategoryNames :
          (CHOOSE n \in DOMAIN DefaultCategories : c \in DefaultCategories[n]) \in Nat
    BY <1>1, <1>2
  <2> QED
    BY <2>1 DEF DefaultTable, CategoryNames
<1>4. DefaultTable.costs \in Costs
  BY <1>3 DEF Costs
<1> QED
  BY <1>4 DEF DefaultTable, CostTables

LEMMA AssignType ==
    ASSUME NEW table \in CostTables, NEW name \in STRING, NEW cost \in Nat
    PROVE  Assign(table, name, cost) \in CostTables
<1> DEFINE new == AssignCost(table.costs, CategoryOf(name), cost)
<1>1. CategoryOf(name) \in CategoryNames
  BY CategoryNamesProperties DEF CategoryOf, CategoryNames
<1>2. PICK names \in SUBSET CategoryNames : table.costs \in [names -> Nat]
  BY DEF CostTables, Costs
<1>3. new \in [{CategoryOf(name)} \cup names -> Nat]
  BY <1>2 DEF AssignCost
<1>4. new \in Costs
  BY <1>1, <1>3 DEF Costs
<1> HIDE DEF new
<1>5. [table EXCEPT !.costs = new] \in CostTables
  BY <1>4 DEF CostTables
<1>6. [table EXCEPT !.hit = cost] \in CostTables
  BY DEF CostTables
<1>7. [table EXCEPT !.miss = cost] \in CostTables
  BY DEF CostTables
<1>8. Assign(table, name, cost) =
        CASE name = "CACHE_HIT" -> [table EXCEPT !.hit = cost]
          [] name = "CACHE_MISS" -> [table EXCEPT !.miss = cost]
          [] OTHER -> [table EXCEPT !.costs = new]
  BY DEF Assign, new
<1> QED
  BY <1>5, <1>6, <1>7, <1>8

LEMMA ReadLineType ==
    ASSUME NEW read \in Reads, NEW line \in FileLines
    PROVE  ReadLine(read, line) \in Reads
<1>1. CASE line = Comment
  BY <1>1 DEF ReadLine
<1>2. CASE line # Comment
  <2>1. line.name \in STRING /\ line.cost \in Nat \cup {NoNumber, NotANumber}
    BY <1>2 DEF FileLines
  <2>2. read.table \in CostTables /\ read.cost \in Nat
    BY DEF Reads
  <2>3. CostIn(line, read.cost) \in Nat
    BY <2>1, <2>2 DEF CostIn
  <2>4. Assign(read.table, line.name, CostIn(line, read.cost)) \in CostTables
    BY <2>1, <2>2, <2>3, AssignType
  <2> QED
    BY <1>2, <2>3, <2>4 DEF ReadLine, Reads
<1> QED
  BY <1>1, <1>2

LEMMA NothingReadType ==
    ASSUME NEW junk \in Nat
    PROVE  NothingRead(junk) \in Reads
<1>1. << >> \in [{} -> Nat]
  OBVIOUS
<1>2. << >> \in Costs
  BY <1>1 DEF Costs
<1> QED
  BY <1>2 DEF NothingRead, Reads, CostTables

LEMMA MaxProperties ==
    ASSUME NEW n \in Nat, NEW d \in SUBSET (1..n), d # {}
    PROVE  Max(d) \in d /\ \A y \in d : y <= Max(d)
<1> DEFINE T == {n - x : x \in d}
<1>1. T \subseteq Nat /\ T # {}
  <2>1. \A x \in d : n - x \in Nat
    OBVIOUS
  <2> QED
    BY <2>1
<1>2. PICK a \in T : \A b \in T : a <= b
  <2> HIDE DEF T
  <2> QED
    BY <1>1, LeastNatural
<1>3. PICK x \in d : a = n - x
  BY <1>2
<1>4. \A y \in d : x >= y
  <2> TAKE y \in d
  <2>1. n - y \in T
    OBVIOUS
  <2> HIDE DEF T
  <2> QED
    BY <1>2, <1>3, <2>1
<1>5. \E y \in d : \A z \in d : y >= z
  BY <1>4
<1>6. Max(d) \in d /\ \A y \in d : Max(d) >= y
  BY <1>5, Zenon DEF Max
<1> QED
  BY <1>6

\* g[k] is what was read of the first k lines of the file.
ReadsInOrder(g, file, junk) ==
    /\ g \in [0..Len(file) -> Reads]
    /\ g[0] = NothingRead(junk)
    /\ \A k \in 0..(Len(file) - 1) : g[k + 1] = ReadLine(g[k], file[k + 1])

LEMMA LinesAreReadInOrder ==
    ASSUME NEW file \in Seq(FileLines), NEW junk \in Nat
    PROVE  \E g : /\ ReadsInOrder(g, file, junk)
                  /\ TableFromFile(file, junk) = g[Len(file)].table
<1> DEFINE D == 1..Len(file)
           base == NothingRead(junk)
           pick == [d \in SUBSET D |-> Max(d)]
           Op == [p \in D \X Reads |-> ReadLine(p[2], file[p[1]])]
           Step(f) == [d \in SUBSET D |->
                          IF d = {} THEN base
                          ELSE ReadLine(f[d \ {Max(d)}], file[Max(d)])]
           f == CHOOSE f : f = Step(f)
<1>1. /\ Len(file) \in Nat
      /\ DOMAIN file = D
      /\ \A i \in D : file[i] \in FileLines
  BY LenProperties, ElementOfSeq
<1>2. TableFromFile(file, junk) = f[D].table
  <2>1. TableFromFile(file, junk) =
            (CHOOSE g : g = [d \in SUBSET DOMAIN file |->
                          IF d = {} THEN NothingRead(junk)
                          ELSE ReadLine(g[d \ {Max(d)}], file[Max(d)])])
                [DOMAIN file].table
    BY DEF TableFromFile, FoldLeft, MapThenFoldSet, NothingRead
  <2> QED
    BY <1>1, <2>1
<1>3. IsPick(pick, D)
  BY <1>1, MaxProperties DEF IsPick
<1>4. base \in Reads
  BY NothingReadType
<1>5. Op \in [D \X Reads -> Reads]
  BY <1>1, ReadLineType
<1>6. IsFiniteSet(D)
  BY <1>1, FS_Interval
<1>7. PICK h \in [SUBSET D -> Reads] : Folds(h, D, pick, base, Op)
  <2> HIDE DEF D, pick, base, Op
  <2> QED
    BY <1>3, <1>4, <1>5, <1>6, FoldExists
<1>8. ASSUME NEW d \in SUBSET D, d # {}
      PROVE  h[d] = ReadLine(h[d \ {Max(d)}], file[Max(d)])
  <2> DEFINE m == Max(d)
  <2>1. m \in D /\ pick[d] = m
    BY <1>1, <1>8, MaxProperties
  <2>2. d \ {m} \in SUBSET D
    OBVIOUS
  <2>3. h[d] = Op[m, h[d \ {m}]]
    <3> HIDE DEF D, pick, base, Op, m
    <3> QED
      BY <1>7, <1>8, <2>1 DEF Folds
  <2> HIDE DEF m
  <2>4. <<m, h[d \ {m}]>> \in D \X Reads
    BY <2>1, <2>2
  <2>5. h[d] = ReadLine(h[d \ {m}], file[m])
    BY <2>3, <2>4
  <2> QED
    BY <2>5 DEF m
<1>9. h[{}] = base
  <2> HIDE DEF pick, base, Op
  <2> QED
    BY <1>7 DEF Folds
<1>10. h = Step(h)
  BY <1>8, <1>9
<1>11. f = Step(f)
  BY <1>10
<1>12. \A d \in SUBSET D : f[d] = h[d]
  <2> DEFINE F == {d \in SUBSET D : f[d] # h[d]}
  <2>1. SUFFICES ASSUME F # {} PROVE FALSE
    OBVIOUS
  <2>2. PICK d \in F : \A x \in d : d \ {x} \notin F
    <3>1. F \subseteq SUBSET D
      OBVIOUS
    <3> HIDE DEF F, D
    <3> QED
      BY <1>6, <2>1, <3>1, SmallestSubset
  <2>3. d \in SUBSET D /\ f[d] # h[d]
    OBVIOUS
  <2> HIDE DEF f
  <2>4. f[d] = IF d = {} THEN base
               ELSE ReadLine(f[d \ {Max(d)}], file[Max(d)])
    BY <1>11, <2>3
  <2>5. d # {}
    BY <1>9, <2>3, <2>4
  <2>6. Max(d) \in d
    BY <1>1, <2>3, <2>5, MaxProperties
  <2>7. f[d \ {Max(d)}] = h[d \ {Max(d)}]
    BY <2>2, <2>6
  <2> QED
    BY <1>8, <2>3, <2>4, <2>5, <2>7
<1> HIDE DEF f, Step, Op, pick, base
<1> DEFINE g == [k \in 0..Len(file) |-> h[1..k]]
<1>13. g \in [0..Len(file) -> Reads]
  BY <1>1, <1>7
<1>14. g[0] = base
  <2>1. 1..0 = {} /\ 0 \in 0..Len(file)
    BY <1>1
  <2> QED
    BY <1>9, <2>1
<1>15. ASSUME NEW k \in 0..(Len(file) - 1)
       PROVE  g[k + 1] = ReadLine(g[k], file[k + 1])
  <2> DEFINE d == 1..(k + 1)
  <2>1. d \in SUBSET D /\ d # {} /\ k + 1 \in d
    BY <1>1
  <2>2. Max(d) = k + 1
    <3>1. Max(d) \in d /\ k + 1 <= Max(d)
      <4> HIDE DEF d
      <4> QED
        BY <1>1, <2>1, MaxProperties
    <3> QED
      BY <3>1
  <2>3. d \ {k + 1} = 1..k
    OBVIOUS
  <2>4. h[d] = ReadLine(h[1..k], file[k + 1])
    BY <1>8, <2>1, <2>2, <2>3
  <2>5. g[k + 1] = h[d] /\ g[k] = h[1..k]
    BY <1>1
  <2> QED
    BY <2>4, <2>5
<1>16. TableFromFile(file, junk) = g[Len(file)].table
  <2>1. f[D] = h[D]
    BY <1>12
  <2>2. g[Len(file)] = h[D]
    BY <1>1
  <2> QED
    BY <1>2, <2>1, <2>2
<1>17. ReadsInOrder(g, file, junk)
  BY <1>13, <1>14, <1>15 DEF ReadsInOrder, base
<1> QED
  BY <1>16, <1>17

\* What the first k lines list, and with which cost.
LinesUpTo(file, k) == {n \in 1..k : file[n] # Comment}

KeyOf(line) ==
    IF line.name \in {"CACHE_HIT", "CACHE_MISS"} THEN line.name
                                                 ELSE CategoryOf(line.name)

ListedUpTo(file, k, name) == {n \in LinesUpTo(file, k) : KeyOf(file[n]) = name}

LastCostUpTo(file, k, name) ==
    IF ListedUpTo(file, k, name) = {} THEN 0
    ELSE file[Max(ListedUpTo(file, k, name))].cost

\* The table has the costs listed last in the first k lines.
HasLastCosts(table, file, k) ==
    /\ table.hit = LastCostUpTo(file, k, "CACHE_HIT")
    /\ table.miss = LastCostUpTo(file, k, "CACHE_MISS")
    /\ \A c \in CategoryNames :
        LookupCategory(table, c) = LastCostUpTo(file, k, c)

\* A line that lists another name, or none, leaves the last cost of a name.
LEMMA OtherLineKeepsLastCost ==
    ASSUME NEW file \in Seq(FileLines), NEW k \in 0..(Len(file) - 1), NEW name,
           file[k + 1] = Comment \/ KeyOf(file[k + 1]) # name
    PROVE  LastCostUpTo(file, k + 1, name) = LastCostUpTo(file, k, name)
<1>1. \A n : n \in 1..(k + 1) <=> n \in 1..k \/ n = k + 1
  BY LenProperties
<1>2. ListedUpTo(file, k + 1, name) = ListedUpTo(file, k, name)
  BY <1>1 DEF ListedUpTo, LinesUpTo
<1> QED
  BY <1>2 DEF LastCostUpTo

LEMMA LineSetsLastCost ==
    ASSUME NEW file \in Seq(FileLines), NEW k \in 0..(Len(file) - 1),
           file[k + 1] # Comment
    PROVE  LastCostUpTo(file, k + 1, KeyOf(file[k + 1])) = file[k + 1].cost
<1> DEFINE listed == ListedUpTo(file, k + 1, KeyOf(file[k + 1]))
<1>1. k + 1 \in Nat
  BY LenProperties
<1>2. k + 1 \in listed /\ listed \in SUBSET (1..(k + 1))
  BY <1>1 DEF ListedUpTo, LinesUpTo
<1>3. Max(listed) = k + 1
  <2>1. Max(listed) \in listed /\ k + 1 <= Max(listed)
    <3> HIDE DEF listed
    <3> QED
      BY <1>1, <1>2, MaxProperties
  <2> DEFINE m == Max(listed)
  <2>2. m \in 1..(k + 1) /\ k + 1 <= m
    BY <1>2, <2>1
  <2> HIDE DEF m
  <2> QED
    BY <1>1, <2>2 DEF m
<1> QED
  BY <1>2, <1>3 DEF LastCostUpTo

\* One more line of the file.
LEMMA ReadLineKeepsLastCosts ==
    ASSUME NEW file \in Seq(FileLines), NEW k \in 0..(Len(file) - 1),
           file[k + 1] # Comment => file[k + 1].cost \in Nat,
           NEW read \in Reads, HasLastCosts(read.table, file, k)
    PROVE  HasLastCosts(ReadLine(read, file[k + 1]).table, file, k + 1)
<1> DEFINE line == file[k + 1]
           table == read.table
           new == ReadLine(read, line).table
<1>1. line \in FileLines
  <2>1. k + 1 \in 1..Len(file)
    BY LenProperties
  <2> QED
    BY <2>1, ElementOfSeq
<1>2. table \in CostTables
  BY DEF Reads
<1>3. CASE line = Comment
  <2>1. new = table
    BY <1>3 DEF ReadLine
  <2>2. \A name : LastCostUpTo(file, k + 1, name) = LastCostUpTo(file, k, name)
    BY <1>3, OtherLineKeepsLastCost
  <2> QED
    BY <2>1, <2>2 DEF HasLastCosts
<1>4. CASE line # Comment
  <2> DEFINE key == KeyOf(line)
             cost == line.cost
  <2>1. line.name \in STRING /\ cost \in Nat
    BY <1>1, <1>4 DEF FileLines
  <2>2. new = Assign(table, line.name, cost)
    <3>1. CostIn(line, read.cost) = cost
      BY <2>1, CostAssumption DEF CostIn
    <3> QED
      BY <1>4, <3>1 DEF ReadLine
  <2>3. LastCostUpTo(file, k + 1, key) = cost
    BY <1>4, LineSetsLastCost
  <2>4. \A name : name # key =>
            LastCostUpTo(file, k + 1, name) = LastCostUpTo(file, k, name)
    BY OtherLineKeepsLastCost
  <2>5. HasLastCosts(table, file, k)
    OBVIOUS
  <2> HIDE DEF new, cost, key, table
  <2>6. ASSUME line.name = "CACHE_HIT"
        PROVE  HasLastCosts(new, file, k + 1)
    <3>1. key = "CACHE_HIT"
      BY <2>6 DEF KeyOf, key
    <3>2. new = [table EXCEPT !.hit = cost]
      BY <2>2, <2>6 DEF Assign
    <3>3. new.hit = cost /\ new.miss = table.miss /\ new.costs = table.costs
      BY <1>2, <3>2 DEF CostTables
    <3> QED
      BY <2>3, <2>4, <2>5, <3>1, <3>3, CategoryNamesProperties
      DEF HasLastCosts, LookupCategory
  <2>7. ASSUME line.name = "CACHE_MISS"
        PROVE  HasLastCosts(new, file, k + 1)
    <3>1. key = "CACHE_MISS"
      BY <2>7 DEF KeyOf, key
    <3>2. new = [table EXCEPT !.miss = cost]
      BY <2>2, <2>7 DEF Assign
    <3>3. new.miss = cost /\ new.hit = table.hit /\ new.costs = table.costs
      BY <1>2, <3>2 DEF CostTables
    <3> QED
      BY <2>3, <2>4, <2>5, <3>1, <3>3, CategoryNamesProperties
      DEF HasLastCosts, LookupCategory
  <2>8. ASSUME line.name \notin {"CACHE_HIT", "CACHE_MISS"}
        PROVE  HasLastCosts(new, file, k + 1)
    <3>1. key = CategoryOf(line.name) /\ key \in CategoryNames
      BY <2>8, CategoryNamesProperties DEF KeyOf, CategoryOf, CategoryNames, key
    <3>2. new = [table EXCEPT !.costs = AssignCost(@, key, cost)]
      BY <2>2, <2>8, <3>1 DEF Assign
    <3>3. /\ new.miss = table.miss
          /\ new.hit = table.hit
          /\ new.costs = AssignCost(table.costs, key, cost)
      BY <1>2, <3>2 DEF CostTables
    <3>4. LookupCategory(new, key) = cost
      BY <3>3 DEF LookupCategory, AssignCost
    <3>5. ASSUME NEW c \in CategoryNames, c # key
          PROVE  LookupCategory(new, c) = LookupCategory(table, c)
      BY <3>3, <3>5 DEF LookupCategory, AssignCost
    <3>6. key # "CACHE_HIT" /\ key # "CACHE_MISS"
      BY <3>1, CategoryNamesProperties
    <3> QED
      BY <2>3, <2>4, <2>5, <3>3, <3>4, <3>5, <3>6 DEF HasLastCosts
  <2> QED
    BY <2>6, <2>7, <2>8 DEF new
<1> QED
  BY <1>3, <1>4

\* The type of the table of a file, and what it holds.
LEMMA TableFromFileProperties ==
    ASSUME NEW file \in Seq(FileLines), NEW junk \in Nat
    PROVE  /\ TableFromFile(file, junk) \in CostTables
           /\ (\A n \in LinesUpTo(file, Len(file)) : file[n].cost \in Nat)
              => HasLastCosts(TableFromFile(file, junk), file, Len(file))
<1>1. PICK g : /\ ReadsInOrder(g, file, junk)
               /\ TableFromFile(file, junk) = g[Len(file)].table
  BY LinesAreReadInOrder
<1>2. Len(file) \in Nat
  BY LenProperties
<1>3. g[Len(file)] \in Reads
  BY <1>1, <1>2 DEF ReadsInOrder
<1>4. TableFromFile(file, junk) \in CostTables
  BY <1>1, <1>3 DEF Reads
<1>5. ASSUME \A n \in LinesUpTo(file, Len(file)) : file[n].cost \in Nat
      PROVE  HasLastCosts(g[Len(file)].table, file, Len(file))
  <2> DEFINE T == {k \in 0..Len(file) : ~HasLastCosts(g[k].table, file, k)}
  <2>1. SUFFICES ASSUME T # {} PROVE FALSE
    BY <1>2
  <2>2. PICK k \in T : \A l \in T : k <= l
    <3>1. T \subseteq Nat
      BY <1>2
    <3> HIDE DEF T
    <3> QED
      BY <2>1, <3>1, LeastNatural
  <2>3. HasLastCosts(g[0].table, file, 0)
    <3>1. g[0].table = [costs |-> << >>, hit |-> 0, miss |-> 0]
      BY <1>1 DEF ReadsInOrder, NothingRead
    <3>2. DOMAIN << >> = {}
      OBVIOUS
    <3>3. \A c : LookupCategory(g[0].table, c) = 0
      BY <3>1, <3>2 DEF LookupCategory
    <3>4. \A name : LastCostUpTo(file, 0, name) = 0
      BY DEF LastCostUpTo, ListedUpTo, LinesUpTo
    <3> QED
      BY <3>1, <3>3, <3>4 DEF HasLastCosts
  <2>4. k \in 1..Len(file) /\ k - 1 \in 0..(Len(file) - 1)
    BY <1>2, <2>2, <2>3
  <2>5. k - 1 \in 0..Len(file) /\ k - 1 \notin T
    <3>1. T \subseteq Nat
      BY <1>2
    <3> HIDE DEF T
    <3> QED
      BY <1>2, <2>2, <2>4, <3>1
  <2>6. HasLastCosts(g[k - 1].table, file, k - 1)
    BY <2>5
  <2>7. (k - 1) + 1 = k
    BY <2>4
  <2>8. file[k] # Comment => file[k].cost \in Nat
    BY <1>5, <2>4 DEF LinesUpTo
  <2>9. g[k - 1] \in Reads /\ g[k] = ReadLine(g[k - 1], file[k])
    BY <1>1, <2>4, <2>5, <2>7 DEF ReadsInOrder
  <2>10. HasLastCosts(ReadLine(g[k - 1], file[k]).table, file, k)
    <3> DEFINE j == k - 1
    <3>1. j \in 0..(Len(file) - 1) /\ j + 1 = k
      BY <2>4, <2>7
    <3>2. g[j] \in Reads /\ HasLastCosts(g[j].table, file, j)
      BY <2>6, <2>9
    <3> HIDE DEF j
    <3>3. HasLastCosts(ReadLine(g[j], file[j + 1]).table, file, j + 1)
      BY <2>8, <3>1, <3>2, ReadLineKeepsLastCosts
    <3> QED
      BY <3>1, <3>3 DEF j
  <2> QED
    BY <2>2, <2>9, <2>10
<1> QED
  BY <1>1, <1>4, <1>5

------------------------------------------------------------------------------
(* The costs looked up.                                                    *)

LEMMA InitialCosts ==
    ASSUME costFile \in CostFiles, NEW junk \in Junk,
           costTable = NewTable(costFile, junk)
    PROVE  costTable \in CostTables /\ CostsAreTheLastListed
<1>1. CASE costFile = NoFile
  BY <1>1, DefaultTableType DEF NewTable, CostsAreTheLastListed
<1>2. CASE costFile # NoFile
  <2>1. costFile \in Seq(FileLines) /\ junk \in Nat
    BY <1>2, TraceAssumption DEF FileLines
  <2>2. costTable = TableFromFile(costFile, junk)
    BY <1>2 DEF NewTable
  <2> DEFINE k == Len(costFile)
             lines == LinesUpTo(costFile, k)
  <2>3. costTable \in CostTables
    BY <2>1, <2>2, TableFromFileProperties
  <2>4. lines = {n \in DOMAIN costFile : costFile[n] # Comment}
    BY <2>1, LenProperties DEF LinesUpTo
  <2>5. \A name : LastCostUpTo(costFile, k, name) =
            LET Listed == {n \in lines : KeyOf(costFile[n]) = name}
            IN  IF Listed = {} THEN 0 ELSE costFile[Max(Listed)].cost
    BY DEF LastCostUpTo, ListedUpTo
  <2>6. ASSUME \A n \in lines : costFile[n].cost \in Nat
        PROVE  /\ LookupResult(costTable, MISS) = LastCostUpTo(costFile, k, "CACHE_MISS")
               /\ \A r \in {L1HIT, L2HIT} :
                    LookupResult(costTable, r) = LastCostUpTo(costFile, k, "CACHE_HIT")
               /\ \A i \in Instructions :
                    LookupCategory(costTable, Category[i]) =
                        LastCostUpTo(costFile, k, Category[i])
    <3>1. HasLastCosts(costTable, costFile, k)
      BY <2>1, <2>2, <2>6, TableFromFileProperties
    <3>2. \A i \in Instructions : Category[i] \in CategoryNames
      BY TraceAssumption DEF CategoryNames
    <3> QED
      BY <3>1, <3>2 DEF HasLastCosts, LookupResult, MISS, L1HIT, L2HIT
  <2>7. CostsAreTheLastListed
    <3> HIDE DEF k, lines
    <3> QED
      BY <1>2, <2>4, <2>5, <2>6 DEF CostsAreTheLastListed, KeyOf
  <2> QED
    BY <2>3, <2>7
<1> QED
  BY <1>1, <1>2

LEMMA LookupType ==
    ASSUME costTable \in CostTables
    PROVE  /\ \A category : LookupCategory(costTable, category) \in Nat
           /\ \A result : LookupResult(costTable, result) \in Nat
           /\ {costTable.hit, costTable.miss} \cup Range(costTable.costs) \subseteq Nat
<1>1. PICK names : costTable.costs \in [names -> Nat]
  BY DEF CostTables, Costs
<1>2. costTable.hit \in Nat /\ costTable.miss \in Nat
  BY DEF CostTables
<1> QED
  BY <1>1, <1>2 DEF LookupCategory, LookupResult, Range

------------------------------------------------------------------------------
(* The types of the state, kept by every step.                             *)

\* What the MissHandler is called with.
Messages ==
    [call : {"sendComp"}, thread : Threads, cycles : Nat] \cup
    [call : {"sendRW"}, thread : Threads, cycles : {0}, ins : Instructions,
     tid : Threads \cup {NoThread}]

\* Where a thread can be, in either version.
Labels == {"next", "charging", "operands", "locked", "adding", "miss", "sent",
           "reset", "unlock", "thrown"}

Types ==
    /\ pc \in [Threads -> Labels]
    /\ program \in [Threads -> Seq(Instructions)]
    /\ operands \in [Threads -> Nat]
    /\ res \in [Threads -> Results]
    /\ old \in [Threads -> Nat]
    /\ cycles \in Nat
    /\ charged \in Nat
    /\ tid \in [Instructions -> Threads \cup {NoThread}]
    /\ sent \in Seq(Messages)
    /\ costTable \in CostTables

\* No thread has read more cycles than were charged.
Bounded ==
    /\ cycles <= charged
    /\ \A t \in Threads : old[t] <= charged

\* A thread that has begun an instruction has it to run.
HaveInstructions == \A t \in Threads : pc[t] # "next" => program[t] # << >>

WellTyped == Types /\ Bounded /\ HaveInstructions

\* The steps of a thread in both versions: a hit goes on at hit, and a miss
\* at done.
TraceStep(t, hit, done) ==
    \/ BeginInstruction(t)
    \/ EndInstruction(t)
    \/ Run(t, "operands")
    \/ pc[t] \in {"operands", "locked"} /\ HasOperand(t) /\ Reference(t)
    \/ AddCycles(t, hit)
    \/ SendComp(t)
    \/ ResetCycles(t)
    \/ SendRW(t, done)
    \/ Finish(t)

LEMMA InitialTypes ==
    ASSUME TraceInit, costTable \in CostTables
    PROVE  WellTyped
<1>1. Types
  BY TraceAssumption, EmptySeq DEF TraceInit, Types, Results, Labels
<1>2. Bounded
  BY DEF TraceInit, Bounded
<1>3. HaveInstructions
  BY DEF TraceInit, HaveInstructions
<1> QED
  BY <1>1, <1>2, <1>3 DEF WellTyped

\* An instruction a thread has begun is one of the program, and what is left
\* after it is a program.
LEMMA InstructionProperties ==
    ASSUME WellTyped, NEW t \in Threads, program[t] # << >>
    PROVE  /\ Head(program[t]) \in Instructions
           /\ Tail(program[t]) \in Seq(Instructions)
           /\ Head(program[t]) \in Range(program[t])
           /\ Range(Tail(program[t])) \subseteq Range(program[t])
<1>1. program[t] \in Seq(Instructions)
  BY DEF WellTyped, Types
<1> DEFINE p == program[t]
<1>2. /\ Len(p) \in Nat \ {0}
      /\ DOMAIN p = 1..Len(p)
      /\ \A i \in 1..Len(p) : p[i] \in Instructions
  BY <1>1, EmptySeq, LenProperties, ElementOfSeq
<1>3. Head(p) = p[1]
  BY <1>1, HeadTailProperties
<1>4. /\ Tail(p) \in Seq(Instructions)
      /\ Len(Tail(p)) = Len(p) - 1
      /\ \A i \in 1..(Len(p) - 1) : Tail(p)[i] = p[i + 1]
  BY <1>1, HeadTailProperties
<1>5. DOMAIN Tail(p) = 1..(Len(p) - 1)
  BY <1>4, LenProperties
<1> HIDE DEF p
<1>6. Head(p) \in Instructions /\ Head(p) \in Range(p)
  BY <1>2, <1>3 DEF Range
<1>7. Range(Tail(p)) \subseteq Range(p)
  BY <1>2, <1>4, <1>5 DEF Range
<1> QED
  BY <1>4, <1>6, <1>7 DEF p

LEMMA StepKeepsTypes ==
    ASSUME WellTyped, NEW t \in Threads, NEW hit \in Labels, NEW done \in Labels,
           TraceStep(t, hit, done), UNCHANGED costVars
    PROVE  WellTyped'
<1>1. Types /\ Bounded /\ HaveInstructions /\ costTable' = costTable
  BY DEF WellTyped, costVars
<1>2. \A u \in Threads : old[u] \in Nat /\ old[u] <= charged
  BY <1>1 DEF Types, Bounded
<1>3. CASE BeginInstruction(t)
  <2>1. Types'
    BY <1>1, <1>3 DEF Types, BeginInstruction, ReadCycles, Goto, Labels
  <2>2. Bounded'
    BY <1>1, <1>3 DEF Types, Bounded, BeginInstruction, ReadCycles
  <2>3. HaveInstructions'
    BY <1>1, <1>3 DEF Types, HaveInstructions, BeginInstruction, AtInstruction, Goto, Labels
  <2> QED
    BY <2>1, <2>2, <2>3 DEF WellTyped
<1>4. CASE EndInstruction(t)
  <2> DEFINE h == Head(program[t])
             cost == LookupCategory(costTable, Category[h])
  <2>1. h \in Instructions
    BY <1>1, <1>4, InstructionProperties DEF HaveInstructions, EndInstruction
  <2>2. cost \in Nat
    BY <1>1, LookupType DEF Types
  <2>3. cycles' = old[t] + cost /\ charged' = charged + cost
    BY <1>1, <1>4 DEF EndInstruction, Charge
  <2>4. tid' = [tid EXCEPT ![h] = t]
    BY <1>1, <1>4 DEF EndInstruction, CapturedTid
  <2> HIDE DEF cost, h
  <2>5. Types'
    BY <1>1, <1>2, <1>4, <2>1, <2>2, <2>3, <2>4 DEF Types, EndInstruction, Goto, Labels
  <2>6. Bounded'
    BY <1>1, <1>2, <1>4, <2>2, <2>3 DEF Types, Bounded, EndInstruction
  <2>7. HaveInstructions'
    BY <1>1, <1>4 DEF Types, HaveInstructions, EndInstruction, Goto, Labels
  <2> QED
    BY <2>5, <2>6, <2>7 DEF WellTyped
<1>5. CASE Run(t, "operands")
  <2>1. Head(program[t]) \in Instructions
    BY <1>1, <1>5, InstructionProperties DEF Run, AtInstruction
  <2>2. Types'
    BY <1>1, <1>5, <2>1, TraceAssumption DEF Types, Run, Goto, Labels
  <2>3. Bounded'
    BY <1>1, <1>5 DEF Bounded, Run
  <2>4. HaveInstructions'
    BY <1>1, <1>5 DEF Types, HaveInstructions, Run, AtInstruction, Goto, Labels
  <2> QED
    BY <2>2, <2>3, <2>4 DEF WellTyped
<1>6. CASE pc[t] \in {"operands", "locked"} /\ HasOperand(t) /\ Reference(t)
  <2>1. PICK r \in Results : res' = [res EXCEPT ![t] = r]
    BY <1>1, <1>6 DEF Reference
  <2>2. Types'
    BY <1>1, <1>6, <2>1 DEF Types, Reference, HasOperand, ReadCycles, Goto, Labels
  <2>3. Bounded'
    BY <1>1, <1>6 DEF Types, Bounded, Reference, ReadCycles
  <2>4. HaveInstructions'
    BY <1>1, <1>6 DEF Types, HaveInstructions, Reference, Goto, Labels
  <2> QED
    BY <2>2, <2>3, <2>4 DEF WellTyped
<1>7. CASE AddCycles(t, hit)
  <2> DEFINE cost == LookupResult(costTable, res[t])
             label == IF res[t] = MISS THEN "miss" ELSE hit
  <2>1. cost \in Nat /\ label \in Labels
    BY <1>1, LookupType DEF Types, Labels
  <2>2. cycles' = old[t] + cost /\ charged' = charged + cost
    BY <1>1, <1>7 DEF AddCycles, Charge
  <2>3. pc' = [pc EXCEPT ![t] = label] /\ pc[t] = "adding"
    BY <1>1, <1>7 DEF AddCycles, Goto, Labels
  <2> HIDE DEF cost, label
  <2>4. Types'
    BY <1>1, <1>2, <1>7, <2>1, <2>2, <2>3 DEF Types, AddCycles
  <2>5. Bounded'
    BY <1>1, <1>2, <1>7, <2>1, <2>2 DEF Types, Bounded, AddCycles
  <2>6. HaveInstructions'
    BY <1>1, <1>7, <2>3 DEF Types, HaveInstructions, AddCycles
  <2> QED
    BY <2>4, <2>5, <2>6 DEF WellTyped
<1>8. CASE SendComp(t)
  <2> DEFINE message == [call |-> "sendComp", thread |-> t, cycles |-> cycles]
  <2>1. message \in Messages
    BY <1>1 DEF Types, Messages
  <2>2. Append(sent, message) \in Seq(Messages)
    BY <1>1, <2>1, AppendProperties DEF Types
  <2>3. Types'
    BY <1>1, <1>8, <2>2 DEF Types, SendComp, Goto, Labels
  <2>4. Bounded'
    BY <1>1, <1>8 DEF Bounded, SendComp
  <2>5. HaveInstructions'
    BY <1>1, <1>8 DEF Types, HaveInstructions, SendComp, Goto, Labels
  <2> QED
    BY <2>3, <2>4, <2>5 DEF WellTyped
<1>9. CASE ResetCycles(t)
  <2>1. Types'
    BY <1>1, <1>9 DEF Types, ResetCycles, Goto, Labels
  <2>2. Bounded'
    BY <1>1, <1>9 DEF Types, Bounded, ResetCycles
  <2>3. HaveInstructions'
    BY <1>1, <1>9 DEF Types, HaveInstructions, ResetCycles, Goto, Labels
  <2> QED
    BY <2>1, <2>2, <2>3 DEF WellTyped
<1>10. CASE SendRW(t, done)
  <2> DEFINE message == [call |-> "sendRW", thread |-> t, cycles |-> 0,
                         ins |-> Head(program[t]), tid |-> tid[Head(program[t])]]
  <2>1. Head(program[t]) \in Instructions
    BY <1>1, <1>10, InstructionProperties DEF HaveInstructions, SendRW
  <2>2. message \in Messages
    BY <1>1, <2>1 DEF Types, Messages
  <2>3. Append(sent, message) \in Seq(Messages)
    BY <1>1, <2>2, AppendProperties DEF Types
  <2>4. Types'
    BY <1>1, <1>10, <2>3 DEF Types, SendRW, Goto, Labels
  <2>5. Bounded'
    BY <1>1, <1>10 DEF Bounded, SendRW
  <2>6. HaveInstructions'
    BY <1>1, <1>10 DEF Types, HaveInstructions, SendRW, Goto, Labels
  <2> QED
    BY <2>4, <2>5, <2>6 DEF WellTyped
<1>11. CASE Finish(t)
  <2>1. Tail(program[t]) \in Seq(Instructions)
    BY <1>1, <1>11, InstructionProperties DEF HaveInstructions, Finish
  <2>2. Types'
    BY <1>1, <1>11, <2>1 DEF Types, Finish, Goto, Labels
  <2>3. Bounded'
    BY <1>1, <1>11 DEF Bounded, Finish
  <2>4. HaveInstructions'
    BY <1>1, <1>11 DEF Types, HaveInstructions, Finish, Goto, Labels
  <2> QED
    BY <2>2, <2>3, <2>4 DEF WellTyped
<1> QED
  BY <1>3, <1>4, <1>5, <1>6, <1>7, <1>8, <1>9, <1>10, <1>11 DEF TraceStep

LEMMA WellTypedImpliesTypes ==
    ASSUME WellTyped
    PROVE  TraceTypeOK
<1>1. \A t \in Threads : old[t] \in 0..charged
  BY DEF WellTyped, Types, Bounded
<1>2. {costTable.hit, costTable.miss} \cup Range(costTable.costs) \subseteq Nat
  BY LookupType DEF WellTyped, Types
<1>3. old \in [Threads -> 0..charged]
  BY <1>1 DEF WellTyped, Types
<1> QED
  BY <1>2, <1>3 DEF WellTyped, Types, TraceTypeOK

------------------------------------------------------------------------------
(* The calls of the MissHandler come in pairs.                             *)

\* No other thread than t is at one of the labels.
Alone(t, labels) == \A u \in Threads \ {t} : pc[u] \notin labels

\* Between its two calls of the MissHandler.
InMiss(t) == pc[t] \in {"sent", "reset"}

\* The number of calls is odd just when some thread is between its two, and
\* the last call is the first one of that thread.
Paired ==
    /\ MissesArePaired
    /\ \A t \in Threads :
        InMiss(t) => Len(sent) % 2 = 1 /\ sent[Len(sent)].thread = t
    /\ Len(sent) % 2 = 1 => \E t \in Threads : InMiss(t)

LEMMA InitialPairs ==
    ASSUME TraceInit
    PROVE  Paired
<1>1. Len(sent) = 0 /\ DOMAIN sent = {}
  BY EmptySeq DEF TraceInit
<1>2. \A t \in Threads : pc[t] = "next"
  BY DEF TraceInit
<1> QED
  BY <1>1, <1>2 DEF Paired, MissesArePaired, InMiss

LEMMA StepKeepsPairs ==
    ASSUME WellTyped, Paired,
           NEW t \in Threads, NEW hit \in Labels, NEW done \in Labels,
           TraceStep(t, hit, done),
           hit \notin {"sent", "reset"}, done \notin {"sent", "reset"},
           pc[t] \in {"miss", "reset"} => Alone(t, {"sent", "reset"})
    PROVE  Paired'
<1>1. pc \in [Threads -> Labels] /\ sent \in Seq(Messages)
  BY DEF WellTyped, Types
<1> DEFINE n == Len(sent)
<1>2. n \in Nat /\ DOMAIN sent = 1..n
  BY <1>1, LenProperties
<1>3. ASSUME sent' = sent, \A u \in Threads : InMiss(u)' <=> InMiss(u)
      PROVE  Paired'
  BY <1>3 DEF Paired, MissesArePaired
<1>4. CASE SendComp(t)
  <2> DEFINE message == [call |-> "sendComp", thread |-> t, cycles |-> cycles]
             long == Append(sent, message)
  <2>1. sent' = long /\ pc' = [pc EXCEPT ![t] = "sent"] /\ pc[t] = "miss"
    BY <1>4 DEF SendComp, Goto
  <2>2. /\ Len(long) = n + 1
        /\ DOMAIN long = 1..(n + 1)
        /\ \A i \in 1..n : long[i] = sent[i]
        /\ long[n + 1] = message
    <3>1. message \in Messages
      BY DEF Messages, WellTyped, Types
    <3> QED
      BY <1>1, <3>1, AppendProperties
  <2>3. \A u \in Threads : ~InMiss(u)
    BY <2>1 DEF Alone, InMiss
  <2>4. n % 2 = 0
    <3>1. n % 2 # 1
      BY <2>3 DEF Paired
    <3> QED
      BY <1>2, <3>1
  <2>5. (n + 1) % 2 = 1
    BY <1>2, <2>4
  <2>6. \A u \in Threads : InMiss(u)' <=> u = t
    BY <1>1, <2>1, <2>3 DEF InMiss
  <2>7. message.call = "sendComp" /\ message.thread = t
    OBVIOUS
  <2> HIDE DEF message, long, n
  <2>8. \A i \in 1..(n + 1) :
          IF i % 2 = 1
          THEN long[i].call = "sendComp"
          ELSE long[i].call = "sendRW" /\ long[i].thread = long[i - 1].thread
    <3> TAKE i \in 1..(n + 1)
    <3>1. CASE i = n + 1
      BY <2>2, <2>5, <2>7, <3>1
    <3>2. CASE i \in 1..n /\ i % 2 = 1
      BY <1>2, <2>2, <3>2 DEF Paired, MissesArePaired
    <3>3. CASE i \in 1..n /\ i % 2 # 1
      <4>1. i - 1 \in 1..n
        BY <1>2, <3>3
      <4> QED
        BY <1>2, <2>2, <3>3, <4>1 DEF Paired, MissesArePaired
    <3> QED
      BY <1>2, <3>1, <3>2, <3>3
  <2>9. MissesArePaired'
    BY <2>1, <2>2, <2>8 DEF MissesArePaired
  <2> QED
    BY <2>1, <2>2, <2>5, <2>6, <2>7, <2>9 DEF Paired
<1>5. CASE SendRW(t, done)
  <2> DEFINE message == [call |-> "sendRW", thread |-> t, cycles |-> 0,
                         ins |-> Head(program[t]), tid |-> tid[Head(program[t])]]
             long == Append(sent, message)
  <2>1. sent' = long /\ pc' = [pc EXCEPT ![t] = done] /\ pc[t] = "reset"
    BY <1>5 DEF SendRW, Goto
  <2>2. /\ Len(long) = n + 1
        /\ DOMAIN long = 1..(n + 1)
        /\ \A i \in 1..n : long[i] = sent[i]
        /\ long[n + 1] = message
    <3>1. Head(program[t]) \in Instructions
      BY <2>1, InstructionProperties DEF WellTyped, HaveInstructions
    <3>2. message \in Messages
      BY <3>1 DEF Messages, WellTyped, Types
    <3> QED
      BY <1>1, <3>2, AppendProperties
  <2>3. n % 2 = 1 /\ sent[n].thread = t
    BY <2>1 DEF Paired, InMiss
  <2>4. n >= 1 /\ (n + 1) % 2 = 0
    BY <1>2, <2>3
  <2>5. \A u \in Threads : ~InMiss(u)'
    BY <1>1, <2>1 DEF InMiss, Alone
  <2>6. message.call = "sendRW" /\ message.thread = t
    OBVIOUS
  <2> HIDE DEF message, long, n
  <2>7. \A i \in 1..(n + 1) :
          IF i % 2 = 1
          THEN long[i].call = "sendComp"
          ELSE long[i].call = "sendRW" /\ long[i].thread = long[i - 1].thread
    <3> TAKE i \in 1..(n + 1)
    <3>1. CASE i = n + 1
      <4>1. i - 1 = n /\ n \in 1..n /\ i % 2 # 1
        BY <1>2, <2>4, <3>1
      <4> QED
        BY <2>2, <2>3, <2>6, <3>1, <4>1
    <3>2. CASE i \in 1..n /\ i % 2 = 1
      BY <1>2, <2>2, <3>2 DEF Paired, MissesArePaired
    <3>3. CASE i \in 1..n /\ i % 2 # 1
      <4>1. i - 1 \in 1..n
        BY <1>2, <3>3
      <4> QED
        BY <1>2, <2>2, <3>3, <4>1 DEF Paired, MissesArePaired
    <3> QED
      BY <1>2, <3>1, <3>2, <3>3
  <2>8. MissesArePaired'
    BY <2>1, <2>2, <2>7 DEF MissesArePaired
  <2>9. Len(sent)' % 2 # 1
    BY <1>2, <2>1, <2>2, <2>4
  <2> QED
    BY <2>5, <2>8, <2>9 DEF Paired
<1>6. CASE ~SendComp(t) /\ ~SendRW(t, done)
  <2>1. sent' = sent
    BY <1>6 DEF TraceStep, BeginInstruction, EndInstruction, Run, Reference,
                AddCycles, ResetCycles, Finish
  <2>2. PICK label \in Labels :
            /\ pc' = [pc EXCEPT ![t] = label]
            /\ InMiss(t) <=> label \in {"sent", "reset"}
    <3> DEFINE Moves(label) == /\ pc' = [pc EXCEPT ![t] = label]
                               /\ InMiss(t) <=> label \in {"sent", "reset"}
    <3>1. CASE BeginInstruction(t)
      <4>1. Moves("charging")
        BY <3>1 DEF BeginInstruction, AtInstruction, Goto, InMiss
      <4> QED
        BY <4>1 DEF Labels
    <3>2. CASE EndInstruction(t)
      <4>1. Moves("next")
        BY <3>2 DEF EndInstruction, Goto, InMiss
      <4> QED
        BY <4>1 DEF Labels
    <3>3. CASE Run(t, "operands")
      <4>1. Moves("operands")
        BY <3>3 DEF Run, AtInstruction, Goto, InMiss
      <4> QED
        BY <4>1 DEF Labels
    <3>4. CASE pc[t] \in {"operands", "locked"} /\ Reference(t)
      <4>1. Moves("adding")
        BY <3>4 DEF Reference, Goto, InMiss
      <4> QED
        BY <4>1 DEF Labels
    <3>5. CASE AddCycles(t, hit)
      <4>1. Moves("miss") \/ Moves(hit)
        BY <3>5 DEF AddCycles, Goto, InMiss
      <4> QED
        BY <4>1 DEF Labels
    <3>6. CASE ResetCycles(t)
      <4>1. Moves("reset")
        BY <3>6 DEF ResetCycles, Goto, InMiss
      <4> QED
        BY <4>1 DEF Labels
    <3>7. CASE Finish(t)
      <4>1. Moves("next")
        BY <3>7 DEF Finish, Goto, InMiss
      <4> QED
        BY <4>1 DEF Labels
    <3> QED
      BY <1>6, <3>1, <3>2, <3>3, <3>4, <3>5, <3>6, <3>7 DEF TraceStep
  <2>3. \A u \in Threads : InMiss(u)' <=> InMiss(u)
    BY <1>1, <2>2 DEF InMiss
  <2> QED
    BY <1>3, <2>1, <2>3
<1> QED
  BY <1>4, <1>5, <1>6

------------------------------------------------------------------------------
(* No cycle is lost or sent twice.                                         *)

Resetting == \E t \in Threads : pc[t] = "sent"

\* The cycles that were charged were sent or are in cycles; between the two
\* statements of a miss they are in both.
Accounted == SumOf(sent) + (IF Resetting THEN 0 ELSE cycles) = charged

\* What a thread at one of the labels has read of cycles is still there.
Fresh(labels) == \A t \in Threads : pc[t] \in labels => old[t] = cycles

Balanced(labels) == Accounted /\ Fresh(labels)

LEMMA InitialBalance ==
    ASSUME TraceInit, NEW labels, "next" \notin labels
    PROVE  Balanced(labels)
<1>1. SumOf(sent) = 0
  BY SumOfEmpty DEF TraceInit
<1>2. \A t \in Threads : pc[t] = "next"
  BY DEF TraceInit
<1>3. cycles = 0 /\ charged = 0
  BY DEF TraceInit
<1> QED
  BY <1>1, <1>2, <1>3 DEF Balanced, Accounted, Resetting, Fresh

LEMMA CallsAddUp ==
    ASSUME WellTyped, NEW message \in Messages
    PROVE  /\ SumOf(sent) \in Nat
           /\ SumOf(Append(sent, message)) = SumOf(sent) + message.cycles
<1>1. sent \in Seq(Messages)
  BY DEF WellTyped, Types
<1>2. \A m \in Messages : m.cycles \in Nat
  BY DEF Messages
<1>3. \A i \in 1..Len(sent) : sent[i].cycles \in Nat
  BY <1>1, <1>2, ElementOfSeq
<1> QED
  BY <1>1, <1>2, <1>3, SumOfAppend

\* The labels between a read of cycles and the write that follows it.
ReadLabels == {{"adding"}, {"adding", "charging"}}

LEMMA StepKeepsBalance ==
    ASSUME WellTyped, NEW labels \in ReadLabels, Balanced(labels),
           NEW t \in Threads, NEW hit \in {"operands", "unlock"},
           NEW done \in {"operands", "unlock"},
           TraceStep(t, hit, done),
           pc[t] \in {"adding", "miss", "sent"} => Alone(t, labels \cup {"sent"}),
           pc[t] = "charging" => "charging" \in labels /\ Alone(t, labels \cup {"sent"})
    PROVE  Balanced(labels)'
<1>1. /\ pc \in [Threads -> Labels]
      /\ old \in [Threads -> Nat]
      /\ cycles \in Nat
      /\ charged \in Nat
      /\ costTable \in CostTables
  BY DEF WellTyped, Types
<1>2. /\ "adding" \in labels
      /\ labels \subseteq {"adding", "charging"}
  BY DEF ReadLabels
<1>3. SumOf(sent) + (IF Resetting THEN 0 ELSE cycles) = charged
  BY DEF Balanced, Accounted
<1>4. \A u \in Threads : pc[u] \in labels => old[u] = cycles
  BY DEF Balanced, Fresh
\* A step that leaves alone what was counted.
<1>5. ASSUME UNCHANGED <<cycles, charged, sent>>, pc[t] # "sent",
             NEW label \in Labels \ {"sent"}, pc' = [pc EXCEPT ![t] = label],
             \A u \in Threads \ {t} : old'[u] = old[u],
             label \in labels => old'[t] = cycles
      PROVE  Balanced(labels)'
  <2>1. Resetting' <=> Resetting
    BY <1>1, <1>5 DEF Resetting
  <2>2. Accounted'
    BY <1>3, <1>5, <2>1 DEF Accounted
  <2>3. Fresh(labels)'
    BY <1>1, <1>4, <1>5 DEF Fresh
  <2> QED
    BY <2>2, <2>3 DEF Balanced
\* A step that adds the cost of something to what the thread has read.
<1>6. ASSUME NEW cost \in Nat, Charge(t, cost), sent' = sent, old' = old,
             pc[t] \in labels, Alone(t, labels \cup {"sent"}),
             NEW label \in Labels \ {"sent", "adding", "charging"},
             pc' = [pc EXCEPT ![t] = label]
      PROVE  Balanced(labels)'
  <2>1. ~Resetting /\ ~Resetting'
    BY <1>1, <1>2, <1>6 DEF Resetting, Alone
  <2>2. cycles' = cycles + cost /\ charged' = charged + cost
    BY <1>4, <1>6 DEF Charge
  <2>3. SumOf(sent) + cycles = charged
    BY <1>3, <2>1
  <2>4. SumOf(sent) \in Nat
    <3>1. PICK message \in Messages : TRUE
      <4>1. [call |-> "sendComp", thread |-> t, cycles |-> 0] \in Messages
        BY DEF Messages
      <4> QED
        BY <4>1
    <3> QED
      BY <3>1, CallsAddUp
  <2> DEFINE sum == SumOf(sent)
  <2>5. Accounted' <=> sum + cycles' = charged'
    BY <1>6, <2>1 DEF Accounted
  <2>6. sum \in Nat /\ sum + cycles = charged
    BY <2>3, <2>4
  <2> HIDE DEF sum
  <2>7. Accounted'
    BY <1>1, <2>2, <2>5, <2>6
  <2>8. Fresh(labels)'
    BY <1>1, <1>2, <1>6 DEF Fresh, Alone
  <2> QED
    BY <2>7, <2>8 DEF Balanced
<1>7. CASE BeginInstruction(t)
  <2>1. pc[t] # "sent" /\ pc' = [pc EXCEPT ![t] = "charging"]
    BY <1>7 DEF BeginInstruction, AtInstruction, Goto
  <2>2. old' = [old EXCEPT ![t] = cycles] /\ UNCHANGED <<cycles, charged, sent>>
    BY <1>7 DEF BeginInstruction, ReadCycles
  <2> QED
    BY <1>1, <1>5, <2>1, <2>2 DEF Labels
<1>8. CASE EndInstruction(t)
  <2> DEFINE cost == LookupCategory(costTable, Category[Head(program[t])])
  <2>1. pc[t] = "charging" /\ pc' = [pc EXCEPT ![t] = "next"]
    BY <1>8 DEF EndInstruction, Goto
  <2>2. Charge(t, cost) /\ sent' = sent /\ old' = old
    BY <1>8 DEF EndInstruction
  <2>3. cost \in Nat
    BY <1>1, LookupType
  <2> QED
    BY <1>6, <2>1, <2>2, <2>3 DEF Labels
<1>9. CASE Run(t, "operands")
  <2>1. pc[t] # "sent" /\ pc' = [pc EXCEPT ![t] = "operands"]
    BY <1>9 DEF Run, AtInstruction, Goto
  <2>2. old' = old /\ UNCHANGED <<cycles, charged, sent>>
    BY <1>9 DEF Run
  <2> QED
    BY <1>2, <1>5, <2>1, <2>2 DEF Labels
<1>10. CASE pc[t] \in {"operands", "locked"} /\ HasOperand(t) /\ Reference(t)
  <2>1. pc[t] # "sent" /\ pc' = [pc EXCEPT ![t] = "adding"]
    BY <1>10 DEF Reference, Goto
  <2>2. old' = [old EXCEPT ![t] = cycles] /\ UNCHANGED <<cycles, charged, sent>>
    BY <1>10 DEF Reference, ReadCycles
  <2> QED
    BY <1>1, <1>5, <2>1, <2>2 DEF Labels
<1>11. CASE AddCycles(t, hit)
  <2> DEFINE cost == LookupResult(costTable, res[t])
             label == IF res[t] = MISS THEN "miss" ELSE hit
  <2>1. pc[t] = "adding" /\ pc' = [pc EXCEPT ![t] = label]
    BY <1>11 DEF AddCycles, Goto
  <2>2. Charge(t, cost) /\ sent' = sent /\ old' = old
    BY <1>11 DEF AddCycles
  <2>3. cost \in Nat
    BY <1>1, LookupType
  <2>4. label \in Labels \ {"sent", "adding", "charging"}
    BY DEF Labels
  <2> HIDE DEF label, cost
  <2> QED
    BY <1>2, <1>6, <2>1, <2>2, <2>3, <2>4
<1>12. CASE SendComp(t)
  <2> DEFINE message == [call |-> "sendComp", thread |-> t, cycles |-> cycles]
  <2>1. pc[t] = "miss" /\ pc' = [pc EXCEPT ![t] = "sent"]
    BY <1>12 DEF SendComp, Goto
  <2>2. sent' = Append(sent, message) /\ UNCHANGED <<old, cycles, charged>>
    BY <1>12 DEF SendComp
  <2>3. message \in Messages /\ message.cycles = cycles
    BY <1>1 DEF Messages
  <2>4. ~Resetting /\ Resetting'
    BY <1>1, <2>1 DEF Resetting, Alone
  <2> HIDE DEF message
  <2>5. SumOf(sent)' = SumOf(sent) + cycles /\ SumOf(sent) \in Nat
    BY <2>2, <2>3, CallsAddUp
  <2>6. SumOf(sent)' = charged
    BY <1>3, <2>4, <2>5
  <2>7. Accounted'
    BY <1>1, <2>2, <2>4, <2>6 DEF Accounted
  <2>8. Fresh(labels)'
    BY <1>1, <1>2, <1>4, <2>1, <2>2 DEF Fresh
  <2> QED
    BY <2>7, <2>8 DEF Balanced
<1>13. CASE ResetCycles(t)
  <2>1. pc[t] = "sent" /\ pc' = [pc EXCEPT ![t] = "reset"]
    BY <1>13 DEF ResetCycles, Goto
  <2>2. cycles' = 0 /\ UNCHANGED <<old, sent, charged>>
    BY <1>13 DEF ResetCycles
  <2>3. Resetting /\ ~Resetting'
    BY <1>1, <2>1 DEF Resetting, Alone
  <2>4. SumOf(sent) + 0 = charged
    BY <1>3, <2>3
  <2>5. Accounted'
    BY <2>2, <2>3, <2>4 DEF Accounted
  <2>6. Fresh(labels)'
    BY <1>1, <1>2, <2>1, <2>2 DEF Fresh, Alone
  <2> QED
    BY <2>5, <2>6 DEF Balanced
<1>14. CASE SendRW(t, done)
  <2> DEFINE message == [call |-> "sendRW", thread |-> t, cycles |-> 0,
                         ins |-> Head(program[t]), tid |-> tid[Head(program[t])]]
  <2>1. pc[t] = "reset" /\ pc' = [pc EXCEPT ![t] = done]
    BY <1>14 DEF SendRW, Goto
  <2>2. sent' = Append(sent, message) /\ UNCHANGED <<old, cycles, charged>>
    BY <1>14 DEF SendRW
  <2>3. message \in Messages /\ message.cycles = 0
    <3>1. Head(program[t]) \in Instructions
      BY <2>1, InstructionProperties DEF WellTyped, HaveInstructions
    <3> QED
      BY <3>1 DEF Messages, WellTyped, Types
  <2>4. Resetting' <=> Resetting
    BY <1>1, <2>1 DEF Resetting
  <2> HIDE DEF message
  <2>5. SumOf(sent)' = SumOf(sent) + 0 /\ SumOf(sent) \in Nat
    BY <2>2, <2>3, CallsAddUp
  <2>6. SumOf(sent)' = SumOf(sent)
    BY <2>5
  <2>7. Accounted'
    BY <1>3, <2>2, <2>4, <2>6 DEF Accounted
  <2>8. Fresh(labels)'
    BY <1>1, <1>2, <1>4, <2>1, <2>2 DEF Fresh
  <2> QED
    BY <2>7, <2>8 DEF Balanced
<1>15. CASE Finish(t)
  <2>1. pc[t] # "sent" /\ pc' = [pc EXCEPT ![t] = "next"]
    BY <1>15 DEF Finish, Goto
  <2>2. old' = old /\ UNCHANGED <<cycles, charged, sent>>
    BY <1>15 DEF Finish
  <2> QED
    BY <1>2, <1>5, <2>1, <2>2 DEF Labels
<1> QED
  BY <1>7, <1>8, <1>9, <1>10, <1>11, <1>12, <1>13, <1>14, <1>15 DEF TraceStep

LEMMA BalanceConservesCycles ==
    ASSUME Accounted
    PROVE  CyclesConserved
BY DEF Accounted, Resetting, CyclesConserved, Quiescent, SentCycles, SumOf

=============================================================================
