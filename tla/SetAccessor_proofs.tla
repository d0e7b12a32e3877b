------------------------- MODULE SetAccessor_proofs -------------------------
(***************************************************************************)
(* Facts about the operators of SetAccessor, for every configuration whose *)
(* number of sets is a power of two: the masks that split an address, and  *)
(* what moving an entry to the end of a set does to the set.               *)
(***************************************************************************)
EXTENDS SetAccessor, SequenceTheorems, TLAPS

\* Clearing the offset bits of an address (dataTagMask) leaves its block
\* number alone and makes the offset 0.
LEMMA DivisionOfMultiple ==
    ASSUME NEW L \in Nat \ {0}, NEW a \in Nat
    PROVE  /\ (a - (a % L)) \in Nat
           /\ (a - (a % L)) \div L = a \div L
           /\ (a - (a % L)) % L = 0
<1>1. a = L * (a \div L) + (a % L) /\ a % L \in 0..(L - 1) /\ a \div L \in Nat
  BY Z3T(30)
<1> DEFINE q == a \div L
<1>2. a - (a % L) = L * q
  BY <1>1
<1>3. L * q \in Nat
  BY <1>1
<1>4. (L * q) % L = 0 /\ (L * q) \div L = q
  BY <1>1, Z3T(30)
<1> QED
  BY <1>1, <1>2, <1>3, <1>4

\* A tag is an address of its own line: indexing with it finds the set of
\* the address it was made from, and masking it again changes nothing.  This
\* is what lets handleWritePolicy pass a tag to the next level as an address.
LEMMA TagProperties ==
    ASSUME NEW c, IsCacheConfig(c), NEW adr \in Nat
    PROVE  /\ LocTag(c, adr) \in 0..(c.numberOfSets - 1)
           /\ DataTag(c, adr) \in Nat
           /\ LocTag(c, DataTag(c, adr)) = LocTag(c, adr)
           /\ DataTag(c, DataTag(c, adr)) = DataTag(c, adr)
<1>1. /\ c.numberOfSets \in Nat \ {0}
      /\ c.cacheLineSize \in Nat \ {0}
      /\ c.locTagRange = c.numberOfSets
  BY DEF IsCacheConfig
<1>2. /\ DataTag(c, adr) \in Nat
      /\ DataTag(c, adr) \div c.cacheLineSize = adr \div c.cacheLineSize
      /\ DataTag(c, adr) % c.cacheLineSize = 0
  BY <1>1, DivisionOfMultiple DEF DataTag
<1>3. adr \div c.cacheLineSize \in Nat
  BY <1>1, Z3T(30)
<1>4. LocTag(c, adr) \in 0..(c.numberOfSets - 1)
  <2>1. ASSUME NEW q \in Nat, NEW n \in Nat \ {0}
        PROVE  q % n \in 0..(n - 1)
    BY <2>1
  <2> QED
    BY <1>1, <1>3, <2>1 DEF LocTag
<1>5. LocTag(c, DataTag(c, adr)) = LocTag(c, adr)
  BY <1>2 DEF LocTag
<1>6. DataTag(c, DataTag(c, adr)) = DataTag(c, adr)
  <2> DEFINE t == DataTag(c, adr)
  <2>1. DataTag(c, t) = t - (t % c.cacheLineSize)
    BY DEF DataTag
  <2> HIDE DEF t
  <2> QED
    BY <1>2, <2>1 DEF t
<1> QED
  BY <1>2, <1>4, <1>5, <1>6

\* RemoveAt, entry by entry.
LEMMA RemoveAtProperties ==
    ASSUME NEW S, NEW s \in Seq(S), NEW i \in 1..Len(s)
    PROVE  /\ RemoveAt(s, i) \in Seq(S)
           /\ Len(RemoveAt(s, i)) = Len(s) - 1
           /\ \A j \in 1..(Len(s) - 1) :
                RemoveAt(s, i)[j] = IF j < i THEN s[j] ELSE s[j + 1]
<1> DEFINE front == SubSeq(s, 1, i - 1)
           back  == SubSeq(s, i + 1, Len(s))
<1>1. Len(s) \in Nat /\ i \in Int /\ \A j \in 1..Len(s) : s[j] \in S
  BY LenProperties, ElementOfSeq
<1>2. /\ front \in Seq(S)
      /\ Len(front) = i - 1
      /\ \A j \in 1..(i - 1) : front[j] = s[j]
  <2>1. \A j \in 1..(i - 1) : s[j] \in S
    BY <1>1
  <2> QED
    BY <1>1, <2>1, SubSeqProperties
<1>3. /\ back \in Seq(S)
      /\ Len(back) = Len(s) - i
      /\ \A j \in 1..(Len(s) - i) : back[j] = s[i + j]
  <2>1. \A j \in (i + 1)..Len(s) : s[j] \in S
    BY <1>1
  <2> HIDE DEF back
  <2>2. /\ back \in Seq(S)
        /\ Len(back) = IF i + 1 <= Len(s) THEN Len(s) - (i + 1) + 1 ELSE 0
        /\ \A j \in 1..(Len(s) - (i + 1) + 1) : back[j] = s[i + 1 + j - 1]
    BY <1>1, <2>1, SubSeqProperties, i + 1 \in Int, Len(s) \in Int DEF back
  <2> QED
    BY <1>1, <2>2
<1>4. RemoveAt(s, i) = front \o back
  BY DEF RemoveAt
<1> HIDE DEF front, back
<1>5. /\ front \o back \in Seq(S)
      /\ Len(front \o back) = Len(front) + Len(back)
      /\ \A j \in 1..(Len(front) + Len(back)) :
            (front \o back)[j] =
                IF j <= Len(front) THEN front[j] ELSE back[j - Len(front)]
  BY <1>2, <1>3, ConcatProperties
<1> QED
  BY <1>1, <1>2, <1>3, <1>4, <1>5

\* new is s without its entry i and with x as its last entry: every other place
\* holds what another place held, no two the same.
IsMoved(new, s, i, x) ==
    /\ Len(new) = Len(s)
    /\ new[Len(s)] = x
    /\ \A j \in (1..Len(s)) \ {Len(s)} : j \in 1..(Len(s) - 1)
    /\ \E from \in [1..(Len(s) - 1) -> (1..Len(s)) \ {i}] :
        /\ \A j \in 1..(Len(s) - 1) : new[j] = s[from[j]]
        /\ \A j, l \in 1..(Len(s) - 1) : from[j] = from[l] => j = l

LEMMA MovedEntries ==
    ASSUME NEW S, NEW s \in Seq(S), NEW i \in 1..Len(s), NEW x \in S
    PROVE  /\ Append(RemoveAt(s, i), x) \in Seq(S)
           /\ IsMoved(Append(RemoveAt(s, i), x), s, i, x)
<1> DEFINE r    == RemoveAt(s, i)
           new  == Append(r, x)
           from == [j \in 1..(Len(s) - 1) |-> IF j < i THEN j ELSE j + 1]
<1>1. Len(s) \in Nat
  BY LenProperties
<1>2. /\ r \in Seq(S)
      /\ Len(r) = Len(s) - 1
      /\ \A j \in 1..(Len(s) - 1) : r[j] = IF j < i THEN s[j] ELSE s[j + 1]
  BY RemoveAtProperties
<1> HIDE DEF r
<1>3. /\ new \in Seq(S)
      /\ Len(new) = Len(s)
      /\ \A j \in 1..(Len(s) - 1) : new[j] = r[j]
      /\ new[Len(s)] = x
  BY <1>1, <1>2, AppendProperties, LenProperties
<1> HIDE DEF new
<1>4. /\ from \in [1..(Len(s) - 1) -> (1..Len(s)) \ {i}]
      /\ \A j \in 1..(Len(s) - 1) : new[j] = s[from[j]]
      /\ \A j, l \in 1..(Len(s) - 1) : from[j] = from[l] => j = l
  BY <1>1, <1>2, <1>3
<1>5. \A j \in (1..Len(s)) \ {Len(s)} : j \in 1..(Len(s) - 1)
  BY <1>1
<1> HIDE DEF from
<1> QED
  BY <1>3, <1>4, <1>5 DEF IsMoved, new, r

\* The scan of a set stops at an entry with the tag it looks for.
LEMMA EntryOfProperties ==
    ASSUME NEW set, NEW dtag, \E i \in DOMAIN set : set[i].tag = dtag
    PROVE  /\ EntryOf(set, dtag) \in DOMAIN set
           /\ set[EntryOf(set, dtag)].tag = dtag
BY DEF EntryOf

\* The lines of a set after an entry was taken out and a line appended.
LEMMA ReplacedLines ==
    ASSUME NEW S, NEW s \in Seq(S), NEW i \in 1..Len(s), NEW x \in S
    PROVE  ToSet(Append(RemoveAt(s, i), x)) =
                {s[j] : j \in (1..Len(s)) \ {i}} \cup {x}
<1> DEFINE r == RemoveAt(s, i)
           new == Append(r, x)
<1>1. Len(s) \in Nat
  BY LenProperties
<1>2. /\ r \in Seq(S)
      /\ Len(r) = Len(s) - 1
      /\ \A j \in 1..(Len(s) - 1) : r[j] = IF j < i THEN s[j] ELSE s[j + 1]
  BY RemoveAtProperties
<1> HIDE DEF r
<1>3. /\ new \in Seq(S)
      /\ Len(new) = Len(s)
      /\ DOMAIN new = 1..Len(s)
      /\ \A j \in 1..(Len(s) - 1) : new[j] = r[j]
      /\ new[Len(s)] = x
  BY <1>1, <1>2, AppendProperties, LenProperties
<1> HIDE DEF new
<1>4. ASSUME NEW j \in 1..Len(s)
      PROVE  new[j] \in {s[l] : l \in (1..Len(s)) \ {i}} \cup {x}
  <2>1. CASE j = Len(s)
    BY <1>3, <2>1
  <2>2. CASE j # Len(s) /\ j < i
    BY <1>1, <1>2, <1>3, <2>2
  <2>3. CASE j # Len(s) /\ ~(j < i)
    <3>1. j + 1 \in (1..Len(s)) \ {i} /\ new[j] = s[j + 1]
      BY <1>1, <1>2, <1>3, <2>3
    <3> QED
      BY <3>1
  <2> QED
    BY <2>1, <2>2, <2>3
<1>5. ASSUME NEW j \in (1..Len(s)) \ {i}
      PROVE  \E l \in 1..Len(s) : new[l] = s[j]
  <2>1. CASE j < i
    <3>1. j \in 1..Len(s) /\ new[j] = s[j]
      BY <1>1, <1>2, <1>3, <2>1
    <3> QED
      BY <3>1
  <2>2. CASE i < j
    <3>1. j - 1 \in 1..(Len(s) - 1) /\ ~(j - 1 < i) /\ (j - 1) + 1 = j
      BY <1>1, <2>2
    <3>2. r[j - 1] = s[(j - 1) + 1]
      BY <1>2, <3>1
    <3>3. new[j - 1] = s[j] /\ j - 1 \in 1..Len(s)
      BY <1>1, <1>3, <3>1, <3>2
    <3> QED
      BY <3>3
  <2> QED
    BY <1>1, <2>1, <2>2
<1>6. Len(s) \in 1..Len(s)
  BY <1>1
<1> QED
  BY <1>3, <1>4, <1>5, <1>6 DEF ToSet, new, r

LEMMA AppendedLines ==
    ASSUME NEW S, NEW s \in Seq(S), NEW x \in S
    PROVE  ToSet(Append(s, x)) = ToSet(s) \cup {x}
<1> DEFINE new == Append(s, x)
<1>1. /\ Len(s) \in Nat
      /\ DOMAIN s = 1..Len(s)
      /\ new \in Seq(S)
      /\ Len(new) = Len(s) + 1
      /\ DOMAIN new = 1..(Len(s) + 1)
      /\ \A j \in 1..Len(s) : new[j] = s[j]
      /\ new[Len(s) + 1] = x
  BY AppendProperties, LenProperties
<1> HIDE DEF new
<1>2. 1..(Len(s) + 1) = (1..Len(s)) \cup {Len(s) + 1}
  BY <1>1
<1> QED
  BY <1>1, <1>2 DEF ToSet, new

LEMMA MultipleIsLarge ==
    ASSUME NEW m \in Nat \ {0}, NEW d \in Int, d >= 1
    PROVE  m * d >= m
<1>1. d - 1 \in Nat
  OBVIOUS
<1>2. m * (d - 1) >= 0
  BY <1>1
<1> QED
  BY <1>2

LEMMA RemaindersDiffer ==
    ASSUME NEW m \in Nat \ {0}, NEW d \in Int,
           NEW r \in 0..(m - 1), NEW s \in 0..(m - 1), r = s + m * d
    PROVE  d = 0
<1>1. CASE d >= 1
  BY <1>1, MultipleIsLarge
<1>2. CASE d <= -1
  <2>1. -d \in Int /\ -d >= 1
    BY <1>2
  <2>2. m * (-d) >= m
    BY ONLY <2>1, MultipleIsLarge, m \in Nat \ {0}
  <2>3. s = r + m * (-d)
    OBVIOUS
  <2> QED
    BY <2>2, <2>3
<1> QED
  BY <1>1, <1>2

LEMMA RemainderOfSum ==
    ASSUME NEW m \in Nat \ {0}, NEW b \in Int, NEW k \in Int
    PROVE  (b + k * m) % m = b % m
<1> DEFINE a == b + k * m
           p == a \div m
           q == b \div m
           r == a % m
           s == b % m
           d == (q + k) - p
<1>1. a \in Int
  OBVIOUS
<1> HIDE DEF a
<1>2. /\ r \in 0..(m - 1) /\ p \in Int /\ a = m * p + r
      /\ s \in 0..(m - 1) /\ q \in Int /\ b = m * q + s
  BY <1>1
<1> HIDE DEF p, q, r, s
<1>3. a = b + k * m
  BY DEF a
<1>4. d \in Int /\ r = s + m * d
  BY <1>2, <1>3
<1> HIDE DEF d
<1>5. d = 0
  BY <1>2, <1>4, RemaindersDiffer
<1>6. r = s
  BY <1>2, <1>4, <1>5
<1> QED
  BY <1>6 DEF r, s, a

=============================================================================
