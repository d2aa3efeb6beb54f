--------------------------- MODULE HashRingProofs ---------------------------
(***************************************************************************)
(* What holds of the hash ring for every set of nodes, every number of     *)
(* virtual nodes, every circle and every way CRC-32 may scatter the        *)
(* points: who owns a point, which point a lookup ends at, and which keys  *)
(* a membership change moves.                                              *)
(***************************************************************************)
EXTENDS HashRing, FiniteSetTheorems, SequenceTheorems, WellFoundedInduction, TLAPS

-----------------------------------------------------------------------------
(* Sorting.                                                                *)

\* A set of naturals has a least element.
LEMMA LeastNat ==
  ASSUME NEW S \in SUBSET Nat, S # {}
  PROVE  Min(S) \in S /\ \A y \in S : Min(S) <= y
<1>1. \E x \in S : \A y \in S : <<y, x>> \notin OpToRel(<, Nat)
  BY NatLessThanWellFounded, WFMin
<1>2. PICK x \in S : \A y \in S : <<y, x>> \notin OpToRel(<, Nat)
  BY <1>1
<1>3. \A y \in S : ~ (y < x)
  BY <1>2 DEF OpToRel
<1>4. \A y \in S : x <= y
  BY <1>3
<1> QED
  BY <1>4 DEF Min

\* A bounded set of naturals has a greatest element.
LEMMA GreatestNat ==
  ASSUME NEW S \in SUBSET Nat, S # {}, NEW b \in Nat, \A x \in S : x <= b
  PROVE  \E x \in S : \A y \in S : y <= x
<1> DEFINE T == {b - x : x \in S}
<1>1. T \in SUBSET Nat
  <2>1. \A x \in S : b - x \in Nat
    OBVIOUS
  <2> QED
    BY <2>1
<1>2. T # {}
  OBVIOUS
<1>3. PICK t \in T : \A u \in T : t <= u
  BY <1>1, <1>2, LeastNat
<1>4. PICK x \in S : t = b - x
  BY <1>3
<1>5. \A y \in S : x >= y
  BY <1>3, <1>4
<1> QED
  BY <1>5

\* Ascending lists the values of a function, all of them and no others, in
\* order.
LEMMA AscendingFacts ==
  ASSUME NEW S, IsFiniteSet(S), NEW b \in Nat, NEW key \in [S -> 0..b]
  PROVE  /\ Cardinality(S) \in Nat
         /\ Ascending(key) \in [1..Cardinality(S) -> Range(key)]
         /\ \A v \in Range(key) : \E r \in 1..Cardinality(S) : Ascending(key)[r] = v
         /\ \A r, q \in 1..Cardinality(S) :
              r <= q => Ascending(key)[r] <= Ascending(key)[q]
<1> DEFINE N == Cardinality(S)
           Below(v) == {k \in S : key[k] <= v}
           AtLeast(r) == {v \in Range(key) : Cardinality(Below(v)) >= r}
<1>1. N \in Nat
  BY FS_CardinalityType
<1>2. Range(key) \subseteq 0..b /\ Range(key) \subseteq Nat
      /\ \A k \in S : key[k] \in Range(key)
  BY DEF Range
<1>3. Ascending(key) = [r \in 1..N |-> Min(AtLeast(r))]
  BY DEF Ascending
<1>4. ASSUME NEW v \in Nat
      PROVE  IsFiniteSet(Below(v)) /\ Cardinality(Below(v)) \in Nat
  <2>1. Below(v) \in SUBSET S
    OBVIOUS
  <2> QED
    BY <2>1, FS_Subset, FS_CardinalityType
<1>5. ASSUME NEW v \in Nat, NEW w \in Nat, v <= w
      PROVE  /\ Cardinality(Below(v)) <= Cardinality(Below(w))
             /\ w \in Range(key) /\ Cardinality(Below(v)) = Cardinality(Below(w)) => v = w
  <2>1. Below(v) \in SUBSET Below(w)
    BY <1>2, <1>5
  <2>2. w \in Range(key) => \E k \in S : key[k] = w
    BY DEF Range
  <2>3. w \in Range(key) /\ Below(v) = Below(w) => v = w
    BY <1>5, <2>2
  <2> HIDE DEF Below
  <2> QED
    BY <1>4, <2>1, <2>3, FS_Subset
<1>6. ASSUME NEW r \in 1..N
      PROVE  AtLeast(r) \in SUBSET Nat /\ AtLeast(r) # {}
  <2>1. S # {}
    BY <1>1, FS_EmptySet
  <2>2. Range(key) \in SUBSET Nat /\ Range(key) # {} /\ \A x \in Range(key) : x <= b
    BY <1>2, <2>1
  <2>3. PICK x \in Range(key) : \A y \in Range(key) : y <= x
    BY <2>2, GreatestNat
  <2>4. Below(x) = S
    BY <1>2, <2>3
  <2>5. Cardinality(Below(x)) >= r
    BY <1>1, <2>4
  <2> QED
    BY <2>2, <2>5
<1> HIDE DEF Below
<1>7. ASSUME NEW r \in 1..N
      PROVE  /\ Ascending(key)[r] \in AtLeast(r)
             /\ \A y \in AtLeast(r) : Ascending(key)[r] <= y
  <2>1. Min(AtLeast(r)) \in AtLeast(r) /\ \A y \in AtLeast(r) : Min(AtLeast(r)) <= y
    BY <1>6, LeastNat
  <2> QED
    BY <1>3, <2>1
<1>8. Ascending(key) \in [1..N -> Range(key)]
  BY <1>3, <1>7
<1>9. ASSUME NEW v \in Range(key)
      PROVE  \E r \in 1..N : Ascending(key)[r] = v
  <2> DEFINE r == Cardinality(Below(v))
  <2>1. PICK k \in S : key[k] = v
    BY DEF Range
  <2>2. Below(v) \in SUBSET S /\ k \in Below(v)
    BY <1>2, <2>1 DEF Below
  <2>3. r \in 1..N
    BY <1>1, <1>2, <1>4, <2>2, FS_Subset, FS_EmptySet
  <2>4. v \in AtLeast(r)
    BY <1>2, <1>4
  <2>5. Ascending(key)[r] <= v /\ Ascending(key)[r] \in Range(key)
        /\ Cardinality(Below(Ascending(key)[r])) >= r
    BY <1>7, <2>3, <2>4
  <2>6. Cardinality(Below(Ascending(key)[r])) = r
    BY <1>2, <1>4, <1>5, <2>5
  <2> QED
    BY <1>2, <1>5, <2>3, <2>5, <2>6
<1>10. ASSUME NEW r \in 1..N, NEW q \in 1..N, r <= q
       PROVE  Ascending(key)[r] <= Ascending(key)[q]
  <2>1. Ascending(key)[q] \in AtLeast(q)
    BY <1>7
  <2>2. Ascending(key)[q] \in AtLeast(r)
    BY <1>2, <1>4, <1>10, <2>1
  <2> QED
    BY <1>7, <2>2
<1> QED
  BY <1>1, <1>8, <1>9, <1>10

\* The hashes are in ascending order, as bisection wants them.
Ordered(s) == \A i, j \in 1..Len(s) : i <= j => s[i] <= s[j]

LEMMA HashType ==
  /\ Circle \in Nat \ {0} /\ Circle - 1 \in Nat /\ Hash = 0..(Circle - 1)
  /\ \A h \in Hash : h \in Nat /\ h < Circle
BY HashRingAssumption DEF Hash

LEMMA OneTo ==
  ASSUME NEW n \in Nat
  PROVE  IsFiniteSet(1..n) /\ Cardinality(1..n) = n
BY FS_Interval

\* AscendingFacts, for a list.
LEMMA AscendingList ==
  ASSUME NEW n \in Nat, NEW s \in [1..n -> Hash]
  PROVE  /\ Ascending(s) \in [1..n -> Range(s)]
         /\ \A v \in Range(s) : \E r \in 1..n : Ascending(s)[r] = v
         /\ \A r, q \in 1..n : r <= q => Ascending(s)[r] <= Ascending(s)[q]
<1>1. PICK S : S = 1..n /\ IsFiniteSet(S) /\ Cardinality(S) = n
  BY OneTo
<1>2. PICK b \in Nat : s \in [S -> 0..b]
  <2>1. s \in [S -> 0..(Circle - 1)]
    BY <1>1, HashType
  <2> QED
    BY <2>1, HashType
<1>3. /\ Ascending(s) \in [1..Cardinality(S) -> Range(s)]
      /\ \A v \in Range(s) : \E r \in 1..Cardinality(S) : Ascending(s)[r] = v
      /\ \A r, q \in 1..Cardinality(S) : r <= q => Ascending(s)[r] <= Ascending(s)[q]
  BY <1>1, <1>2, AscendingFacts
<1> QED
  BY <1>1, <1>3

LEMMA SortedFacts ==
  ASSUME NEW s \in Seq(Hash)
  PROVE  Sorted(s) \in Seq(Hash) /\ Range(Sorted(s)) = Range(s) /\ Ordered(Sorted(s))
<1> DEFINE n == Len(s)
<1>1. n \in Nat /\ s \in [1..n -> Hash]
  OBVIOUS
<1>2. /\ Ascending(s) \in [1..n -> Range(s)]
      /\ \A v \in Range(s) : \E r \in 1..n : Ascending(s)[r] = v
      /\ \A r, q \in 1..n : r <= q => Ascending(s)[r] <= Ascending(s)[q]
  BY <1>1, AscendingList
<1>3. Range(s) \subseteq Hash
  BY DEF Range
<1>4. Ascending(s) \in Seq(Hash) /\ Len(Ascending(s)) = n
  BY <1>1, <1>2, <1>3
<1>5. Range(Ascending(s)) = Range(s)
  BY <1>2 DEF Range
<1> QED
  BY <1>2, <1>4, <1>5 DEF Sorted, Ordered

\* The indices in S, in order.
LEMMA Listing ==
  ASSUME NEW n \in Nat, NEW S \in SUBSET (1..n)
  PROVE  /\ Cardinality(S) \in Nat
         /\ Ascending([k \in S |-> k]) \in [1..Cardinality(S) -> S]
         /\ \A k \in S : \E r \in 1..Cardinality(S) : Ascending([i \in S |-> i])[r] = k
         /\ \A r, q \in 1..Cardinality(S) :
              r <= q => Ascending([k \in S |-> k])[r] <= Ascending([k \in S |-> k])[q]
<1> DEFINE key == [k \in S |-> k]
<1>1. IsFiniteSet(S)
  BY OneTo, FS_Subset
<1>2. key \in [S -> 0..n]
  OBVIOUS
<1>3. Range(key) = S
  <2>1. Range(key) = {key[k] : k \in S}
    BY DEF Range
  <2>2. \A k \in S : key[k] = k
    OBVIOUS
  <2> HIDE DEF key
  <2> QED
    BY <2>1, <2>2
<1> HIDE DEF key
<1>4. /\ Cardinality(S) \in Nat
      /\ Ascending(key) \in [1..Cardinality(S) -> Range(key)]
      /\ \A v \in Range(key) : \E r \in 1..Cardinality(S) : Ascending(key)[r] = v
      /\ \A r, q \in 1..Cardinality(S) : r <= q => Ascending(key)[r] <= Ascending(key)[q]
  BY <1>1, <1>2, AscendingFacts
<1> QED
  BY <1>3, <1>4 DEF key

LEMMA FilteredFacts ==
  ASSUME NEW s \in Seq(Hash), Ordered(s), NEW gone
  PROVE  /\ Filtered(s, gone) \in Seq(Hash)
         /\ Range(Filtered(s, gone)) = Range(s) \ gone
         /\ Ordered(Filtered(s, gone))
<1> DEFINE n == Len(s)
           S == {k \in 1..n : s[k] \notin gone}
           kept == Ascending([k \in S |-> k])
           N == Cardinality(S)
           t == Filtered(s, gone)
<1>1. n \in Nat /\ DOMAIN s = 1..n
  OBVIOUS
<1>2. t = [r \in DOMAIN kept |-> s[kept[r]]]
  BY <1>1 DEF Filtered
<1>3. /\ N \in Nat
      /\ kept \in [1..N -> S]
      /\ \A k \in S : \E r \in 1..N : kept[r] = k
      /\ \A r, q \in 1..N : r <= q => kept[r] <= kept[q]
  <2>1. S \in SUBSET (1..n)
    OBVIOUS
  <2> HIDE DEF S
  <2> QED
    BY <1>1, <2>1, Listing
<1> HIDE DEF kept, N, t
<1>4. t = [r \in 1..N |-> s[kept[r]]] /\ \A r \in 1..N : kept[r] \in S
  BY <1>2, <1>3
<1>5. t \in Seq(Hash) /\ Len(t) = N
  <2>1. \A r \in 1..N : s[kept[r]] \in Hash
    BY <1>1, <1>4
  <2> QED
    BY <1>3, <1>4, <2>1
<1>6. Range(t) = Range(s) \ gone
  <2>1. ASSUME NEW v \in Range(t)
        PROVE  v \in Range(s) \ gone
    <3>1. PICK r \in 1..N : v = s[kept[r]]
      BY <1>4 DEF Range
    <3> QED
      BY <1>1, <1>4, <3>1 DEF Range
  <2>2. ASSUME NEW v \in Range(s) \ gone
        PROVE  v \in Range(t)
    <3>1. PICK k \in S : v = s[k]
      BY <1>1 DEF Range
    <3>2. PICK r \in 1..N : kept[r] = k
      BY <1>3
    <3> QED
      BY <1>4, <3>1, <3>2 DEF Range
  <2> QED
    BY <2>1, <2>2
<1>7. Ordered(t)
  <2> SUFFICES ASSUME NEW r \in 1..N, NEW q \in 1..N, r <= q
               PROVE  t[r] <= t[q]
    BY <1>5 DEF Ordered
  <2>1. kept[r] \in 1..n /\ kept[q] \in 1..n /\ kept[r] <= kept[q]
    BY <1>3, <1>4
  <2> QED
    BY <1>4, <2>1 DEF Ordered
<1> QED
  BY <1>5, <1>6, <1>7 DEF t

-----------------------------------------------------------------------------
(* Bisection.                                                              *)

\* h lies between the first c hashes and the others.
Cut(c, h) ==
  /\ c \in 0..Len(sortedHashes)
  /\ \A k \in 1..c : sortedHashes[k] < h
  /\ \A k \in (c + 1)..Len(sortedHashes) : sortedHashes[k] >= h

LEMMA CutExists ==
  ASSUME sortedHashes \in Seq(Hash), Ordered(sortedHashes), NEW h \in Hash
  PROVE  \E c \in Nat : Cut(c, h)
<1> DEFINE n == Len(sortedHashes)
           T == {c \in 0..n : \A k \in (c + 1)..n : sortedHashes[k] >= h}
<1>1. n \in Nat /\ h \in Int /\ \A k \in 1..n : sortedHashes[k] \in Int
  BY HashType
<1>2. n \in T /\ T \in SUBSET Nat
  BY <1>1
<1>3. PICK c \in T : \A d \in T : c <= d
  BY <1>2, LeastNat
<1>4. ASSUME NEW k \in 1..c, ~ (sortedHashes[k] < h)
      PROVE  FALSE
  <2>1. k - 1 \in 0..n /\ k \in 1..n /\ c \in 0..n
    BY <1>1, <1>3
  <2>2. \A i \in k..n : sortedHashes[i] >= h
    BY <1>1, <1>4, <2>1 DEF Ordered
  <2>3. k - 1 \in T
    BY <2>1, <2>2
  <2> HIDE DEF T
  <2>4. c <= k - 1
    BY <1>3, <2>3
  <2> QED
    BY <2>1, <2>4
<1> QED
  BY <1>1, <1>3, <1>4 DEF Cut

\* The recursion of Search from i to j, for the function that from stands for.
Step(n, h, from, i, j) ==
  LET m == (i + j) \div 2
  IN  IF i >= j THEN i
      ELSE IF AtOrAfter(sortedHashes[m + 1], h) THEN from[<<i, m>>] ELSE from[<<m + 1, j>>]
Bisects(n, h, from) == from = [ij \in (0..n) \X (0..n) |-> Step(n, h, from, ij[1], ij[2])]

\* A function that bisects returns the cut, clamped to the interval.
Clamp(c, i, j) == IF i >= j \/ c < i THEN i ELSE IF c > j THEN j ELSE c

\* It does so on all intervals within this one that are shorter.
ClampsWithin(c, from, i, j) ==
  \A a, b \in 0..Len(sortedHashes) :
    i <= a /\ b <= j /\ b - a < j - i => from[<<a, b>>] = Clamp(c, a, b)

LEMMA ClampBisects ==
  ASSUME sortedHashes \in Seq(Hash), NEW h \in Hash, NEW c, Cut(c, h),
         NEW from, NEW i \in 0..Len(sortedHashes), NEW j \in 0..Len(sortedHashes),
         ClampsWithin(c, from, i, j)
  PROVE  Step(Len(sortedHashes), h, from, i, j) = Clamp(c, i, j)
<1> DEFINE n == Len(sortedHashes)
           m == (i + j) \div 2
<1>1. CASE i >= j
  BY <1>1 DEF Step, Clamp
<1>2. CASE i < j
  <2>1. n \in Nat /\ m \in Int /\ i <= m /\ m < j /\ m + 1 \in 1..n /\ c \in Int
    BY <1>2 DEF Cut
  <2>2. sortedHashes[m + 1] >= h <=> c <= m
    <3>1. sortedHashes[m + 1] \in Int /\ h \in Int
      BY <2>1, HashType
    <3> QED
      BY <2>1, <3>1 DEF Cut
  <2> HIDE DEF m
  <2>3. CASE c <= m
    <3>1. Step(n, h, from, i, j) = from[<<i, m>>]
      BY <1>2, <2>1, <2>2, <2>3 DEF Step, AtOrAfter, m
    <3>2. from[<<i, m>>] = Clamp(c, i, m)
      BY <1>2, <2>1 DEF ClampsWithin
    <3> QED
      BY <1>2, <2>1, <2>3, <3>1, <3>2 DEF Clamp
  <2>4. CASE ~ (c <= m)
    <3>1. Step(n, h, from, i, j) = from[<<m + 1, j>>]
      BY <1>2, <2>1, <2>2, <2>4 DEF Step, AtOrAfter, m
    <3>2. from[<<m + 1, j>>] = Clamp(c, m + 1, j)
      BY <1>2, <2>1 DEF ClampsWithin
    <3> QED
      BY <1>2, <2>1, <2>4, <3>1, <3>2 DEF Clamp
  <2> QED
    BY <2>3, <2>4
<1> QED
  BY <1>1, <1>2

LEMMA BisectsExists ==
  ASSUME sortedHashes \in Seq(Hash), NEW h \in Hash, NEW c, Cut(c, h)
  PROVE  \E from : Bisects(Len(sortedHashes), h, from)
<1> DEFINE n == Len(sortedHashes)
           I == (0..n) \X (0..n)
           G == [ij \in I |-> Clamp(c, ij[1], ij[2])]
<1>1. \A i, j \in 0..n : G[<<i, j>>] = Clamp(c, i, j)
  OBVIOUS
<1> HIDE DEF G
<1>2. ASSUME NEW i \in 0..n, NEW j \in 0..n
      PROVE  Step(n, h, G, i, j) = Clamp(c, i, j)
  <2>1. ClampsWithin(c, G, i, j)
    BY <1>1 DEF ClampsWithin
  <2> QED
    BY <2>1, ClampBisects
<1>3. \A ij \in I : Step(n, h, G, ij[1], ij[2]) = Clamp(c, ij[1], ij[2])
  BY <1>2
<1>4. G = [ij \in I |-> Step(n, h, G, ij[1], ij[2])]
  BY <1>3 DEF G
<1> QED
  BY <1>4 DEF Bisects

LEMMA BisectsIsClamp ==
  ASSUME sortedHashes \in Seq(Hash), NEW h \in Hash, NEW c, Cut(c, h),
         NEW from, Bisects(Len(sortedHashes), h, from)
  PROVE  from[<<0, Len(sortedHashes)>>] = c
<1> DEFINE n == Len(sortedHashes)
           Wrong(i, j) == from[<<i, j>>] # Clamp(c, i, j)
           D == {d \in Nat : \E i, j \in 0..n : j - i = d /\ Wrong(i, j)}
<1>1. n \in Nat
  OBVIOUS
<1>2. ASSUME NEW i \in 0..n, NEW j \in 0..n
      PROVE  from[<<i, j>>] = Step(n, h, from, i, j)
  BY DEF Bisects
<1>3. ASSUME NEW i \in 0..n, NEW j \in 0..n, Wrong(i, j)
      PROVE  j - i \in D
  <2>1. ASSUME i >= j
        PROVE  FALSE
    <3>1. Step(n, h, from, i, j) = i
      BY <2>1 DEF Step
    <3>2. Clamp(c, i, j) = i
      BY <2>1 DEF Clamp
    <3> QED
      BY <1>2, <1>3, <3>1, <3>2
  <2>2. j - i \in Nat
    BY <1>1, <2>1
  <2> HIDE DEF Wrong
  <2> QED
    BY <1>3, <2>2
<1>4. D = {}
  <2> SUFFICES ASSUME D # {}
               PROVE  FALSE
    OBVIOUS
  <2>1. PICK d \in D : \A e \in D : d <= e
    BY LeastNat
  <2>2. PICK i \in 0..n, j \in 0..n : j - i = d /\ Wrong(i, j)
    BY <2>1
  <2>3. ClampsWithin(c, from, i, j)
    <3> SUFFICES ASSUME NEW a \in 0..n, NEW b \in 0..n, b - a < j - i, Wrong(a, b)
                 PROVE  FALSE
      BY DEF ClampsWithin
    <3>1. b - a \in D
      BY <1>3
    <3> HIDE DEF D
    <3>2. d <= b - a
      BY <2>1, <3>1
    <3> QED
      BY <1>1, <2>2, <3>2
  <2>4. Step(n, h, from, i, j) = Clamp(c, i, j)
    BY <2>3, ClampBisects
  <2> QED
    BY <1>2, <2>2, <2>4
<1>5. ~ Wrong(0, n)
  <2>1. 0 \in 0..n /\ n \in 0..n
    BY <1>1
  <2> HIDE DEF D, Wrong, n
  <2>2. Wrong(0, n) => n - 0 \in D
    BY <1>3, <2>1
  <2> QED
    BY <1>4, <2>2
<1> QED
  BY <1>1, <1>5 DEF Clamp, Cut

\* Search finds the cut.
LEMMA SearchIsCut ==
  ASSUME sortedHashes \in Seq(Hash), Ordered(sortedHashes), NEW h \in Hash
  PROVE  Cut(Search(Len(sortedHashes), h), h)
<1> DEFINE n == Len(sortedHashes)
<1>1. PICK c \in Nat : Cut(c, h)
  BY CutExists
<1>2. \E from : Bisects(n, h, from)
  BY <1>1, BisectsExists
<1>3. Search(n, h) = (CHOOSE from : Bisects(n, h, from))[<<0, n>>]
  BY DEF Search, Bisects, Step
<1>4. Bisects(n, h, CHOOSE from : Bisects(n, h, from))
  BY <1>2, Zenon
<1>5. (CHOOSE from : Bisects(n, h, from))[<<0, n>>] = c
  BY <1>1, <1>4, BisectsIsClamp
<1> QED
  BY <1>1, <1>3, <1>5

-----------------------------------------------------------------------------
(* The point a lookup ends at.                                             *)

LEMMA ClockwiseIs ==
  ASSUME NEW h \in Hash, NEW p \in Hash
  PROVE  Clockwise(h, p) = IF p >= h THEN p - h ELSE p - h + Circle
<1>1. Circle \in Nat \ {0} /\ h \in 0..(Circle - 1) /\ p \in 0..(Circle - 1)
  BY HashType
<1>2. ASSUME NEW x \in 0..(Circle - 1)
      PROVE  x % Circle = x /\ (x + Circle) % Circle = x
  BY <1>1
<1>3. CASE p >= h
  <2>1. p - h \in 0..(Circle - 1)
    BY <1>1, <1>3
  <2> QED
    BY <1>2, <1>3, <2>1 DEF Clockwise
<1>4. CASE ~ (p >= h)
  <2>1. p - h + Circle \in 0..(Circle - 1)
    BY <1>1, <1>4
  <2> QED
    BY <1>2, <1>4, <2>1 DEF Clockwise
<1> QED
  BY <1>3, <1>4

\* A walk clockwise from h meets p before any other point on the ring.
Lands(h, p) ==
  /\ p \in Range(sortedHashes)
  /\ \A q \in Range(sortedHashes) : Clockwise(h, p) <= Clockwise(h, q)

\* It is one point.
LEMMA OnePoint ==
  ASSUME NEW h \in Hash, NEW p \in Hash, NEW q \in Hash,
         Clockwise(h, p) <= Clockwise(h, q), Clockwise(h, q) <= Clockwise(h, p)
  PROVE  p = q
<1>1. /\ Clockwise(h, p) = IF p >= h THEN p - h ELSE p - h + Circle
      /\ Clockwise(h, q) = IF q >= h THEN q - h ELSE q - h + Circle
  BY ClockwiseIs
<1>2. /\ Circle \in Nat /\ h \in Nat /\ p \in Nat /\ q \in Nat
      /\ h < Circle /\ p < Circle /\ q < Circle
  BY HashType
<1>3. Clockwise(h, p) = Clockwise(h, q)
  BY <1>1, <1>2
<1> QED
  BY <1>1, <1>2, <1>3

\* The owner of the point where a walk from h ends, nobody on an empty ring.
Answered(h) ==
  IF sortedHashes = <<>> THEN GetResponsibleNode(h) = NoNode
  ELSE \E p : Lands(h, p) /\ GetResponsibleNode(h) = hashToNode[p]

LEMMA LookupAnswers ==
  ASSUME TypeOK, Ordered(sortedHashes), NEW h \in Hash
  PROVE  Answered(h)
<1> DEFINE n == Len(sortedHashes)
           idx == Search(n, h)
           i == IF idx >= n THEN 1 ELSE idx + 1
           p == sortedHashes[i]
<1>1. sortedHashes \in Seq(Hash) /\ n \in Nat /\ hashToNode \in [Range(sortedHashes) -> Address]
  BY DEF TypeOK
<1>2. CASE sortedHashes = <<>>
  BY <1>2 DEF GetResponsibleNode, Answered
<1>3. CASE sortedHashes # <<>>
  <2>1. n # 0 /\ GetResponsibleNode(h) = IF p \in DOMAIN hashToNode THEN hashToNode[p] ELSE NoNode
    BY <1>1, <1>3 DEF GetResponsibleNode
  <2>2. Cut(idx, h)
    BY <1>1, SearchIsCut
  <2> HIDE DEF idx
  <2>3. i \in 1..n
    BY <1>1, <2>1, <2>2 DEF Cut
  <2>4. p \in Hash /\ p \in Range(sortedHashes)
    BY <1>1, <2>3 DEF Range
  <2>5. ASSUME NEW k \in 1..n
        PROVE  Clockwise(h, p) <= Clockwise(h, sortedHashes[k])
    <3> DEFINE q == sortedHashes[k]
    <3>1. q \in Hash
      BY <1>1
    <3>2. p <= q \/ (q < h /\ h <= p)
      BY <1>1, <2>1, <2>2, <2>3 DEF Cut, Ordered
    <3>3. p < h => q < h
      <4>1. p \in Nat /\ q \in Nat /\ h \in Nat
        BY <2>4, <3>1, HashType
      <4>2. CASE idx >= n
        BY <1>1, <2>2, <4>2 DEF Cut
      <4>3. CASE ~ (idx >= n)
        <5>1. i = idx + 1 /\ i \in (idx + 1)..n
          BY <1>1, <2>2, <4>3 DEF Cut
        <5>2. p >= h
          BY <2>2, <5>1 DEF Cut
        <5> QED
          BY <4>1, <5>2
      <4> QED
        BY <4>2, <4>3
    <3> HIDE DEF p, q
    <3>4. Clockwise(h, p) <= Clockwise(h, q)
      BY <2>4, <3>1, <3>2, <3>3, ClockwiseIs, HashType
    <3> QED
      BY <3>4 DEF q
  <2>6. Lands(h, p)
    <3>1. \A q \in Range(sortedHashes) : \E k \in 1..n : q = sortedHashes[k]
      BY <1>1 DEF Range
    <3> QED
      BY <2>4, <2>5, <3>1 DEF Lands
  <2>7. GetResponsibleNode(h) = hashToNode[p]
    BY <1>1, <2>1, <2>4
  <2> QED
    BY <1>3, <2>6, <2>7 DEF Answered
<1> QED
  BY <1>2, <1>3

-----------------------------------------------------------------------------
(* The invariant: bisection may be used, every point has an owner that is  *)
(* on the ring and has that point, and no member lacks a point unless a    *)
(* removal took one it shared.                                             *)

Owned ==
  \A p \in DOMAIN hashToNode : hashToNode[p] \in members /\ p \in Points(hashToNode[p])
Complete ==
  (removed => \A a \in Address : Apart(a)) =>
    \A a \in members : Points(a) \subseteq Range(sortedHashes)

RingInv == TypeOK /\ Ordered(sortedHashes) /\ Owned /\ Complete

LEMMA PointsType ==
  ASSUME TypeOK, NEW a \in Address
  PROVE  Points(a) \subseteq Hash /\ Points(a) # {}
<1>1. 1 \in 1..virtualNodes
  BY HashRingAssumption
<1>2. \A i \in 1..virtualNodes : crc[<<a, i>>] \in Hash
  BY DEF TypeOK
<1> QED
  BY <1>1, <1>2 DEF Points

\* What a change does to the points on the ring.
LEMMA AddRange ==
  ASSUME TypeOK, NEW a \in Address, AddNode(a)
  PROVE  /\ sortedHashes' \in Seq(Hash) /\ Ordered(sortedHashes')
         /\ Range(sortedHashes') = Range(sortedHashes) \cup Points(a)
<1> DEFINE v == virtualNodes
           new == [i \in 1..v |-> crc[<<a, i>>]]
           s == sortedHashes \o new
           n == Len(sortedHashes)
<1>1. v \in Nat /\ sortedHashes \in Seq(Hash) /\ n \in Nat
  BY HashRingAssumption DEF TypeOK
<1>2. \A i \in 1..v : crc[<<a, i>>] \in Hash
  BY DEF TypeOK
<1>3. new \in Seq(Hash) /\ Len(new) = v
  <2>1. new \in [1..v -> Hash]
    BY <1>2
  <2> HIDE DEF new
  <2> QED
    BY <1>1, <2>1
<1>4. Range(new) = Points(a)
  BY DEF Range, Points
<1> HIDE DEF new
<1>5. s \in Seq(Hash) /\ Len(s) = n + v
      /\ \A k \in 1..(n + v) : s[k] = IF k <= n THEN sortedHashes[k] ELSE new[k - n]
  BY <1>1, <1>3
<1>6. Range(s) = Range(sortedHashes) \cup Range(new)
  <2>1. \A k \in 1..n : k \in 1..(n + v) /\ s[k] = sortedHashes[k]
    BY <1>1, <1>5
  <2>2. \A k \in 1..v : n + k \in 1..(n + v) /\ s[n + k] = new[k]
    BY <1>1, <1>5
  <2>3. \A k \in 1..(n + v) : IF k <= n THEN k \in 1..n ELSE k - n \in 1..v
    BY <1>1
  <2>4. DOMAIN s = 1..(n + v) /\ DOMAIN new = 1..v /\ DOMAIN sortedHashes = 1..n
    BY <1>1, <1>3, <1>5
  <2>5. Range(s) \subseteq Range(sortedHashes) \cup Range(new)
    BY <1>5, <2>3, <2>4 DEF Range
  <2>6. Range(sortedHashes) \cup Range(new) \subseteq Range(s)
    BY <2>1, <2>2, <2>4 DEF Range
  <2> QED
    BY <2>5, <2>6
<1> HIDE DEF s
<1>7. sortedHashes' = Sorted(s)
  BY DEF AddNode, s, new
<1> QED
  BY <1>4, <1>5, <1>6, <1>7, SortedFacts

LEMMA RemoveRange ==
  ASSUME TypeOK, Ordered(sortedHashes), NEW a \in Address, RemoveNode(a)
  PROVE  /\ sortedHashes' \in Seq(Hash) /\ Ordered(sortedHashes')
         /\ Range(sortedHashes') = Range(sortedHashes) \ Points(a)
<1>1. sortedHashes \in Seq(Hash)
  BY DEF TypeOK
<1>2. sortedHashes' = Filtered(sortedHashes, Points(a))
  BY DEF RemoveNode
<1> QED
  BY <1>1, <1>2, FilteredFacts

\* Where a node's points are never changes.
LEMMA SamePoints ==
  ASSUME UNCHANGED crc
  PROVE  \A a : Points(a)' = Points(a)
BY DEF Points

LEMMA RingInit == Init => RingInv
<1> SUFFICES ASSUME Init
             PROVE  RingInv
  OBVIOUS
<1>1. sortedHashes = <<>> /\ Range(sortedHashes) = {} /\ hashToNode = <<>> /\ DOMAIN hashToNode = {}
  BY DEF Init, Range
<1>2. hashToNode \in [Range(sortedHashes) -> Address]
  BY <1>1
<1>3. TypeOK
  <2>1. sortedHashes \in Seq(Hash)
    BY <1>1
  <2>2. crc \in [Address \X (1..virtualNodes) -> Hash] /\ members = {} /\ removed = FALSE
    BY DEF Init
  <2> QED
    BY <1>2, <2>1, <2>2 DEF TypeOK
<1>4. Ordered(sortedHashes)
  BY <1>1 DEF Ordered
<1>5. Owned /\ Complete
  BY <1>1 DEF Init, Owned, Complete
<1> QED
  BY <1>3, <1>4, <1>5 DEF RingInv

LEMMA RingAdd ==
  ASSUME RingInv, NEW a \in Address, AddNode(a)
  PROVE  RingInv'
<1>1. TypeOK /\ Owned /\ Complete /\ hashToNode \in [Range(sortedHashes) -> Address]
  BY DEF RingInv, TypeOK
<1>2. /\ hashToNode' = [h \in DOMAIN hashToNode \cup Points(a) |->
                          IF h \in Points(a) THEN a ELSE hashToNode[h]]
      /\ members' = members \cup {a} /\ crc' = crc /\ removed' = removed
  BY DEF AddNode
<1>3. /\ sortedHashes' \in Seq(Hash) /\ Ordered(sortedHashes')
      /\ Range(sortedHashes') = Range(sortedHashes) \cup Points(a)
  BY <1>1, AddRange
<1>4. \A b : Points(b)' = Points(b)
  BY <1>2, SamePoints
<1>5. DOMAIN hashToNode' = Range(sortedHashes')
      /\ hashToNode' \in [Range(sortedHashes') -> Address]
  BY <1>1, <1>2, <1>3
<1>6. TypeOK'
  <2>1. Range(sortedHashes)' = Range(sortedHashes')
    BY DEF Range
  <2> QED
    BY <1>1, <1>2, <1>3, <1>5, <2>1 DEF TypeOK
<1>7. Owned'
  BY <1>1, <1>2, <1>4 DEF Owned
<1>8. Complete'
  BY <1>1, <1>2, <1>3, <1>4 DEF Complete, Apart
<1>9. Ordered(sortedHashes)'
  BY <1>3 DEF Ordered
<1> QED
  BY <1>6, <1>7, <1>8, <1>9 DEF RingInv

LEMMA RingRemove ==
  ASSUME RingInv, NEW a \in Address, RemoveNode(a)
  PROVE  RingInv'
<1>1. TypeOK /\ Ordered(sortedHashes) /\ Owned /\ Complete
      /\ hashToNode \in [Range(sortedHashes) -> Address]
  BY DEF RingInv, TypeOK
<1>2. /\ hashToNode' = [h \in DOMAIN hashToNode \ Points(a) |-> hashToNode[h]]
      /\ members' = members \ {a} /\ crc' = crc
      /\ removed' = (removed \/ sortedHashes # <<>>)
  BY DEF RemoveNode, Without, Restrict
<1>3. /\ sortedHashes' \in Seq(Hash) /\ Ordered(sortedHashes')
      /\ Range(sortedHashes') = Range(sortedHashes) \ Points(a)
  BY <1>1, RemoveRange
<1>4. \A b : Points(b)' = Points(b)
  BY <1>2, SamePoints
<1>5. hashToNode' \in [Range(sortedHashes') -> Address]
  BY <1>1, <1>2, <1>3
<1>6. TypeOK'
  <2>1. Range(sortedHashes)' = Range(sortedHashes')
    BY DEF Range
  <2> QED
    BY <1>1, <1>2, <1>3, <1>5, <2>1 DEF TypeOK
<1>7. Owned'
  BY <1>1, <1>2, <1>4 DEF Owned
<1>8. Complete'
  <2> SUFFICES ASSUME removed' => \A c \in Address : Apart(c)', NEW b \in members'
               PROVE  Points(b)' \subseteq Range(sortedHashes)'
    BY DEF Complete
  <2>1. removed' => \A c \in Address : Apart(c)
    BY <1>4 DEF Apart
  <2>2. removed => \A c \in Address : Apart(c)
    BY <1>2, <2>1
  <2>3. Points(b) \subseteq Range(sortedHashes) /\ b \in Address /\ b # a
    BY <1>1, <1>2, <2>2 DEF Complete, TypeOK
  <2>4. sortedHashes # <<>>
    <3>1. sortedHashes = <<>> => Range(sortedHashes) = {}
      BY DEF Range
    <3> QED
      BY <1>1, <2>3, <3>1, PointsType
  <2>5. Points(b) \cap Points(a) = {}
    BY <1>2, <2>1, <2>3, <2>4 DEF Apart
  <2>6. Points(b) \subseteq Range(sortedHashes')
    BY <1>3, <2>3, <2>5
  <2>7. Range(sortedHashes)' = Range(sortedHashes')
    BY DEF Range
  <2> QED
    BY <1>4, <2>6, <2>7
<1>9. Ordered(sortedHashes)'
  BY <1>3 DEF Ordered
<1> QED
  BY <1>6, <1>7, <1>8, <1>9 DEF RingInv

LEMMA RingStep ==
  ASSUME RingInv, [Next]_vars
  PROVE  RingInv'
<1>1. ASSUME NEW a \in Address, AddNode(a)
      PROVE  RingInv'
  BY <1>1, RingAdd
<1>2. ASSUME NEW a \in Address, RemoveNode(a)
      PROVE  RingInv'
  BY <1>2, RingRemove
<1>3. CASE UNCHANGED vars
  <2>1. /\ sortedHashes' = sortedHashes /\ hashToNode' = hashToNode /\ crc' = crc
        /\ members' = members /\ removed' = removed
    BY <1>3 DEF vars
  <2>2. \A b : Points(b)' = Points(b)
    BY <2>1, SamePoints
  <2>3. TypeOK' /\ Ordered(sortedHashes)'
    BY <2>1 DEF RingInv, TypeOK, Ordered, Range
  <2>4. Owned'
    BY <2>1, <2>2 DEF RingInv, Owned
  <2>5. Complete'
    BY <2>1, <2>2 DEF RingInv, Complete, Apart, Range
  <2> QED
    BY <2>3, <2>4, <2>5 DEF RingInv
<1> QED
  BY <1>1, <1>2, <1>3 DEF Next

LEMMA RingAlways == Spec => []RingInv
BY RingInit, RingStep, PTL DEF Spec

\* The list and the map of the ring describe the same points of the circle,
\* whatever is added and removed: a point that GetResponsibleNode finds in
\* sortedHashes is a key of hashToNode.
THEOREM RingTypes == Spec => []TypeOK
BY RingAlways, PTL DEF RingInv

-----------------------------------------------------------------------------
(* Lookups.                                                                *)

\* Nodes() lists exactly the nodes that were added and not removed since,
\* unless points of two of them coincide.
THEOREM RingListsMembers == Spec => []NodesAreMembers
<1>1. ASSUME RingInv
      PROVE  NodesAreMembers
  <2> SUFFICES ASSUME \A a \in Address : Apart(a)
               PROVE  Nodes = members
    BY DEF NodesAreMembers
  <2>1. TypeOK /\ Owned /\ Complete /\ hashToNode \in [Range(sortedHashes) -> Address]
    BY <1>1 DEF RingInv, TypeOK
  <2>2. Nodes \subseteq members
    BY <2>1 DEF Nodes, Range, Owned
  <2>3. ASSUME NEW a \in members
        PROVE  a \in Nodes
    <3>1. a \in Address
      BY <2>1 DEF TypeOK
    <3>2. PICK p \in Points(a) : p \in Range(sortedHashes)
      BY <2>1, <3>1, PointsType DEF Complete
    <3>3. hashToNode[p] \in Address /\ p \in Points(hashToNode[p])
      BY <2>1, <3>2 DEF Owned
    <3>4. hashToNode[p] = a
      BY <3>1, <3>2, <3>3 DEF Apart
    <3> QED
      BY <2>1, <3>2, <3>4 DEF Nodes, Range
  <2> QED
    BY <2>2, <2>3
<1> QED
  BY <1>1, RingAlways, PTL

\* A lookup ends at a node that the walk clockwise from the key meets first, as
\* long as no removal took points that two nodes share; on an empty ring, and
\* only there, it ends nowhere.
THEOREM RingFindsNearest == Spec => []LookupIsNearest
<1>1. ASSUME RingInv
      PROVE  LookupIsNearest
  <2> SUFFICES ASSUME removed => \A a \in Address : Apart(a), NEW h \in Hash
               PROVE  GetResponsibleNode(h) \in IF members = {} THEN {NoNode} ELSE Nearest(h)
    BY DEF LookupIsNearest, LookupAlwaysNearest
  <2>1. /\ TypeOK /\ Owned /\ hashToNode \in [Range(sortedHashes) -> Address]
        /\ sortedHashes \in Seq(Hash) /\ members \subseteq Address
    BY <1>1 DEF RingInv, TypeOK
  <2>2. \A a \in members : Points(a) \subseteq Range(sortedHashes) /\ Points(a) # {}
    BY <1>1, <2>1, PointsType DEF RingInv, Complete
  <2>3. Answered(h)
    BY <1>1, LookupAnswers DEF RingInv
  <2>4. sortedHashes = <<>> <=> Range(sortedHashes) = {}
    BY <2>1 DEF Range
  <2>5. CASE members = {}
    <3>1. Range(sortedHashes) = {}
      BY <2>1, <2>5 DEF Owned
    <3> QED
      BY <2>3, <2>4, <2>5, <3>1 DEF Answered
  <2>6. CASE members # {}
    <3>1. sortedHashes # <<>>
      BY <2>2, <2>4, <2>6
    <3>2. PICK p : Lands(h, p) /\ GetResponsibleNode(h) = hashToNode[p]
      BY <2>3, <3>1 DEF Answered
    <3>3. p \in Range(sortedHashes) /\ hashToNode[p] \in members /\ p \in Points(hashToNode[p])
      BY <2>1, <3>2 DEF Lands, Owned
    <3>4. \A b \in members : \A q \in Points(b) : Clockwise(h, p) <= Clockwise(h, q)
      BY <2>2, <3>2 DEF Lands
    <3> QED
      BY <2>6, <3>2, <3>3, <3>4 DEF Nearest
  <2> QED
    BY <2>5, <2>6
<1> QED
  BY <1>1, RingAlways, PTL

-----------------------------------------------------------------------------
(* Which keys a change moves.                                              *)

AllAnswered == \A h \in Hash : Answered(h)

LEMMA AnsweredAlways == RingInv => AllAnswered
BY LookupAnswers DEF RingInv, AllAnswered

LEMMA AnsweredNext == RingInv' => AllAnswered'
BY AnsweredAlways, PTL

LEMMA LandsNext ==
  ASSUME NEW h, NEW p
  PROVE  Lands(h, p)' <=> /\ p \in Range(sortedHashes')
                          /\ \A q \in Range(sortedHashes') : Clockwise(h, p) <= Clockwise(h, q)
BY DEF Lands, Range, Clockwise

LEMMA AddMoves ==
  ASSUME RingInv, RingInv', NEW a \in Address, AddNode(a), NEW h \in Hash
  PROVE  GetResponsibleNode(h)' \in {GetResponsibleNode(h), a}
<1>1. TypeOK /\ Answered(h) /\ hashToNode \in [Range(sortedHashes) -> Address]
      /\ Range(sortedHashes) \subseteq Hash /\ (sortedHashes = <<>> => Range(sortedHashes) = {})
  <2>1. TypeOK /\ Answered(h)
    BY LookupAnswers DEF RingInv
  <2> QED
    BY <2>1 DEF TypeOK, Range
<1>2. /\ Range(sortedHashes') = Range(sortedHashes) \cup Points(a)
      /\ hashToNode' = [q \in DOMAIN hashToNode \cup Points(a) |->
                          IF q \in Points(a) THEN a ELSE hashToNode[q]]
  BY <1>1, AddRange DEF AddNode
<1>3. sortedHashes' # <<>>
  <2>1. sortedHashes' = <<>> => Range(sortedHashes') = {}
    BY DEF Range
  <2> QED
    BY <1>1, <1>2, <2>1, PointsType
<1>4. PICK p : Lands(h, p)' /\ GetResponsibleNode(h)' = hashToNode'[p]
  BY <1>3, AnsweredNext DEF AllAnswered, Answered
<1>5. /\ p \in Range(sortedHashes')
      /\ \A q \in Range(sortedHashes') : Clockwise(h, p) <= Clockwise(h, q)
  BY <1>4, LandsNext
<1>6. CASE p \in Points(a)
  BY <1>1, <1>2, <1>4, <1>6
<1>7. CASE p \notin Points(a)
  <2>1. p \in Range(sortedHashes) /\ sortedHashes # <<>>
    BY <1>1, <1>2, <1>5, <1>7
  <2>2. PICK q : Lands(h, q) /\ GetResponsibleNode(h) = hashToNode[q]
    BY <1>1, <2>1 DEF Answered
  <2>3. q \in Range(sortedHashes) /\ Clockwise(h, q) <= Clockwise(h, p)
    BY <2>1, <2>2 DEF Lands
  <2>4. p = q
    BY <1>1, <1>2, <1>5, <2>1, <2>3, OnePoint
  <2>5. hashToNode'[p] = hashToNode[p]
    BY <1>1, <1>2, <1>7, <2>1
  <2> QED
    BY <1>4, <2>2, <2>4, <2>5
<1> QED
  BY <1>6, <1>7

LEMMA RemoveMoves ==
  ASSUME RingInv, RingInv', NEW a \in Address, RemoveNode(a), Apart(a),
         NEW h \in Hash, GetResponsibleNode(h) # a
  PROVE  GetResponsibleNode(h)' = GetResponsibleNode(h)
<1>1. TypeOK /\ Owned /\ Answered(h) /\ hashToNode \in [Range(sortedHashes) -> Address]
      /\ sortedHashes \in Seq(Hash) /\ Range(sortedHashes) \subseteq Hash
  <2>1. TypeOK /\ Owned /\ Answered(h)
    BY LookupAnswers DEF RingInv
  <2> QED
    BY <2>1 DEF TypeOK, Range
<1>2. /\ Range(sortedHashes') = Range(sortedHashes) \ Points(a)
      /\ hashToNode' = [q \in DOMAIN hashToNode \ Points(a) |-> hashToNode[q]]
      /\ sortedHashes' \in Seq(Hash)
  BY RemoveRange DEF RingInv, RemoveNode, Without, Restrict
<1>3. CASE sortedHashes = <<>>
  <2>1. GetResponsibleNode(h) = NoNode
    BY <1>1, <1>3 DEF Answered
  <2>2. Range(sortedHashes) = {}
    BY <1>3 DEF Range
  <2>3. sortedHashes' = <<>>
    <3>1. Range(sortedHashes') = {}
      BY <1>2, <2>2
    <3> QED
      BY <1>2, <3>1 DEF Range
  <2>4. Answered(h)'
    BY AnsweredNext DEF AllAnswered
  <2>5. GetResponsibleNode(h)' = NoNode
    BY <2>3, <2>4 DEF Answered
  <2> QED
    BY <2>1, <2>5
<1>4. CASE sortedHashes # <<>>
  <2>1. PICK q : Lands(h, q) /\ GetResponsibleNode(h) = hashToNode[q]
    BY <1>1, <1>4 DEF Answered
  <2>2. q \in Range(sortedHashes) /\ q \notin Points(a)
    <3>1. q \in Range(sortedHashes)
      BY <2>1 DEF Lands
    <3>2. hashToNode[q] \in Address \ {a} /\ q \in Points(hashToNode[q])
      BY <1>1, <2>1, <3>1 DEF Owned
    <3> QED
      BY <3>1, <3>2 DEF Apart
  <2>3. sortedHashes' # <<>>
    <3>1. sortedHashes' = <<>> => Range(sortedHashes') = {}
      BY DEF Range
    <3> QED
      BY <1>2, <2>2, <3>1
  <2>4. PICK p : Lands(h, p)' /\ GetResponsibleNode(h)' = hashToNode'[p]
    BY <2>3, AnsweredNext DEF AllAnswered, Answered
  <2>5. p \in Range(sortedHashes') /\ Clockwise(h, p) <= Clockwise(h, q)
    BY <1>2, <2>2, <2>4, LandsNext
  <2>6. Clockwise(h, q) <= Clockwise(h, p)
    BY <1>2, <2>1, <2>5 DEF Lands
  <2>7. p = q
    BY <1>1, <1>2, <2>2, <2>5, <2>6, OnePoint
  <2>8. hashToNode'[q] = hashToNode[q]
    BY <1>1, <1>2, <2>2
  <2> QED
    BY <2>1, <2>4, <2>7, <2>8
<1> QED
  BY <1>3, <1>4

\* A node that joins takes keys for itself and moves none between others,
\* wherever its points fall; one that leaves gives up its own keys and moves no
\* other, if it shares no point.
THEOREM RingMovesOwnKeys == Spec => OnlyOwnKeysMove
<1>1. ASSUME RingInv, RingInv'
      PROVE  \A a \in Address, h \in Hash :
               /\ AddNode(a) => GetResponsibleNode(h)' \in {GetResponsibleNode(h), a}
               /\ RemoveNode(a) /\ Apart(a) /\ GetResponsibleNode(h) # a
                    => GetResponsibleNode(h)' = GetResponsibleNode(h)
  BY <1>1, AddMoves, RemoveMoves
<1> QED
  BY <1>1, RingAlways, PTL DEF OnlyOwnKeysMove

=============================================================================
