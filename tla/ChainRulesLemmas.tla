-------------------------- MODULE ChainRulesLemmas ---------------------------
(***************************************************************************)
(* What the rules of a block compute on one chain, for every value of the  *)
(* parameters: medians, windows, the difficulty, the reward, the verdict   *)
(* on a timestamp, and chains that pushBlock accepts block by block, alone *)
(* or in a row (Connect).                                                  *)
(***************************************************************************)
EXTENDS ChainRules, FiniteSetTheorems, NaturalsInduction, WellFoundedInduction, TLAPS

-----------------------------------------------------------------------------
(* Induction *)

\* Well-founded induction in the form the provers can use: a set of natural numbers that is
\* not empty has a least element.
LEMMA MinimalElement ==
    ASSUME NEW R, IsWellFoundedOn(R, Nat), NEW T, T \subseteq Nat, T # {}
    PROVE  \E m \in T : \A k \in T : ~(<<k, m>> \in R)
BY WFMin, Zenon

\* An element of a set of numbers that has none of the set before it is its least.
LEMMA MinimalIsLeast ==
    ASSUME NEW R, \A x, y \in Nat : x < y => <<x, y>> \in R, NEW T, T \subseteq Nat,
           NEW m \in T, \A k \in T : ~(<<k, m>> \in R)
    PROVE  \A k \in T : m <= k
<1> TAKE k \in T
<1>1. k \in Nat /\ m \in Nat
  OBVIOUS
<1>2. ~(k < m)
  BY <1>1, Zenon
<1> QED BY <1>1, <1>2

\* A set of numbers that is not empty has a least element.
LEMMA LeastElement ==
    ASSUME NEW T, T \subseteq Nat, T # {}
    PROVE  \E m \in T : \A k \in T : m <= k
<1>1. \A x, y \in Nat : x < y => <<x, y>> \in OpToRel(<, Nat)
  BY DEF OpToRel
<1>2. \E m \in T : \A k \in T : ~(<<k, m>> \in OpToRel(<, Nat))
  BY MinimalElement, NatLessThanWellFounded, Zenon
<1> QED BY <1>1, <1>2, MinimalIsLeast, Zenon

\* A set that has 0, and with a number its successor, has all natural numbers.
LEMMA Induction ==
    ASSUME NEW P, 0 \in P, \A n \in Nat : n \in P => n + 1 \in P
    PROVE  Nat \subseteq P
<1> SUFFICES ASSUME Nat \ P # {} PROVE FALSE
  OBVIOUS
<1>1. PICK m \in Nat \ P : \A k \in Nat \ P : m <= k
  BY LeastElement, Zenon
<1>2. m - 1 \in Nat /\ (m - 1) + 1 = m
  BY <1>1
<1>3. m - 1 \in P
  BY <1>1, <1>2
<1> QED BY <1>1, <1>2, <1>3

-----------------------------------------------------------------------------
(* Medians *)

\* A sequence of numbers is bounded.
LEMMA SeqBounded ==
    ASSUME NEW s \in Seq(Nat)
    PROVE  \E b \in Nat : \A j \in 1..Len(s) : s[j] <= b
<1> DEFINE n == Len(s)
           P == {m \in Nat : m <= n => \E b \in Nat : \A j \in 1..m : s[j] <= b}
<1>0. n \in Nat /\ \A i \in 1..n : s[i] \in Nat
  OBVIOUS
<1> HIDE DEF n
<1>1. 0 \in P
  OBVIOUS
<1>2. ASSUME NEW m \in Nat, m \in P PROVE m + 1 \in P
  <2> SUFFICES ASSUME m + 1 <= n PROVE \E b \in Nat : \A j \in 1..m + 1 : s[j] <= b
    OBVIOUS
  <2>1. PICK b \in Nat : \A j \in 1..m : s[j] <= b
    BY <1>0, <1>2
  <2>2. s[m + 1] \in Nat /\ \A j \in 1..m + 1 : j \in 1..m \/ j = m + 1
    BY <1>0
  <2>3. \A j \in 1..m + 1 : s[j] \in Nat
    BY <1>0
  <2> DEFINE B == b + s[m + 1]
  <2>4. B \in Nat /\ \A j \in 1..m + 1 : s[j] <= B
    BY <2>1, <2>2, <2>3, SMTT(30)
  <2> HIDE DEF B
  <2> QED BY <2>4, Zenon
<1> HIDE DEF P
<1>3. Nat \subseteq P
  BY <1>1, <1>2, Induction, SMTT(30)
<1>4. n \in P
  BY <1>0, <1>3
<1> QED BY <1>0, <1>4 DEF P, n

\* The places of the values up to x, and below
UpTo(s, x) == {j \in DOMAIN s : s[j] <= x}
Under(s, x) == {j \in DOMAIN s : s[j] < x}

\* The places of a sequence are finitely many, as many as its length.
LEMMA PlacesFinite ==
    ASSUME NEW n \in Nat
    PROVE  IsFiniteSet(1..n) /\ Cardinality(1..n) = n
<1>1. 1 \in Int /\ n \in Int
  OBVIOUS
<1>2. IsFiniteSet(1..n) /\ Cardinality(1..n) = IF 1 > n THEN 0 ELSE n - 1 + 1
  BY <1>1, FS_Interval, Zenon
<1> QED BY <1>2

\* How many values are at most a bound: a number; all of them, or none, when every value, or none,
\* is.
LEMMA PlacesCounted ==
    ASSUME NEW s \in Seq(Nat), NEW x \in Nat
    PROVE  /\ Cardinality(UpTo(s, x)) \in Nat
           /\ (\A j \in 1..Len(s) : s[j] <= x) => Cardinality(UpTo(s, x)) = Len(s)
           /\ (\A j \in 1..Len(s) : ~(s[j] <= x)) => Cardinality(UpTo(s, x)) = 0
<1>1. DOMAIN s = 1..Len(s) /\ Len(s) \in Nat
  OBVIOUS
<1>2. IsFiniteSet(1..Len(s)) /\ Cardinality(1..Len(s)) = Len(s)
  BY <1>1, PlacesFinite
<1>3. UpTo(s, x) \in SUBSET (1..Len(s))
  BY <1>1 DEF UpTo
<1>4. IsFiniteSet(UpTo(s, x))
  BY <1>2, <1>3, FS_Subset
<1>5. Cardinality(UpTo(s, x)) \in Nat
  BY <1>4, FS_CardinalityType
<1>6. (\A j \in 1..Len(s) : s[j] <= x) => UpTo(s, x) = 1..Len(s)
  BY <1>1 DEF UpTo
<1>7. (\A j \in 1..Len(s) : ~(s[j] <= x)) => UpTo(s, x) = {}
  BY <1>1 DEF UpTo
<1> QED BY <1>2, <1>5, <1>6, <1>7, FS_EmptySet, Zenon

\* There is an i-th value in order.
LEMMA RankExists ==
    ASSUME NEW s \in Seq(Nat), NEW i \in 1..Len(s)
    PROVE  \E j \in 1..Len(s) : Ranked(s, i) = s[j]
<1> DEFINE T == {x \in Nat : i <= Cardinality(UpTo(s, x))}
           C(x) == Cardinality(Under(s, x)) < i /\ i <= Cardinality(UpTo(s, x))
<1>0. DOMAIN s = 1..Len(s) /\ Len(s) \in Nat /\ \A j \in 1..Len(s) : s[j] \in Nat
  OBVIOUS
<1>1. T # {}
  <2>1. PICK b \in Nat : \A j \in 1..Len(s) : s[j] <= b
    BY SeqBounded, Zenon
  <2>2. Cardinality(UpTo(s, b)) = Len(s)
    BY <2>1, PlacesCounted, Zenon
  <2> QED BY <1>0, <2>2
<1>2. PICK x \in T : \A y \in T : x <= y
  <2>1. T \subseteq Nat
    OBVIOUS
  <2> HIDE DEF T
  <2> QED BY <1>1, <2>1, LeastElement, Zenon
<1>3. x \in Nat /\ i <= Cardinality(UpTo(s, x)) /\ i \in Nat /\ i > 0
  OBVIOUS
<1>4. Cardinality(Under(s, x)) < i
  <2>1. CASE x = 0
    <3>1. Under(s, x) = {}
      BY <1>0, <2>1 DEF Under
    <3> QED BY <1>3, <3>1, FS_EmptySet
  <2>2. CASE x # 0
    <3>1. x - 1 \in Nat /\ x - 1 \notin T
      BY <1>2, <1>3, <2>2
    <3>2. Under(s, x) = UpTo(s, x - 1)
      BY <1>0, <1>3 DEF Under, UpTo
    <3>3. Cardinality(UpTo(s, x - 1)) \in Nat
      BY <3>1, PlacesCounted
    <3> QED BY <1>3, <3>1, <3>2, <3>3
  <2> QED BY <2>1, <2>2
<1>5. x \in Range(s)
  <2> SUFFICES ASSUME \A j \in 1..Len(s) : s[j] # x PROVE FALSE
    BY <1>0, Zenon DEF Range
  <2>1. Under(s, x) = UpTo(s, x)
    BY <1>0, <1>3 DEF Under, UpTo
  <2> QED BY <1>3, <1>4, <2>1, PlacesCounted
<1>6. Ranked(s, i) = CHOOSE y \in Range(s) : C(y)
  BY Zenon DEF Ranked, UpTo, Under
<1>7. C(x)
  BY <1>3, <1>4
<1> HIDE DEF C
<1>8. Ranked(s, i) \in Range(s)
  BY <1>5, <1>6, <1>7, Zenon
<1> QED BY <1>0, <1>8, Zenon DEF Range

\* medianValue lies among the values.
LEMMA MedianBounded ==
    ASSUME NEW s \in Seq(Nat), NEW M \in Nat, \A j \in 1..Len(s) : s[j] <= M
    PROVE  medianValue(s) \in 0..M
<1>0. DOMAIN s = 1..Len(s) /\ Len(s) \in Nat /\ \A j \in 1..Len(s) : s[j] \in 0..M
  OBVIOUS
<1>1. \A i \in 1..Len(s) : Sorted(s)[i] \in 0..M
  <2> TAKE i \in 1..Len(s)
  <2>1. Sorted(s)[i] = Ranked(s, i)
    BY <1>0 DEF Sorted
  <2>2. PICK j \in 1..Len(s) : Ranked(s, i) = s[j]
    BY RankExists
  <2> QED BY <1>0, <2>1, <2>2
<1> DEFINE n == Len(s) \div 2
<1>2. CASE s = <<>>
  BY <1>2 DEF medianValue
<1>3. CASE s # <<>> /\ Len(s) % 2 = 1
  <2>1. n + 1 \in 1..Len(s)
    BY <1>0, <1>3
  <2>2. medianValue(s) = Sorted(s)[n + 1]
    BY <1>3 DEF medianValue
  <2> QED BY <1>1, <2>1, <2>2, Zenon
<1>4. CASE s # <<>> /\ Len(s) % 2 # 1
  <2>0. Len(s) > 0
    BY <1>0, <1>4
  <2>1. n \in 1..Len(s) /\ n + 1 \in 1..Len(s)
    BY <1>0, <1>4, <2>0
  <2>2. medianValue(s) = (Sorted(s)[n] + Sorted(s)[n + 1]) \div 2
    BY <1>4 DEF medianValue
  <2>3. Sorted(s)[n] \in 0..M /\ Sorted(s)[n + 1] \in 0..M
    BY <1>1, <2>1, Zenon
  <2> HIDE DEF n
  <2>4. \A u, v \in 0..M : (u + v) \div 2 \in 0..M
    OBVIOUS
  <2> QED BY <2>2, <2>3, <2>4, Zenon
<1> QED BY <1>2, <1>3, <1>4

\* It does not depend on the order of the values: here, the reversed one.
LEMMA ReversedCounted ==
    ASSUME NEW n \in Nat, NEW A \in SUBSET (1..n), NEW B \in SUBSET (1..n),
           \A j \in 1..n : j \in A <=> n + 1 - j \in B
    PROVE  Cardinality(A) = Cardinality(B)
<1> DEFINE f == [j \in A |-> n + 1 - j]
<1>1. IsFiniteSet(A)
  BY PlacesFinite, FS_Subset, Zenon
<1>2. f \in [A -> B]
  OBVIOUS
<1>3. \A i, j \in A : f[i] = f[j] => i = j
  OBVIOUS
<1>4. \A k \in B : \E j \in A : f[j] = k
  <2> TAKE k \in B
  <2>1. n + 1 - k \in 1..n /\ n + 1 - (n + 1 - k) = k
    OBVIOUS
  <2>2. n + 1 - k \in A
    BY <2>1
  <2> QED BY <2>1, <2>2
<1> HIDE DEF f
<1>5. f \in Bijection(A, B)
  BY <1>2, <1>3, <1>4 DEF Bijection, Injection, Surjection, IsInjective
<1> QED BY <1>1, <1>5, FS_Bijection DEF ExistsBijection

\* The median does not depend on the order: the values backwards have the same one.
LEMMA MedianReversed ==
    ASSUME NEW s \in Seq(Nat), NEW t \in Seq(Nat), Len(t) = Len(s),
           \A j \in 1..Len(s) : t[j] = s[Len(s) + 1 - j]
    PROVE  medianValue(t) = medianValue(s)
<1>n. PICK n \in Nat : n = Len(s)
  OBVIOUS
<1>0. /\ DOMAIN s = 1..n /\ DOMAIN t = 1..n /\ n \in Nat
      /\ \A j \in 1..n : n + 1 - j \in 1..n /\ n + 1 - (n + 1 - j) = j
  BY <1>n
<1>1. Range(s) = Range(t)
  <2>1. \A j \in 1..n : s[j] = t[n + 1 - j] /\ t[j] = s[n + 1 - j]
    BY <1>n, <1>0, ZenonT(30)
  <2>2. ASSUME NEW y \in Range(s) PROVE y \in Range(t)
    <3>1. PICK j \in 1..n : y = s[j]
      BY <1>0 DEF Range
    <3>2. n + 1 - j \in DOMAIN t /\ y = t[n + 1 - j]
      BY <1>0, <2>1, <3>1
    <3> QED BY <3>2 DEF Range
  <2>3. ASSUME NEW y \in Range(t) PROVE y \in Range(s)
    <3>1. PICK j \in 1..n : y = t[j]
      BY <1>0 DEF Range
    <3>2. n + 1 - j \in DOMAIN s /\ y = s[n + 1 - j]
      BY <1>0, <2>1, <3>1
    <3> QED BY <3>2, Zenon DEF Range
  <2> QED BY <2>2, <2>3, Zenon
<1>2. \A x : Cardinality(UpTo(s, x)) = Cardinality(UpTo(t, x)) /\ Cardinality(Under(s, x)) = Cardinality(Under(t, x))
  <2> TAKE x
  <2>1. /\ UpTo(s, x) \in SUBSET (1..n) /\ UpTo(t, x) \in SUBSET (1..n)
        /\ Under(s, x) \in SUBSET (1..n) /\ Under(t, x) \in SUBSET (1..n)
    BY <1>0 DEF UpTo, Under
  <2>2. \A j \in 1..n : j \in UpTo(s, x) <=> n + 1 - j \in UpTo(t, x)
    BY <1>n, <1>0, ZenonT(30) DEF UpTo
  <2>3. \A j \in 1..n : j \in Under(s, x) <=> n + 1 - j \in Under(t, x)
    BY <1>n, <1>0, ZenonT(30) DEF Under
  <2>4. Cardinality(UpTo(s, x)) = Cardinality(UpTo(t, x))
    BY <2>1, <2>2, ReversedCounted, ZenonT(30)
  <2>5. Cardinality(Under(s, x)) = Cardinality(Under(t, x))
    BY <2>1, <2>3, ReversedCounted, ZenonT(30)
  <2> QED BY <2>4, <2>5
<1>3. \A i : Ranked(s, i) = Ranked(t, i)
  <2> TAKE i
  <2> DEFINE C(u, y) == Cardinality(Under(u, y)) < i /\ i <= Cardinality(UpTo(u, y))
  <2>1. Ranked(s, i) = CHOOSE y \in Range(s) : C(s, y)
    BY Zenon DEF Ranked, UpTo, Under
  <2>2. Ranked(t, i) = CHOOSE y \in Range(t) : C(t, y)
    BY Zenon DEF Ranked, UpTo, Under
  <2>3. \A y : C(s, y) <=> C(t, y)
    BY <1>2, Zenon
  <2> HIDE DEF C
  <2> QED BY <1>1, <2>1, <2>2, <2>3
<1>4. Sorted(s) = Sorted(t)
  BY <1>0, <1>3, Zenon DEF Sorted
<1>5. s = <<>> <=> t = <<>>
  OBVIOUS
<1> QED BY <1>4, <1>5, Zenon DEF medianValue

-----------------------------------------------------------------------------
(* Windows over two chains *)

\* Sequences of the same length are equal when they are equal place by place.
LEMMA SamePlaces ==
    ASSUME NEW X, NEW s \in Seq(X), NEW t \in Seq(X), Len(s) = Len(t), \A i \in 1..Len(s) : s[i] = t[i]
    PROVE  s = t
OBVIOUS

\* A window that starts in the first of two sequences, and one that starts in the second
LEMMA WindowAcross ==
    ASSUME NEW X, NEW s \in Seq(X), NEW t \in Seq(X), NEW a \in 1..Len(s) + 1
    PROVE  SubSeq(s \o t, a, Len(s) + Len(t)) = SubSeq(s, a, Len(s)) \o t
<1> DEFINE f == Len(s)
           l == Len(t)
           u == SubSeq(s \o t, a, f + l)
           v == SubSeq(s, a, f) \o t
<1>0. f \in Nat /\ l \in Nat /\ a \in Nat /\ 1 <= a /\ a <= f + 1
  OBVIOUS
<1>1. u \in Seq(X) /\ v \in Seq(X) /\ Len(u) = f + l + 1 - a /\ Len(v) = f + l + 1 - a
  BY <1>0, SMTT(30)
<1>2. ASSUME NEW i \in 1..f + l + 1 - a PROVE u[i] = v[i]
  <2>1. CASE i <= f + 1 - a
    BY <1>0, <2>1
  <2>2. CASE i > f + 1 - a
    <3>1. u[i] = (s \o t)[a + i - 1]
      BY <1>0
    <3>2. (s \o t)[a + i - 1] = t[a + i - 1 - f]
      BY <1>0, <2>2
    <3>3. v[i] = t[i - (f + 1 - a)]
      BY <1>0, <2>2
    <3>4. i - (f + 1 - a) = a + i - 1 - f
      BY <1>0
    <3> QED BY <3>1, <3>2, <3>3, <3>4, Zenon
  <2> QED BY <1>0, <2>1, <2>2
<1> HIDE DEF u, v
<1> QED BY <1>1, <1>2, SamePlaces, SMTT(30) DEF u, v

\* A window that lies in the second of two joined sequences is a window of it.
LEMMA WindowBehind ==
    ASSUME NEW X, NEW s \in Seq(X), NEW t \in Seq(X), NEW k \in 1..Len(t) + 1
    PROVE  SubSeq(s \o t, Len(s) + k, Len(s) + Len(t)) = SubSeq(t, k, Len(t))
OBVIOUS

\* The first elements of a sequence, by their number and values.
LEMMA Prefix ==
    ASSUME NEW X, NEW s \in Seq(X), NEW f \in 0..Len(s)
    PROVE  SubSeq(s, 1, f) \in Seq(X) /\ Len(SubSeq(s, 1, f)) = f /\ \A i \in 1..f : SubSeq(s, 1, f)[i] = s[i]
OBVIOUS

\* A window that ends where a prefix ends is a window of the whole sequence.
LEMMA WindowOfPrefix ==
    ASSUME NEW X, NEW s \in Seq(X), NEW f \in 0..Len(s), NEW a \in 1..f + 1
    PROVE  SubSeq(SubSeq(s, 1, f), a, f) = SubSeq(s, a, f)
OBVIOUS

-----------------------------------------------------------------------------
(* The difficulty *)

\* The blocks it is computed from, for the main chain and for an alternative one
MainWindow(chain) ==
    SubSeq(chain, Greatest(Len(chain) - Least(Len(chain), difficultyBlocksCount), 1) + 1, Len(chain))
AltWindow(main, f, alt) ==
    IF Len(alt) < difficultyBlocksCount
    THEN SubSeq(main, Greatest(f - Least(difficultyBlocksCount - Len(alt), f), 1) + 1, f) \o alt
    ELSE LastOf(alt, difficultyBlocksCount)

\* Where they start, f blocks below l, for a window of D
LEMMA WindowStarts ==
    ASSUME NEW f \in Nat, NEW l \in Nat, NEW D \in Nat, f >= 1, D >= 2
    PROVE  /\ Greatest((f + l) - Least(f + l, D), 1) + 1 \in Nat
           /\ Greatest((f + l) - Least(f + l, D), 1) + 1 >= 1
           /\ l < D => /\ Greatest((f + l) - Least(f + l, D), 1) + 1 <= f + 1
                       /\ Greatest(f - Least(D - l, f), 1) = Greatest((f + l) - Least(f + l, D), 1)
           /\ ~(l < D) => /\ Greatest((f + l) - Least(f + l, D), 1) + 1 = f + (l - D + 1)
                          /\ l - Least(D, l) + 1 = l - D + 1 /\ l - D + 1 \in Nat
                          /\ 1 <= l - D + 1 /\ l - D + 1 <= l + 1
BY DEF Least, Greatest

\* The blocks getDifficultyForNextBlock looks at, by their places; the genesis block is never one.
LEMMA MainWindowIs ==
    ASSUME NEW chain, NEW n, Len(chain) = n
    PROVE  MainWindow(chain) = SubSeq(chain, Greatest(n - Least(n, difficultyBlocksCount), 1) + 1, n)
BY DEF MainWindow

\* The blocks get_next_difficulty_for_alternative_chain collects are those a chain made of both
\* parts would use.
LEMMA SameWindow ==
    ASSUME NEW X, NEW main \in Seq(X), NEW f \in 1..Len(main), NEW alt \in Seq(X)
    PROVE  AltWindow(main, f, alt) = MainWindow(SubSeq(main, 1, f) \o alt)
<1> DEFINE D == difficultyBlocksCount
           l == Len(alt)
           below == SubSeq(main, 1, f)
           a == Greatest((f + l) - Least(f + l, D), 1) + 1
<1>1. D \in Nat /\ D >= 2 /\ l \in Nat /\ f \in Nat /\ f >= 1 /\ f <= Len(main) /\ f \in 0..Len(main)
  BY ParametersAssumption DEF difficultyBlocksCount
<1>2. below \in Seq(X) /\ Len(below) = f
  BY <1>1
<1>3. MainWindow(below \o alt) = SubSeq(below \o alt, a, f + l)
  <2>1. Len(below \o alt) = f + l
    BY <1>2
  <2> HIDE DEF below
  <2> QED BY <2>1, MainWindowIs, Zenon
<1>4. CASE l < D
  <2>1. AltWindow(main, f, alt) = SubSeq(main, a, f) \o alt
    <3>1. Greatest(f - Least(D - l, f), 1) + 1 = a
      BY <1>1, <1>4, WindowStarts
    <3> QED BY <1>4, <3>1, Zenon DEF AltWindow
  <2>2. a \in 1..f + 1
    BY <1>1, <1>4, WindowStarts
  <2> HIDE DEF a, below
  <2>3. SubSeq(below, a, f) = SubSeq(main, a, f)
    BY <1>1, <2>2, WindowOfPrefix DEF below
  <2>4. SubSeq(below \o alt, a, f + l) = SubSeq(below, a, f) \o alt
    <3>1. Len(below) = f /\ below \in Seq(X)
      BY <1>2
    <3> QED BY <2>2, <3>1, WindowAcross, Zenon
  <2> QED BY <1>3, <2>1, <2>3, <2>4, Zenon DEF below
<1>5. CASE ~(l < D)
  <2> DEFINE k == l - D + 1
  <2>1. AltWindow(main, f, alt) = SubSeq(alt, k, l)
    <3>1. l - Least(D, l) + 1 = k
      BY <1>1, <1>5, WindowStarts
    <3> QED BY <1>5, <3>1, Zenon DEF AltWindow, LastOf
  <2>2. k \in 1..l + 1 /\ a = f + k
    <3>1. k \in Nat /\ 1 <= k /\ k <= l + 1
      BY <1>1, <1>5
    <3>2. a = f + k
      BY <1>1, <1>5, WindowStarts
    <3> QED BY <1>1, <3>1, <3>2
  <2> HIDE DEF a, below, k
  <2>3. SubSeq(below \o alt, f + k, f + l) = SubSeq(alt, k, l)
    <3>1. Len(below) = f /\ below \in Seq(X)
      BY <1>2
    <3> QED BY <2>2, <3>1, WindowBehind, Zenon
  <2> QED BY <1>3, <2>1, <2>2, <2>3, Zenon DEF below
<1> QED BY <1>4, <1>5

\* nextDifficulty in its parts: where the extreme timestamps are cut off a window of n blocks, the time
\* and the work between, and the value.
CutBegin(n) == IF n <= Window - 2 * Cut THEN 0 ELSE (n - (Window - 2 * Cut) + 1) \div 2
CutEnd(n) == IF n <= Window - 2 * Cut THEN n ELSE CutBegin(n) + (Window - 2 * Cut)
TimeSpan(times, n) == Greatest(1, times[CutEnd(n)] - times[CutBegin(n) + 1])
Value(h, n, span, total) ==
    IF n <= 1 THEN 1
    ELSE IF total * Target + span - 1 >= Word THEN 0
    ELSE IF FixedAt(h) # {} THEN CHOOSE d \in FixedAt(h) : TRUE
    ELSE (total * Target + span - 1) \div span

\* The height enters the value only through the fixed difficulty it may have.
LEMMA ValueAlike ==
    ASSUME NEW h1, NEW h2, FixedAt(h1) = FixedAt(h2), NEW n, NEW span, NEW total
    PROVE  Value(h1, n, span, total) = Value(h2, n, span, total)
<1> DEFINE Pick(S) == CHOOSE d \in S : TRUE
           V(S) == IF n <= 1 THEN 1
                   ELSE IF total * Target + span - 1 >= Word THEN 0
                   ELSE IF S # {} THEN Pick(S)
                   ELSE (total * Target + span - 1) \div span
<1>1. \A h : Value(h, n, span, total) = V(FixedAt(h))
  BY Zenon DEF Value
<1> HIDE DEF V
<1> QED BY <1>1, Zenon

\* With at most one block to look at, the difficulty is 1.
LEMMA ValueSmall ==
    ASSUME NEW h, NEW n, n <= 1, NEW span, NEW total
    PROVE  Value(h, n, span, total) = 1
BY Zenon DEF Value

KeptOf(blocks) == SubSeq(blocks, 1, Least(Len(blocks), Window))

\* nextDifficulty, by the blocks it keeps.
LEMMA NextDifficultyIs ==
    ASSUME NEW h, NEW blocks, NEW kept, kept = KeptOf(blocks), NEW n, n = Len(kept)
    PROVE  nextDifficulty(h, blocks) =
             Value(h, n, TimeSpan(Sorted(Field(kept, "time")), n), kept[CutEnd(n)].work - kept[CutBegin(n) + 1].work)
<1>1. kept = SubSeq(blocks, 1, Least(Len(blocks), Window)) /\ n = Len(kept)
  BY DEF KeptOf
<1>2. nextDifficulty(h, blocks) =
         Value(h, Len(KeptOf(blocks)), TimeSpan(Sorted(Field(KeptOf(blocks), "time")), Len(KeptOf(blocks))),
               KeptOf(blocks)[CutEnd(Len(KeptOf(blocks)))].work - KeptOf(blocks)[CutBegin(Len(KeptOf(blocks))) + 1].work)
  BY Zenon DEF nextDifficulty, Value, TimeSpan, CutEnd, CutBegin, KeptOf
<1> QED BY <1>2, Zenon

\* The height enters nextDifficulty only through the fixed difficulty it may have.
LEMMA NextDifficultySame ==
    ASSUME NEW h1, NEW h2, FixedAt(h1) = FixedAt(h2), NEW blocks
    PROVE  nextDifficulty(h1, blocks) = nextDifficulty(h2, blocks)
<1> DEFINE kept == KeptOf(blocks)
           n == Len(kept)
           span == TimeSpan(Sorted(Field(kept, "time")), n)
           total == kept[CutEnd(n)].work - kept[CutBegin(n) + 1].work
<1>1. nextDifficulty(h1, blocks) = Value(h1, n, span, total) /\ nextDifficulty(h2, blocks) = Value(h2, n, span, total)
  BY NextDifficultyIs, Zenon
<1> HIDE DEF n, span, total
<1>2. Value(h1, n, span, total) = Value(h2, n, span, total)
  BY ValueAlike
<1> QED BY <1>1, <1>2, Zenon

\* The cut leaves a first and a last block, in this order.
LEMMA CutsInside ==
    ASSUME NEW n \in Nat, n > 1
    PROVE  CutEnd(n) \in 1..n /\ CutBegin(n) + 1 \in 1..n /\ CutBegin(n) + 1 <= CutEnd(n)
<1> DEFINE m == Window - 2 * Cut
<1>1. m \in Nat /\ m >= 2
  BY ParametersAssumption
<1>2. CASE n <= m
  BY <1>1, <1>2 DEF CutEnd, CutBegin
<1>3. CASE ~(n <= m)
  <2> DEFINE q == (n - m + 1) \div 2
  <2>1. CutBegin(n) = q /\ CutEnd(n) = q + m
    BY <1>3 DEF CutEnd, CutBegin
  <2>2. n - m + 1 \in Nat /\ n - m + 1 >= 2
    BY <1>1, <1>3
  <2> HIDE DEF m
  <2>3. q \in Nat /\ 2 * q <= n - m + 1 /\ q >= 1
    BY <2>2
  <2> HIDE DEF q
  <2> QED BY <1>1, <1>3, <2>1, <2>3
<1> QED BY <1>2, <1>3

\* Two chains with the same times and the same work
Alike(s, t) == Len(s) = Len(t) /\ \A i \in 1..Len(s) : s[i].time = t[i].time /\ s[i].work = t[i].work

\* The blocks nextDifficulty keeps are the first of those it is given, at most a window of them.
LEMMA KeptIs ==
    ASSUME NEW X, NEW s \in Seq(X)
    PROVE  /\ KeptOf(s) \in Seq(X) /\ Len(KeptOf(s)) = Least(Len(s), Window) /\ Least(Len(s), Window) \in 0..Len(s)
           /\ \A i \in 1..Least(Len(s), Window) : KeptOf(s)[i] = s[i]
<1>1. Least(Len(s), Window) \in 0..Len(s)
  BY ParametersAssumption DEF Least
<1> QED BY <1>1, Prefix DEF KeptOf

\* nextDifficulty reads the times and the cumulative difficulties of the blocks and nothing else.
LEMMA NextDifficultyAlike ==
    ASSUME NEW X, NEW s \in Seq(X), NEW t \in Seq(X), Alike(s, t), NEW h1, NEW h2, FixedAt(h1) = FixedAt(h2)
    PROVE  nextDifficulty(h1, s) = nextDifficulty(h2, t)
<1> DEFINE n == Least(Len(s), Window)
           ks == KeptOf(s)
           kt == KeptOf(t)
<1>1. n \in Nat /\ n <= Len(s) /\ Len(s) = Len(t)
  BY ParametersAssumption DEF Least, Alike
<1>2. /\ ks \in Seq(X) /\ Len(ks) = n /\ kt \in Seq(X) /\ Len(kt) = n
      /\ \A i \in 1..n : ks[i] = s[i] /\ kt[i] = t[i]
  BY <1>1, KeptIs
<1> HIDE DEF n, ks, kt
<1>3. \A i \in 1..n : ks[i].time = kt[i].time /\ ks[i].work = kt[i].work
  BY <1>1, <1>2 DEF Alike
<1>4. Field(ks, "time") = Field(kt, "time")
  BY <1>2, <1>3 DEF Field
<1> DEFINE span == TimeSpan(Sorted(Field(ks, "time")), n)
           A(k) == k[CutEnd(n)].work - k[CutBegin(n) + 1].work
<1>5. nextDifficulty(h1, s) = Value(h1, n, span, A(ks))
  BY <1>2, NextDifficultyIs, ZenonT(60) DEF ks
<1>6. nextDifficulty(h2, t) = Value(h2, n, span, A(kt))
  BY <1>2, <1>4, NextDifficultyIs, ZenonT(60) DEF kt
<1>7. CASE n > 1
  <2>1. A(ks) = A(kt)
    BY <1>1, <1>3, <1>7, CutsInside
  <2>2. nextDifficulty(h2, t) = Value(h2, n, span, A(ks))
    BY <1>6, <2>1, Zenon
  <2> HIDE DEF span, A
  <2>3. Value(h1, n, span, A(ks)) = Value(h2, n, span, A(ks))
    BY ValueAlike
  <2> QED BY <1>5, <2>2, <2>3, Zenon
<1>8. CASE ~(n > 1)
  <2>1. n <= 1
    BY <1>1, <1>8
  <2> HIDE DEF span, A
  <2> QED BY <1>5, <1>6, <2>1, ValueSmall, Zenon
<1> QED BY <1>7, <1>8

\* The same at one height.
LEMMA NextDifficultyOf ==
    ASSUME NEW X, NEW s \in Seq(X), NEW t \in Seq(X), Alike(s, t), NEW h
    PROVE  nextDifficulty(h, s) = nextDifficulty(h, t)
<1> DEFINE k == h
<1>1. FixedAt(h) = FixedAt(k)
  OBVIOUS
<1> HIDE DEF k
<1>2. nextDifficulty(h, s) = nextDifficulty(k, t)
  BY <1>1, NextDifficultyAlike
<1> QED BY <1>2 DEF k

\* The difficulty of the next block depends on the times and the work of the chain only.
LEMMA DifficultyAlike ==
    ASSUME NEW X, NEW s \in Seq(X), NEW t \in Seq(X), Alike(s, t), s # <<>>
    PROVE  getDifficultyForNextBlock(s) = getDifficultyForNextBlock(t)
<1> DEFINE n == Len(s)
           a == Greatest(n - Least(n, difficultyBlocksCount), 1) + 1
           u == SubSeq(s, a, n)
           v == SubSeq(t, a, n)
<1>1. n \in Nat /\ Len(t) = n /\ n > 0
  BY DEF Alike
<1>2. a \in Nat /\ 1 <= a /\ a <= n + 1
  BY <1>1, ParametersAssumption DEF difficultyBlocksCount, Least, Greatest
<1>3. getDifficultyForNextBlock(s) = nextDifficulty(n, u) /\ getDifficultyForNextBlock(t) = nextDifficulty(n, v)
  BY <1>1, Zenon DEF getDifficultyForNextBlock
<1> HIDE DEF a, n
<1>4. /\ u \in Seq(X) /\ v \in Seq(X) /\ Len(u) = n + 1 - a /\ Len(v) = n + 1 - a
      /\ \A i \in 1..n + 1 - a : a + i - 1 \in 1..n /\ u[i] = s[a + i - 1] /\ v[i] = t[a + i - 1]
  BY <1>1, <1>2 DEF n
<1>5. \A j \in 1..n : s[j].time = t[j].time /\ s[j].work = t[j].work
  BY DEF Alike, n
<1> HIDE DEF u, v
<1>6. Alike(u, v)
  BY <1>4, <1>5 DEF Alike
<1>7. nextDifficulty(n, u) = nextDifficulty(n, v)
  <2>1. u \in Seq(X) /\ v \in Seq(X)
    BY <1>4
  <2> QED BY <1>6, <2>1, NextDifficultyOf, ZenonT(60)
<1> QED BY <1>3, <1>7, Zenon

\* get_next_difficulty_for_alternative_chain asks of an alternative block what
\* getDifficultyForNextBlock asks of it on a main chain that ends with the alternative one.
LEMMA AlternativeDifficulty ==
    ASSUME NEW X, NEW main \in Seq(X), NEW f \in 1..Len(main), NEW alt \in Seq(X),
           FixedAt(Len(main)) = FixedAt(f + Len(alt))
    PROVE  get_next_difficulty_for_alternative_chain(main, f, alt)
           = getDifficultyForNextBlock(SubSeq(main, 1, f) \o alt)
<1> DEFINE chain == SubSeq(main, 1, f) \o alt
           w == MainWindow(chain)
<1>1. get_next_difficulty_for_alternative_chain(main, f, alt) = nextDifficulty(Len(main), AltWindow(main, f, alt))
  BY Zenon DEF get_next_difficulty_for_alternative_chain, AltWindow
<1>2. AltWindow(main, f, alt) = w
  BY SameWindow
<1>3. getDifficultyForNextBlock(chain) = nextDifficulty(Len(chain), w)
  BY Zenon DEF getDifficultyForNextBlock, MainWindow
<1>4. Len(chain) = f + Len(alt)
  <2>1. f \in 0..Len(main)
    OBVIOUS
  <2>2. SubSeq(main, 1, f) \in Seq(X) /\ Len(SubSeq(main, 1, f)) = f
    BY <2>1, Prefix
  <2> QED BY <2>2
<1> HIDE DEF w
<1>5. nextDifficulty(Len(main), w) = nextDifficulty(Len(chain), w)
  <2> HIDE DEF chain
  <2>1. FixedAt(Len(main)) = FixedAt(Len(chain))
    BY <1>4
  <2> QED BY <2>1, NextDifficultySame
<1> QED BY <1>1, <1>2, <1>3, <1>5, Zenon

-----------------------------------------------------------------------------
(* Types of what the rules compute *)

\* A fixed difficulty is a natural number.
LEMMA FixedIsNat ==
    ASSUME NEW h
    PROVE  FixedAt(h) \subseteq Nat
BY ParametersAssumption DEF FixedAt

\* The value is an integer: the time span it divides by is at least 1.
LEMMA ValueIsInt ==
    ASSUME NEW h, NEW n \in Nat, NEW span \in Nat, span >= 1, NEW total \in Int
    PROVE  Value(h, n, span, total) \in Int
<1> DEFINE q == total * Target + span - 1
           d == CHOOSE d \in FixedAt(h) : TRUE
<1>1. q \in Int
  <2>1. total * Target \in Int
    BY ParametersAssumption
  <2> QED BY <2>1
<1>2. q \div span \in Int
  BY <1>1
<1>3. FixedAt(h) # {} => d \in Int
  BY FixedIsNat
<1> HIDE DEF q, d
<1>4. Value(h, n, span, total) \in {1, 0, d, q \div span}
      /\ (Value(h, n, span, total) = d => d \in Int \/ Value(h, n, span, total) \in {1, 0, q \div span})
  BY <1>3, Zenon DEF Value, q, d
<1> QED BY <1>2, <1>4

\* The types of the fields of a block entry.
LEMMA EntryFields ==
    ASSUME NEW e \in Entry
    PROVE  /\ e.time \in Nat /\ e.size \in Nat /\ e.fee \in Nat /\ e.extra \in Nat
           /\ e.pow \in Nat /\ e.work \in Nat /\ e.coins \in Int
BY DEF Entry

\* A field of the blocks of a chain
LEMMA FieldOf ==
    ASSUME NEW s \in Seq(Entry)
    PROVE  /\ Field(s, "time") \in Seq(Nat) /\ Len(Field(s, "time")) = Len(s)
           /\ Field(s, "size") \in Seq(Nat) /\ Len(Field(s, "size")) = Len(s)
           /\ \A i \in 1..Len(s) : Field(s, "time")[i] = s[i].time /\ Field(s, "size")[i] = s[i].size
<1>1. \A i \in 1..Len(s) : s[i] \in Entry
  OBVIOUS
<1>2. \A i \in 1..Len(s) : s[i].time \in Nat /\ s[i].size \in Nat
  BY <1>1, EntryFields, Zenon
<1>3. Field(s, "time") = [i \in 1..Len(s) |-> s[i].time] /\ Field(s, "size") = [i \in 1..Len(s) |-> s[i].size]
  BY DEF Field
<1>4. \A g : g \in [1..Len(s) -> Nat] => g \in Seq(Nat) /\ Len(g) = Len(s)
  OBVIOUS
<1>5. Field(s, "time") \in [1..Len(s) -> Nat] /\ Field(s, "size") \in [1..Len(s) -> Nat]
  BY <1>2, <1>3
<1>6. \A i \in 1..Len(s) : Field(s, "time")[i] = s[i].time /\ Field(s, "size")[i] = s[i].size
  BY <1>3
<1> QED BY <1>4, <1>5, <1>6, Zenon

\* The time span between the cuts is at least 1.
LEMMA TimeSpanIsNat ==
    ASSUME NEW times \in Seq(Nat), Len(times) > 1
    PROVE  TimeSpan(Sorted(times), Len(times)) \in Nat /\ TimeSpan(Sorted(times), Len(times)) >= 1
<1> DEFINE n == Len(times)
           x == Sorted(times)[CutEnd(n)]
           y == Sorted(times)[CutBegin(n) + 1]
<1>1. CutEnd(n) \in 1..n /\ CutBegin(n) + 1 \in 1..n
  BY CutsInside
<1>2. x = Ranked(times, CutEnd(n)) /\ y = Ranked(times, CutBegin(n) + 1)
  BY <1>1 DEF Sorted
<1>3. \A i \in 1..n : Ranked(times, i) \in Nat
  <2> SUFFICES ASSUME NEW i \in 1..n PROVE Ranked(times, i) \in Nat
    OBVIOUS
  <2>1. PICK j \in 1..n : Ranked(times, i) = times[j]
    BY RankExists
  <2> QED BY <2>1
<1>4. x \in Nat /\ y \in Nat
  BY <1>1, <1>2, <1>3, Zenon
<1>5. TimeSpan(Sorted(times), n) = Greatest(1, x - y)
  BY DEF TimeSpan
<1> HIDE DEF x, y
<1> QED BY <1>4, <1>5 DEF Greatest

\* nextDifficulty is an integer.
LEMMA NextDifficultyIsInt ==
    ASSUME NEW h, NEW s \in Seq(Entry)
    PROVE  nextDifficulty(h, s) \in Int
<1> DEFINE k == KeptOf(s)
           n == Len(k)
           span == TimeSpan(Sorted(Field(k, "time")), n)
           total == k[CutEnd(n)].work - k[CutBegin(n) + 1].work
<1>1. k \in Seq(Entry) /\ n \in Nat
  BY KeptIs
<1>2. nextDifficulty(h, s) = Value(h, n, span, total)
  BY NextDifficultyIs, Zenon
<1> HIDE DEF k
<1>3. CASE n > 1
  <2>1. Field(k, "time") \in Seq(Nat) /\ Len(Field(k, "time")) = n
    BY <1>1, FieldOf
  <2>2. span \in Nat /\ span >= 1
    BY <1>3, <2>1, TimeSpanIsNat
  <2>3. CutEnd(n) \in 1..n /\ CutBegin(n) + 1 \in 1..n
    BY <1>1, <1>3, CutsInside
  <2>4. \A i \in 1..n : k[i].work \in Nat
    <3>1. \A i \in 1..n : k[i] \in Entry
      BY <1>1
    <3> QED BY <3>1, EntryFields, Zenon
  <2>5. total \in Int
    BY <2>3, <2>4
  <2> HIDE DEF span, total, n
  <2> QED BY <1>1, <1>2, <2>2, <2>5, ValueIsInt
<1>4. CASE ~(n > 1)
  <2>1. n <= 1
    BY <1>1, <1>4
  <2> HIDE DEF span, total, n
  <2>2. nextDifficulty(h, s) = 1
    BY <1>2, <2>1, ValueSmall, Zenon
  <2> QED BY <2>2
<1> QED BY <1>3, <1>4

\* The difficulty of the block on top of a chain is an integer.
LEMMA DifficultyIsInt ==
    ASSUME NEW s \in Seq(Entry), s # <<>>
    PROVE  getDifficultyForNextBlock(s) \in Int
<1> DEFINE n == Len(s)
           a == Greatest(n - Least(n, difficultyBlocksCount), 1) + 1
<1>1. a \in Nat /\ 1 <= a /\ a <= n + 1
  BY ParametersAssumption DEF difficultyBlocksCount, Least, Greatest
<1> HIDE DEF a
<1>2. SubSeq(s, a, n) \in Seq(Entry)
  BY <1>1
<1>3. nextDifficulty(n, SubSeq(s, a, n)) \in Int
  BY <1>2, NextDifficultyIsInt, Zenon
<1> QED BY <1>3 DEF getDifficultyForNextBlock, a

-----------------------------------------------------------------------------
(* Supply, and the block pushBlock stores *)

\* Two divisions by m of at most a * m * m leave at most a.
LEMMA DividedTwice ==
    ASSUME NEW a \in Nat, NEW m \in Nat \ {0}, NEW k \in Nat, k <= m * m
    PROVE  ((a * k) \div m) \div m \in 0..a
<1> DEFINE p == a * k
           q == p \div m
           r == q \div m
<1>1. p \in Nat /\ p <= a * (m * m)
  BY Z3
<1>2. q \in Nat /\ q * m <= p
  BY <1>1, Z3
<1>3. r \in Nat /\ r * m <= q
  BY <1>2, Z3
<1>4. r <= a
  <2> SUFFICES ASSUME r >= a + 1 PROVE FALSE
    BY <1>3
  <2>1. r * m >= (a + 1) * m
    BY <1>3, Z3
  <2>2. q >= (a + 1) * m
    BY <2>1, <1>2, <1>3, Z3
  <2>3. q * m >= ((a + 1) * m) * m
    BY <2>2, <1>2, Z3
  <2>4. ((a + 1) * m) * m = a * (m * m) + m * m
    BY Z3
  <2>5. m * m > 0
    BY Z3
  <2> QED BY <2>3, <2>4, <2>5, <1>1, <1>2, Z3
<1> QED BY <1>3, <1>4

\* getPenalizedAmount: "assert(0 == penalizedAmountHi); assert(penalizedAmountLo < amount)", here with
\* equality for blocks up to the median.
LEMMA PenaltyTakes ==
    ASSUME NEW amount \in Nat, NEW m \in Nat \ {0}, NEW size \in Nat, size <= 2 * m
    PROVE  getPenalizedAmount(amount, m, size) \in 0..amount
<1>1. CASE size <= m
  BY <1>1 DEF getPenalizedAmount
<1>2. CASE size > m
  <2> DEFINE k == (2 * m - size) * size
  <2>1. k \in Nat
    BY Z3
  <2>2. m * m - k = (size - m) * (size - m)
    BY Z3
  <2>3. (size - m) * (size - m) >= 0
    BY Z3
  <2>4. k <= m * m
    BY <2>1, <2>2, <2>3, Z3
  <2> HIDE DEF k
  <2>5. ((amount * k) \div m) \div m \in 0..amount
    BY <2>1, <2>4, DividedTwice
  <2> QED BY <1>2, <2>5 DEF getPenalizedAmount, k
<1> QED BY <1>1, <1>2

\* The base reward is at most what is left of the supply.
LEMMA BaseWithinSupply ==
    ASSUME NEW generated \in 0..MoneySupply
    PROVE  baseReward(generated) \in 0..MoneySupply - generated
<1> DEFINE rest == MoneySupply - generated
           q == rest \div Speed
<1>1. rest \in Nat /\ Speed \in Nat \ {0}
  BY ParametersAssumption
<1>2. q \in Nat /\ q * Speed <= rest
  BY <1>1, Z3
<1>3. q <= q * Speed
  BY <1>1, <1>2, Z3
<1> QED BY <1>1, <1>2, <1>3 DEF baseReward

\* Whatever the median, the size of a block that fits and the fees it collects, what getBlockReward adds to
\* the coins generated keeps them within the supply: "assert(alreadyGeneratedCoins <= m_moneySupply)"
\* holds for the next block when it held for this one.
THEOREM RewardKeepsSupply ==
    ASSUME NEW median \in Nat, NEW generated \in 0..MoneySupply,
           NEW b, b.size \in Nat, b.fee \in 0..generated,
           getBlockReward(median, generated, b).fits
    PROVE  generated + getBlockReward(median, generated, b).emission \in 0..MoneySupply
<1> DEFINE m == Greatest(median, Zone)
           base == getPenalizedAmount(baseReward(generated), m, b.size)
           fee == getPenalizedAmount(b.fee, m, b.size)
<1>1. m \in Nat \ {0} /\ b.size <= 2 * m
  <2>1. getBlockReward(median, generated, b).fits = (b.size <= 2 * m)
    BY DEF getBlockReward
  <2>2. m \in Nat \ {0}
    BY ParametersAssumption DEF Greatest
  <2> QED BY <2>1, <2>2, Zenon
<1>2. baseReward(generated) \in Nat /\ baseReward(generated) <= MoneySupply - generated
  BY BaseWithinSupply, ParametersAssumption
<1>3. base \in 0..baseReward(generated)
  BY <1>1, <1>2, PenaltyTakes, Zenon
<1>4. fee \in 0..b.fee
  <2>1. b.fee \in Nat
    BY ParametersAssumption
  <2> HIDE DEF m
  <2> QED BY <1>1, <2>1, PenaltyTakes, ZenonT(30)
<1>5. getBlockReward(median, generated, b).emission = base - (b.fee - fee)
  BY DEF getBlockReward
<1> HIDE DEF base, fee, m
<1> QED BY <1>2, <1>3, <1>4, <1>5, ParametersAssumption
\* The last elements of a sequence, by their number and values.
LEMMA WindowOf ==
    ASSUME NEW X, NEW s \in Seq(X), NEW n \in Nat
    PROVE  /\ LastOf(s, n) \in Seq(X) /\ Len(LastOf(s, n)) = Least(n, Len(s)) /\ Least(n, Len(s)) \in 0..Len(s)
           /\ \A i \in 1..Least(n, Len(s)) : LastOf(s, n)[i] = s[(Len(s) - Least(n, Len(s))) + i]
<1> DEFINE m == Least(n, Len(s))
<1>1. m \in 0..Len(s)
  BY DEF Least
<1>2. LastOf(s, n) = SubSeq(s, Len(s) - m + 1, Len(s))
  BY DEF LastOf
<1> HIDE DEF m
<1>3. \A k \in 0..Len(s) :
         /\ SubSeq(s, Len(s) - k + 1, Len(s)) \in Seq(X) /\ Len(SubSeq(s, Len(s) - k + 1, Len(s))) = k
         /\ \A i \in 1..k : SubSeq(s, Len(s) - k + 1, Len(s))[i] = s[(Len(s) - k) + i]
  OBVIOUS
<1> QED BY <1>1, <1>2, <1>3, Zenon DEF m

\* The median of natural numbers is one.
LEMMA MedianIsNat ==
    ASSUME NEW s \in Seq(Nat)
    PROVE  medianValue(s) \in Nat
<1>1. PICK M \in Nat : \A j \in 1..Len(s) : s[j] <= M
  BY SeqBounded, Zenon
<1>2. medianValue(s) \in 0..M
  BY <1>1, MedianBounded, Zenon
<1> QED BY <1>2

\* The median size of the last blocks is a natural number.
LEMMA SizesMedianIsNat ==
    ASSUME NEW chain \in Seq(Entry)
    PROVE  medianValue(Field(LastOf(chain, RewardWindow), "size")) \in Nat
<1>1. RewardWindow \in Nat
  BY ParametersAssumption
<1>2. LastOf(chain, RewardWindow) \in Seq(Entry)
  BY <1>1, WindowOf
<1> QED BY <1>2, FieldOf, MedianIsNat

\* The size limit update_next_cumulative_size_limit computes is a natural number.
LEMMA LimitIsNat ==
    ASSUME NEW chain \in Seq(Entry)
    PROVE  update_next_cumulative_size_limit(chain) \in Nat
BY SizesMedianIsNat, ParametersAssumption DEF update_next_cumulative_size_limit, SizeMedian, Greatest

\* Place reads the size and the fee only.
LEMMA PlaceOf ==
    ASSUME NEW chain, NEW b, NEW e, b.size = e.size, b.fee = e.fee
    PROVE  Place(chain, b) = Place(chain, e)
BY Zenon DEF Place, getBlockReward

\* Whether a block is accepted depends on what the block says, not on what the chain records with
\* it.
LEMMA AcceptedOf ==
    ASSUME NEW chain, NEW b, NEW e, NEW now,
           b.time = e.time, b.size = e.size, b.fee = e.fee, b.extra = e.extra, b.pow = e.pow,
           Accepted(chain, b, now)
    PROVE  Accepted(chain, e, now)
<1>1. Place(chain, b) = Place(chain, e)
  BY PlaceOf, Zenon
<1> QED BY <1>1, Zenon DEF Accepted, PaysReward

\* The last entry of a chain.
LEMMA LastBlock ==
    ASSUME NEW chain \in Seq(Entry), chain # <<>>
    PROVE  Len(chain) \in Nat /\ Len(chain) >= 1 /\ Tip(chain) \in Entry /\ Tip(chain) = chain[Len(chain)]
BY DEF Tip

\* What pushBlock stores of an accepted block
LEMMA AcceptedEntry ==
    ASSUME NEW chain \in Seq(Entry), chain # <<>>, Tip(chain).coins \in 0..MoneySupply,
           NEW b \in Entry, NEW now, Accepted(chain, b, now)
    PROVE  /\ BlockEntry(chain, b) \in Entry
           /\ BlockEntry(chain, b).coins \in 0..MoneySupply
           /\ BlockEntry(chain, b).work > Tip(chain).work
<1> DEFINE d == getDifficultyForNextBlock(chain)
           m == medianValue(Field(LastOf(chain, RewardWindow), "size"))
           g == Tip(chain).coins
           e == Place(chain, b).emission
<1>1. Tip(chain) \in Entry
  BY LastBlock
<1>2. Tip(chain).work \in Nat /\ g \in 0..MoneySupply
  BY <1>1, EntryFields
<1>3. b.time \in Nat /\ b.size \in Nat /\ b.fee \in Nat /\ b.extra \in Nat /\ b.pow \in Nat
  BY EntryFields
<1>4. d \in Int /\ d >= 1
  <2>1. d \in Int
    BY DifficultyIsInt
  <2>2. d \in 1..b.pow
    BY DEF Accepted
  <2> QED BY <1>3, <2>1, <2>2
<1>5. g + e \in 0..MoneySupply
  <2>1. m \in Nat
    BY SizesMedianIsNat
  <2>2. b.fee \in 0..g
    <3>1. b.fee <= g
      BY DEF Accepted
    <3> QED BY <1>2, <1>3, <3>1, ParametersAssumption
  <2>3. getBlockReward(m, g, b).fits
    BY Zenon DEF Accepted, PaysReward, Place
  <2>4. g + getBlockReward(m, g, b).emission \in 0..MoneySupply
    BY <1>2, <1>3, <2>1, <2>2, <2>3, RewardKeepsSupply
  <2> QED BY <2>4 DEF Place
<1> DEFINE w == Tip(chain).work + d
           c == g + e
<1>6. BlockEntry(chain, b) = [time |-> b.time, size |-> b.size, fee |-> b.fee, extra |-> b.extra, pow |-> b.pow,
                              work |-> w, coins |-> c]
  BY Zenon DEF BlockEntry
<1>7. w \in Nat /\ w > Tip(chain).work /\ c \in 0..MoneySupply /\ c \in Int
  BY <1>2, <1>4, <1>5
<1> HIDE DEF w, c
<1> QED BY <1>3, <1>6, <1>7 DEF Entry

-----------------------------------------------------------------------------
(* Timestamps *)

Joint(u, s, t) ==
    /\ Len(u) = Len(s) + Len(t)
    /\ \A i \in 1..Len(s) : u[i] = s[i]
    /\ \A i \in 1..Len(t) : u[Len(s) + i] = t[i]

\* Two sequences joined, by their elements.
LEMMA Concatenated ==
    ASSUME NEW X, NEW s \in Seq(X), NEW t \in Seq(X)
    PROVE  s \o t \in Seq(X) /\ Joint(s \o t, s, t)
BY DEF Joint

\* The blocks of a chain up to one of them.
LEMMA PrefixBlocks ==
    ASSUME NEW X, NEW s \in Seq(X), NEW f \in 1..Len(s)
    PROVE  SubSeq(s, 1, f) \in Seq(X) /\ Len(SubSeq(s, 1, f)) = f /\ \A i \in 1..f : SubSeq(s, 1, f)[i] = s[i]
OBVIOUS

\* The block at a place of the two chains
LEMMA ChainTimes ==
    ASSUME NEW main \in Seq(Entry), NEW f \in 1..Len(main), NEW alt \in Seq(Entry), NEW chain,
           chain = SubSeq(main, 1, f) \o alt, NEW l, l = Len(alt)
    PROVE  /\ chain \in Seq(Entry) /\ Len(chain) = f + l
           /\ \A j \in 1..l : chain[((f + l) + 1) - j] = alt[(l + 1) - j]
           /\ \A j \in l + 1..f + l : chain[((f + l) + 1) - j] = main[((f + l) + 1) - j]
<1> DEFINE b == SubSeq(main, 1, f)
<1>1. b \in Seq(Entry) /\ Len(b) = f /\ \A i \in 1..f : b[i] = main[i]
  BY PrefixBlocks, Zenon
<1>2. f \in Nat /\ l \in Nat
  OBVIOUS
<1> HIDE DEF b
<1>3. b \o alt \in Seq(Entry) /\ Joint(b \o alt, b, alt)
  BY <1>1, Concatenated, Zenon
<1>4. chain = b \o alt
  BY DEF b
<1>5. /\ chain \in Seq(Entry) /\ Len(chain) = f + l
      /\ (\A i \in 1..f : chain[i] = main[i]) /\ (\A i \in 1..l : chain[f + i] = alt[i])
  BY <1>1, <1>3, <1>4, Zenon DEF Joint
<1>6. \A j \in 1..l : ((f + l) + 1) - j = f + ((l + 1) - j) /\ (l + 1) - j \in 1..l
  BY <1>2
<1>7. \A j \in l + 1..f + l : ((f + l) + 1) - j \in 1..f
  BY <1>2
<1> QED BY <1>5, <1>6, <1>7, Zenon

\* What complete_timestamps_vector takes of the main chain
Taken(top, need) == top - (IF top > need THEN top - need ELSE 0)
Rest(main, top, need) ==
    IF top = 0 THEN <<main[1].time>> ELSE [i \in 1..Taken(top, need) |-> main[top + 2 - i].time]

\* complete_timestamps_vector, by how many timestamps it is given.
LEMMA CompleteIs ==
    ASSUME NEW main, NEW top, NEW times
    PROVE  complete_timestamps_vector(main, top, times) =
               IF Len(times) >= CheckWindow THEN times ELSE times \o Rest(main, top, CheckWindow - Len(times))
BY Zenon DEF complete_timestamps_vector, Rest, Taken

\* How many timestamps of the main chain are taken, and when they are all there are.
LEMMA TakenIs ==
    ASSUME NEW f \in Nat, f >= 1, NEW l \in Nat, NEW w \in Nat, l < w, f + l # w
    PROVE  /\ Taken(f - 1, w - l) \in 0..f
           /\ f + l < w => (f - 1 = 0 => 1 < w - l) /\ Taken(f - 1, w - l) < w - l
           /\ f + l > w => f - 1 # 0 /\ Taken(f - 1, w - l) = w - l
<1>1. CASE f - 1 > w - l
  <2>1. Taken(f - 1, w - l) = w - l
    BY <1>1 DEF Taken
  <2> QED BY <1>1, <2>1
<1>2. CASE ~(f - 1 > w - l)
  <2>1. Taken(f - 1, w - l) = f - 1
    BY <1>2 DEF Taken
  <2> QED BY <1>2, <2>1
<1> QED BY <1>1, <1>2

\* The timestamps of k blocks from a place down
Down(d, s, m, k) == d \in Seq(Nat) /\ Len(d) = k /\ \A i \in 1..k : d[i] = s[(m + 1) - i].time

\* The timestamps of a chain read downwards from a block.
LEMMA TimesDown ==
    ASSUME NEW s \in Seq(Entry), NEW m \in 0..Len(s), NEW k \in 0..m
    PROVE  Down([i \in 1..k |-> s[(m + 1) - i].time], s, m, k)
<1>1. \A i \in 1..k : (m + 1) - i \in 1..Len(s)
  OBVIOUS
<1>2. \A i \in 1..Len(s) : s[i] \in Entry
  OBVIOUS
<1>3. \A i \in 1..k : s[(m + 1) - i].time \in Nat
  BY <1>1, <1>2, EntryFields, Zenon
<1>4. \A g : g \in [1..k -> Nat] => g \in Seq(Nat) /\ Len(g) = k
  OBVIOUS
<1> DEFINE d == [i \in 1..k |-> s[(m + 1) - i].time]
<1>5. d \in [1..k -> Nat] /\ \A i \in 1..k : d[i] = s[(m + 1) - i].time
  BY <1>3
<1> HIDE DEF d
<1>6. Down(d, s, m, k)
  BY <1>4, <1>5, Zenon DEF Down
<1> QED BY <1>6 DEF d

\* The two ways to collect the timestamps: handle_alternative_block has those of check_block_timestamp_main
\* in reverse, or both have fewer than the window.
CollectedFrom(c, chain, n) ==
    /\ n < CheckWindow => Len(c) < CheckWindow
    /\ n > CheckWindow => /\ c \in Seq(Nat) /\ Len(c) = CheckWindow
                          /\ \A j \in 1..CheckWindow : c[j] = chain[(n + 1) - j].time

\* The timestamps handle_alternative_block collects are those of the last blocks of both parts, in
\* another order.
LEMMA Collected ==
    ASSUME NEW main \in Seq(Entry), NEW f \in 1..Len(main), NEW alt \in Seq(Entry), NEW chain,
           chain = SubSeq(main, 1, f) \o alt, NEW l, l = Len(alt), l <= CheckWindow, f + l # CheckWindow,
           NEW c, c = CollectedTimestamps(main, f, alt)
    PROVE  CollectedFrom(c, chain, f + l)
<1> DEFINE W == CheckWindow
           times == [i \in 1..l |-> alt[(l + 1) - i].time]
           top == f - 1
           need == W - l
           taken == Taken(top, need)
           down == [i \in 1..taken |-> main[top + 2 - i].time]
           rest == Rest(main, top, need)
<1>1. l \in Nat /\ W \in Nat /\ f \in Nat /\ f >= 1 /\ l <= W /\ f + l # W /\ f <= Len(main)
  BY ParametersAssumption
<1>2. /\ \A j \in 1..l : chain[((f + l) + 1) - j] = alt[(l + 1) - j]
      /\ \A j \in l + 1..f + l : chain[((f + l) + 1) - j] = main[((f + l) + 1) - j]
  BY ChainTimes
<1>3. times \in Seq(Nat) /\ Len(times) = l /\ \A j \in 1..l : times[j] = alt[(l + 1) - j].time
  <2>1. l \in 0..Len(alt) /\ l \in 0..l
    BY <1>1
  <2>2. Down(times, alt, l, l)
    BY <2>1, TimesDown, Zenon
  <2> QED BY <2>2, Zenon DEF Down
<1>4. [i \in DOMAIN alt |-> alt[Len(alt) + 1 - i].time] = times
  <2>1. DOMAIN alt = 1..l /\ \A i \in 1..l : Len(alt) + 1 - i = (l + 1) - i
    BY <1>1
  <2> QED BY <2>1
<1>5. c = complete_timestamps_vector(main, top, times)
  BY <1>4, Zenon DEF CollectedTimestamps
<1> HIDE DEF times
<1>6. c = IF Len(times) >= W THEN times ELSE times \o rest
  <2>1. CheckWindow - Len(times) = need
    BY <1>3
  <2> HIDE DEF top
  <2>2. c = IF Len(times) >= W THEN times ELSE times \o Rest(main, top, CheckWindow - Len(times))
    BY <1>5, CompleteIs, Zenon
  <2> QED BY <2>1, <2>2, Zenon
<1>7. CASE l = W
  <2>1. c = times /\ ~(f + l < W)
    BY <1>1, <1>3, <1>6, <1>7
  <2>2. \A j \in 1..W : c[j] = chain[((f + l) + 1) - j].time
    BY <1>2, <1>3, <1>7, <2>1, Zenon
  <2>3. c \in Seq(Nat) /\ Len(c) = W
    BY <1>3, <1>7, <2>1
  <2> QED BY <2>1, <2>2, <2>3, Zenon DEF CollectedFrom
<1>8. CASE l # W
  <2>1. l < W
    BY <1>1, <1>8
  <2>2. c = times \o rest
    <3>1. ~(Len(times) >= W)
      BY <1>1, <1>3, <2>1
    <3> QED BY <1>6, <3>1, Zenon
  <2>3. /\ taken \in 0..f /\ (f + l < W => (top = 0 => 1 < W - l) /\ taken < W - l)
        /\ (f + l > W => top # 0 /\ taken = W - l)
    BY <1>1, <2>1, TakenIs, ZenonT(30)
  <2>5. down = [i \in 1..taken |-> main[(f + 1) - i].time]
    <3>1. \A i \in Int : top + 2 - i = (f + 1) - i
      BY <1>1
    <3>2. \A i \in 1..taken : top + 2 - i = (f + 1) - i
      BY <3>1
    <3> HIDE DEF top, taken
    <3> QED BY <3>2
  <2> HIDE DEF taken, top
  <2>6. down \in Seq(Nat) /\ Len(down) = taken /\ \A i \in 1..taken : down[i] = main[(f + 1) - i].time
    <3>1. f \in 0..Len(main) /\ taken \in 0..f
      BY <1>1, <2>3
    <3>2. Down([i \in 1..taken |-> main[(f + 1) - i].time], main, f, taken)
      BY <3>1, TimesDown, Zenon
    <3> HIDE DEF down
    <3> QED BY <2>5, <3>2, Zenon DEF Down
  <2> HIDE DEF down
  <2>7. rest \in Seq(Nat) /\ Len(rest) = IF top = 0 THEN 1 ELSE taken
    <3>1. main[1].time \in Nat
      <4>1. main[1] \in Entry
        BY <1>1
      <4> QED BY <4>1, EntryFields
    <3>2. <<main[1].time>> \in Seq(Nat) /\ Len(<<main[1].time>>) = 1
      BY <3>1
    <3>3. rest = IF top = 0 THEN <<main[1].time>> ELSE down
      BY DEF Rest, taken, down
    <3> HIDE DEF rest
    <3> QED BY <2>6, <3>2, <3>3, Zenon
  <2> HIDE DEF rest
  <2>8. /\ c \in Seq(Nat) /\ Len(c) = Len(times) + Len(rest)
        /\ \A i \in 1..Len(times) : c[i] = times[i]
        /\ \A i \in 1..Len(rest) : c[Len(times) + i] = rest[i]
    <3>1. times \in Seq(Nat) /\ rest \in Seq(Nat)
      BY <1>3, <2>7
    <3>2. times \o rest \in Seq(Nat) /\ Joint(times \o rest, times, rest)
      BY <3>1, Concatenated, Zenon
    <3> QED BY <2>2, <3>2, Zenon DEF Joint
  <2>9. ASSUME f + l < W PROVE Len(c) < W
    BY <1>1, <1>3, <2>3, <2>7, <2>8, <2>9
  <2>10. ASSUME f + l > W PROVE Len(c) = W /\ \A j \in 1..W : c[j] = chain[((f + l) + 1) - j].time
    <3>1. top # 0 /\ taken = W - l /\ rest = down
      <4>1. top # 0 /\ taken = W - l
        BY <2>3, <2>10
      <4> QED BY <4>1 DEF rest, Rest, taken, down
    <3>2. Len(c) = W
      <4>1. Len(c) = l + (W - l)
        BY <1>3, <2>6, <2>8, <3>1, Zenon
      <4> QED BY <1>1, <4>1
    <3>3. ASSUME NEW j \in 1..W PROVE c[j] = chain[((f + l) + 1) - j].time
      <4>1. CASE j <= l
        <5>1. j \in 1..l
          BY <1>1, <4>1
        <5> QED BY <1>2, <1>3, <2>8, <5>1, Zenon
      <4>2. CASE ~(j <= l)
        <5>1. /\ j \in l + 1..f + l /\ j - l \in 1..W - l /\ (f + 1) - (j - l) = ((f + l) + 1) - j
              /\ l + (j - l) = j
          BY <1>1, <2>10, <4>2
        <5>2. c[l + (j - l)] = main[(f + 1) - (j - l)].time
          BY <1>3, <2>6, <2>8, <3>1, <5>1, Zenon
        <5>3. c[j] = main[((f + l) + 1) - j].time
          BY <5>1, <5>2
        <5> QED BY <1>2, <5>1, <5>3, Zenon
      <4> QED BY <4>1, <4>2, ZenonT(30)
    <3> QED BY <3>2, <3>3, ZenonT(30)
  <2> QED BY <2>8, <2>9, <2>10, Zenon DEF CollectedFrom
<1> QED BY <1>7, <1>8

SameVerdict(a, b, t) == check_block_timestamp(a, t) = check_block_timestamp(b, t)

\* Both ways to collect the timestamps give one verdict on a timestamp.
LEMMA VerdictsAgree ==
    ASSUME NEW main \in Seq(Entry), NEW f \in 1..Len(main), NEW alt \in Seq(Entry), NEW chain,
           chain = SubSeq(main, 1, f) \o alt, Len(alt) <= CheckWindow, Len(chain) # CheckWindow, NEW t
    PROVE  SameVerdict(CollectedTimestamps(main, f, alt), Field(LastOf(chain, CheckWindow), "time"), t)
<1> DEFINE l == Len(alt)
           n == f + l
           W == CheckWindow
           c == CollectedTimestamps(main, f, alt)
           w == LastOf(chain, W)
           m == Field(w, "time")
<1>1. W \in Nat /\ l \in Nat /\ f \in Nat
  BY ParametersAssumption
<1>2. chain \in Seq(Entry) /\ Len(chain) = n
  BY ChainTimes
<1>3. n \in Nat /\ n # W /\ l = Len(alt) /\ l <= W
  BY <1>1, <1>2
<1> HIDE DEF l
<1>4. CollectedFrom(c, chain, n)
  BY <1>3, Collected, Zenon
<1>5. /\ w \in Seq(Entry) /\ Len(w) = Least(W, n)
      /\ \A i \in 1..Least(W, n) : w[i] = chain[(n - Least(W, n)) + i]
  <2>1. /\ w \in Seq(Entry) /\ Len(w) = Least(W, Len(chain))
        /\ \A i \in 1..Least(W, Len(chain)) : w[i] = chain[(Len(chain) - Least(W, Len(chain))) + i]
    BY <1>1, <1>2, WindowOf, Zenon
  <2> QED BY <1>2, <2>1, Zenon
<1> HIDE DEF w, c
<1>6. m \in Seq(Nat) /\ Len(m) = Least(W, n) /\ \A i \in 1..Least(W, n) : m[i] = w[i].time
  BY <1>5, FieldOf, SMTT(30)
<1> HIDE DEF m
<1>7. CASE n < W
  <2>1. Len(m) < W /\ Len(c) < W
    BY <1>1, <1>3, <1>4, <1>6, <1>7 DEF Least, CollectedFrom
  <2>2. check_block_timestamp(c, t) = TRUE /\ check_block_timestamp(m, t) = TRUE
    BY <2>1, Zenon DEF check_block_timestamp
  <2> QED BY <2>2, ZenonT(30) DEF m, w, c, SameVerdict
<1>8. CASE n > W
  <2>1. Least(W, n) = W
    BY <1>1, <1>3, <1>8 DEF Least
  <2>2. Len(c) = W /\ Len(m) = W /\ c \in Seq(Nat) /\ m \in Seq(Nat)
    BY <1>4, <1>6, <1>8, <2>1, Zenon DEF CollectedFrom
  <2>3. ASSUME NEW j \in 1..W PROVE c[j] = m[(W + 1) - j]
    <3>1. (W + 1) - j \in 1..W /\ (n - W) + ((W + 1) - j) = (n + 1) - j
      BY <1>1, <1>3
    <3>2. m[(W + 1) - j] = chain[(n - W) + ((W + 1) - j)].time
      BY <1>5, <1>6, <2>1, <3>1, Zenon
    <3>3. c[j] = chain[(n + 1) - j].time
      BY <1>4, <1>8, Zenon DEF CollectedFrom
    <3> QED BY <3>1, <3>2, <3>3, Zenon
  <2>4. medianValue(c) = medianValue(m)
    <3>1. Len(c) = Len(m) /\ \A j \in 1..Len(m) : c[j] = m[(Len(m) + 1) - j]
      BY <2>2, <2>3, Zenon
    <3>2. \A j \in 1..Len(m) : c[j] = m[Len(m) + 1 - j]
      <4>1. Len(m) \in Nat /\ \A j \in 1..Len(m) : (Len(m) + 1) - j = Len(m) + 1 - j
        BY <2>2
      <4> QED BY <3>1, <4>1
    <3> QED BY <2>2, <3>1, <3>2, MedianReversed, Zenon
  <2>5. check_block_timestamp(c, t) = check_block_timestamp(m, t)
    BY <2>2, <2>4, Zenon DEF check_block_timestamp
  <2> QED BY <2>5 DEF m, w, c, SameVerdict
<1>9. n < W \/ n > W
  <2>1. \A x, y \in Nat : x # y => x < y \/ x > y
    OBVIOUS
  <2> QED BY <1>1, <1>3, <2>1, Zenon
<1> QED BY <1>7, <1>8, <1>9

-----------------------------------------------------------------------------
(* Sound chains *)

\* Every block but the genesis block was accepted on the chain below it, and would be at the time now;
\* the coins are within the supply.
BlockSound(chain, i, now) ==
    /\ Accepted(SubSeq(chain, 1, i - 1), chain[i], now)
    /\ chain[i] = BlockEntry(SubSeq(chain, 1, i - 1), chain[i])
SoundAt(chain, now) ==
    /\ chain \in Seq(Entry) /\ chain # <<>> /\ chain[1] = Genesis
    /\ \A i \in 1..Len(chain) : chain[i].coins \in 0..MoneySupply
    /\ \A i \in 2..Len(chain) : BlockSound(chain, i, now)

\* The genesis block has an entry, within the supply.
LEMMA GenesisIsEntry == Genesis \in Entry /\ Genesis.coins \in 0..MoneySupply
<1> DEFINE c == MoneySupply \div Speed
<1>1. MoneySupply - 0 = MoneySupply /\ 0 \in 0..MoneySupply
  BY ParametersAssumption
<1>2. baseReward(0) \in 0..MoneySupply - 0
  BY <1>1, BaseWithinSupply
<1>3. c \in 0..MoneySupply
  BY <1>1, <1>2 DEF baseReward
<1>4. c \in Int
  BY <1>3
<1> HIDE DEF c
<1>5. Genesis = [time |-> 0, size |-> 1, fee |-> 0, extra |-> 0, pow |-> 1, work |-> 1, coins |-> c]
  BY DEF Genesis, c
<1> QED BY <1>3, <1>4, <1>5 DEF Entry

\* The chain of the genesis block alone is sound.
LEMMA GenesisSound ==
    ASSUME NEW now
    PROVE  SoundAt(<<Genesis>>, now)
<1>1. <<Genesis>> \in Seq(Entry) /\ <<Genesis>> # <<>> /\ <<Genesis>>[1] = Genesis /\ Len(<<Genesis>>) = 1
  BY GenesisIsEntry
<1>2. \A i \in 1..Len(<<Genesis>>) : i = 1
  BY <1>1
<1>3. \A i \in 2..Len(<<Genesis>>) : FALSE
  BY <1>1
<1> QED BY <1>1, <1>2, <1>3, GenesisIsEntry, Zenon DEF SoundAt

\* The last entry of a sound chain.
LEMMA SoundLast ==
    ASSUME NEW chain, NEW now, SoundAt(chain, now)
    PROVE  /\ chain \in Seq(Entry) /\ chain # <<>> /\ Len(chain) \in Nat /\ Len(chain) >= 1
           /\ Tip(chain) \in Entry /\ Tip(chain) = chain[Len(chain)]
           /\ Tip(chain).coins \in 0..MoneySupply
<1>1. chain \in Seq(Entry) /\ chain # <<>> /\ \A i \in 1..Len(chain) : chain[i].coins \in 0..MoneySupply
  BY Zenon DEF SoundAt
<1>2. Len(chain) \in Nat /\ Len(chain) >= 1 /\ Tip(chain) \in Entry /\ Tip(chain) = chain[Len(chain)]
  BY <1>1, LastBlock
<1>3. Len(chain) \in 1..Len(chain)
  BY <1>2
<1> QED BY <1>1, <1>2, <1>3, Zenon

\* The blocks below a block that was appended
LEMMA Appended ==
    ASSUME NEW X, NEW s \in Seq(X), NEW x \in X
    PROVE  /\ Append(s, x) \in Seq(X) /\ Append(s, x) # <<>> /\ Len(Append(s, x)) = Len(s) + 1
           /\ Append(s, x)[Len(s) + 1] = x /\ SubSeq(Append(s, x), 1, Len(s)) = s
           /\ (Len(s) + 1) - 1 = Len(s)
           /\ \A i \in 1..Len(s) + 1 : i \in 1..Len(s) \/ i = Len(s) + 1
           /\ \A i \in 2..Len(s) + 1 : (i \in 2..Len(s) /\ i \in 1..Len(s)) \/ i = Len(s) + 1
           /\ \A i \in 1..Len(s) : Append(s, x)[i] = s[i] /\ SubSeq(Append(s, x), 1, i - 1) = SubSeq(s, 1, i - 1)
OBVIOUS

\* Pushing again a block that was pushed on the same chain records the same.
LEMMA EntryStays ==
    ASSUME NEW chain, NEW b
    PROVE  BlockEntry(chain, BlockEntry(chain, b)) = BlockEntry(chain, b)
<1> DEFINE e == BlockEntry(chain, b)
<1>1. e.time = b.time /\ e.size = b.size /\ e.fee = b.fee /\ e.extra = b.extra /\ e.pow = b.pow
  BY DEF BlockEntry
<1> HIDE DEF e
<1>2. Place(chain, e) = Place(chain, b)
  BY <1>1, PlaceOf, Zenon
<1>3. BlockEntry(chain, e) = BlockEntry(chain, b)
  BY <1>1, <1>2, Zenon DEF BlockEntry
<1> QED BY <1>3 DEF e

\* A block that is accepted is accepted again, as the chain recorded it.
LEMMA EntryAccepted ==
    ASSUME NEW chain, NEW b, NEW now, Accepted(chain, b, now)
    PROVE  Accepted(chain, BlockEntry(chain, b), now)
<1> DEFINE e == BlockEntry(chain, b)
<1>1. e.time = b.time /\ e.size = b.size /\ e.fee = b.fee /\ e.extra = b.extra /\ e.pow = b.pow
  BY DEF BlockEntry
<1> HIDE DEF e
<1>2. Accepted(chain, e, now)
  BY <1>1, AcceptedOf, Zenon
<1> QED BY <1>2 DEF e

\* pushBlock keeps a chain sound.
LEMMA PushKeepsSound ==
    ASSUME NEW chain, NEW now, SoundAt(chain, now), NEW b \in Entry, Accepted(chain, b, now)
    PROVE  SoundAt(Append(chain, BlockEntry(chain, b)), now)
<1> DEFINE e == BlockEntry(chain, b)
           c == Append(chain, e)
           n == Len(chain)
<1>1. chain \in Seq(Entry) /\ chain # <<>> /\ n \in Nat /\ n >= 1 /\ Tip(chain).coins \in 0..MoneySupply
  BY SoundLast
<1>2. e \in Entry /\ e.coins \in 0..MoneySupply
  BY <1>1, AcceptedEntry
<1>3. Accepted(chain, e, now) /\ e = BlockEntry(chain, e)
  BY EntryAccepted, EntryStays
<1> HIDE DEF e
<1>4. /\ c \in Seq(Entry) /\ c # <<>> /\ Len(c) = n + 1 /\ c[n + 1] = e /\ SubSeq(c, 1, n) = chain /\ (n + 1) - 1 = n
      /\ \A i \in 1..n + 1 : i \in 1..n \/ i = n + 1
      /\ \A i \in 2..n + 1 : (i \in 2..n /\ i \in 1..n) \/ i = n + 1
      /\ \A i \in 1..n : c[i] = chain[i] /\ SubSeq(c, 1, i - 1) = SubSeq(chain, 1, i - 1)
  BY <1>1, <1>2, Appended
<1> HIDE DEF c, n
<1>5. c[1] = Genesis
  <2>1. 1 \in 1..n
    BY <1>1
  <2>2. chain[1] = Genesis
    BY DEF SoundAt
  <2> QED BY <1>4, <2>1, <2>2, Zenon
<1>6. \A i \in 1..Len(c) : c[i].coins \in 0..MoneySupply
  <2>1. \A i \in 1..n : chain[i].coins \in 0..MoneySupply
    BY Zenon DEF SoundAt, n
  <2> QED BY <1>2, <1>4, <2>1, Zenon
<1>7. \A i \in 2..Len(c) : BlockSound(c, i, now)
  <2>1. \A i \in 2..n : BlockSound(chain, i, now)
    BY Zenon DEF SoundAt, n
  <2>2. BlockSound(c, n + 1, now)
    <3>1. SubSeq(c, 1, (n + 1) - 1) = chain
      BY <1>4
    <3>2. c[n + 1] = e
      BY <1>4
    <3>3. Accepted(SubSeq(c, 1, (n + 1) - 1), c[n + 1], now)
      BY <1>3, <3>1, <3>2, Zenon
    <3>4. c[n + 1] = BlockEntry(SubSeq(c, 1, (n + 1) - 1), c[n + 1])
      BY <1>3, <3>1, <3>2, ZenonT(30)
    <3> QED BY <3>3, <3>4 DEF BlockSound
  <2>3. ASSUME NEW i \in 2..n, i \in 1..n PROVE BlockSound(c, i, now)
    BY <1>4, <2>1, <2>3, Zenon DEF BlockSound
  <2> QED BY <1>4, <2>2, <2>3, Zenon
<1> QED BY <1>4, <1>5, <1>6, <1>7, Zenon DEF SoundAt, c, e

\* What is left of a sound chain after blocks were disconnected is sound.
LEMMA PrefixSound ==
    ASSUME NEW chain, NEW now, SoundAt(chain, now), NEW h \in 1..Len(chain)
    PROVE  SoundAt(SubSeq(chain, 1, h), now)
<1> DEFINE c == SubSeq(chain, 1, h)
<1>1. chain \in Seq(Entry)
  BY DEF SoundAt
<1>2. /\ c \in Seq(Entry) /\ c # <<>> /\ Len(c) = h /\ 1 \in 1..h
      /\ \A i \in 1..h : i \in 1..Len(chain) /\ c[i] = chain[i] /\ SubSeq(c, 1, i - 1) = SubSeq(chain, 1, i - 1)
      /\ \A i \in 2..h : i \in 1..h /\ i \in 2..Len(chain)
  BY <1>1
<1> HIDE DEF c
<1>3. c[1] = Genesis
  BY <1>2, Zenon DEF SoundAt
<1>4. \A i \in 1..Len(c) : c[i].coins \in 0..MoneySupply
  BY <1>2, Zenon DEF SoundAt
<1>5. \A i \in 2..Len(c) : BlockSound(c, i, now)
  <2>1. \A i \in 2..Len(chain) : BlockSound(chain, i, now)
    BY Zenon DEF SoundAt
  <2> QED BY <1>2, <2>1, Zenon DEF BlockSound
<1> QED BY <1>2, <1>3, <1>4, <1>5, Zenon DEF SoundAt, c

\* The clock does not go back.
LEMMA LaterSound ==
    ASSUME NEW chain, NEW now \in Nat, NEW later \in Nat, now <= later, SoundAt(chain, now)
    PROVE  SoundAt(chain, later)
<1>1. ASSUME NEW c, NEW b \in Entry, Accepted(c, b, now) PROVE Accepted(c, b, later)
  <2>1. b.time \in Nat
    BY EntryFields
  <2>2. b.time <= now + FutureLimit
    BY <1>1 DEF Accepted, check_block_timestamp_main
  <2>3. b.time <= later + FutureLimit
    BY <2>1, <2>2, ParametersAssumption
  <2> QED BY <1>1, <2>3, Zenon DEF Accepted, check_block_timestamp_main
<1>2. \A i \in 2..Len(chain) : chain[i] \in Entry
  BY DEF SoundAt
<1> QED BY <1>1, <1>2, Zenon DEF SoundAt, BlockSound

\* The work grows along a sound chain.
LEMMA WorkGrows ==
    ASSUME NEW chain, NEW now, SoundAt(chain, now)
    PROVE  \A i \in 1..Len(chain) : chain[i].work \in Nat /\ chain[i].work <= Tip(chain).work
<1> DEFINE n == Len(chain)
           P == {k \in Nat : k < n => chain[n - k].work <= Tip(chain).work}
<1>1. chain \in Seq(Entry) /\ n \in Nat /\ n >= 1 /\ Tip(chain) = chain[n]
  BY SoundLast
<1>2. \A i \in 1..n : chain[i].work \in Nat
  <2>1. \A i \in 1..n : chain[i] \in Entry
    BY <1>1
  <2> QED BY <2>1, EntryFields, Zenon
<1>3. \A i \in 2..n : chain[i].work > chain[i - 1].work
  <2> SUFFICES ASSUME NEW i \in 2..n PROVE chain[i].work > chain[i - 1].work
    OBVIOUS
  <2> DEFINE s == SubSeq(chain, 1, i - 1)
  <2>1. i - 1 \in 1..n /\ i \in 1..n
    BY <1>1
  <2>2. SoundAt(s, now)
    BY <2>1, PrefixSound
  <2>3. s \in Seq(Entry) /\ s # <<>> /\ Tip(s).coins \in 0..MoneySupply /\ Tip(s) = s[Len(s)]
    BY <2>2, SoundLast, ZenonT(30)
  <2>4. Len(s) = i - 1 /\ s[i - 1] = chain[i - 1] /\ chain[i] \in Entry
    BY <1>1, <2>1
  <2>5. Accepted(s, chain[i], now) /\ chain[i] = BlockEntry(s, chain[i])
    BY DEF SoundAt, BlockSound
  <2> HIDE DEF s
  <2>6. BlockEntry(s, chain[i]).work > Tip(s).work
    BY <2>3, <2>4, <2>5, AcceptedEntry
  <2> QED BY <2>3, <2>4, <2>5, <2>6, Zenon
<1>4. 0 \in P
  <2>1. n - 0 = n /\ n \in 1..n
    BY <1>1
  <2> QED BY <1>1, <1>2, <2>1
<1>5. \A k \in Nat : k \in P => k + 1 \in P
  <2> SUFFICES ASSUME NEW k \in Nat, k \in P, k + 1 < n PROVE chain[n - (k + 1)].work <= Tip(chain).work
    OBVIOUS
  <2>1. n - k \in 2..n /\ n - (k + 1) = (n - k) - 1 /\ n - (k + 1) \in 1..n /\ n - k \in 1..n /\ n \in 1..n /\ k < n
    BY <1>1
  <2>2. chain[n - k].work <= Tip(chain).work
    BY <2>1
  <2>3. chain[n - k].work > chain[n - (k + 1)].work
    BY <1>3, <2>1, Zenon
  <2>4. chain[n - k].work \in Nat /\ chain[n - (k + 1)].work \in Nat /\ Tip(chain).work \in Nat
    BY <1>1, <1>2, <2>1, Zenon
  <2> HIDE DEF n, P
  <2> QED BY <2>2, <2>3, <2>4
<1> HIDE DEF P
<1>6. Nat \subseteq P
  BY <1>4, <1>5, Induction
<1> SUFFICES ASSUME NEW i \in 1..n PROVE chain[i].work <= Tip(chain).work
  BY <1>2
<1>7. n - i \in Nat /\ n - i < n /\ n - (n - i) = i
  BY <1>1
<1> QED BY <1>6, <1>7, Zenon DEF P

-----------------------------------------------------------------------------
(* Connect, one block after the other *)

\* The states of Connect
Connections == {c \in [chain : Seq(Entry), open : BOOLEAN] : SoundAt(c.chain, clock)}

\* Connecting a block keeps the chain sound.
LEMMA ConnectedStays ==
    ASSUME NEW c \in Connections, NEW b \in Entry
    PROVE  Connected(c, b) \in Connections
<1>1. c \in [chain : Seq(Entry), open : BOOLEAN] /\ SoundAt(c.chain, clock)
  BY DEF Connections
<1>2. CASE c.open /\ Accepted(c.chain, b, clock)
  <2> DEFINE s == Append(c.chain, BlockEntry(c.chain, b))
  <2>1. SoundAt(s, clock)
    BY <1>1, <1>2, PushKeepsSound
  <2>2. s \in Seq(Entry)
    BY <2>1, SoundLast, Zenon
  <2>3. Connected(c, b) = [c EXCEPT !.chain = s]
    BY <1>2 DEF Connected
  <2> HIDE DEF s
  <2>4. [c EXCEPT !.chain = s] \in [chain : Seq(Entry), open : BOOLEAN] /\ [c EXCEPT !.chain = s].chain = s
    BY <1>1, <2>2
  <2> QED BY <2>1, <2>3, <2>4, Zenon DEF Connections
<1>3. CASE ~(c.open /\ Accepted(c.chain, b, clock))
  <2>1. Connected(c, b) = [c EXCEPT !.open = FALSE]
    BY <1>3 DEF Connected
  <2>2. /\ [c EXCEPT !.open = FALSE] \in [chain : Seq(Entry), open : BOOLEAN]
        /\ [c EXCEPT !.open = FALSE].chain = c.chain
    BY <1>1, ZenonT(30)
  <2> QED BY <1>1, <2>1, <2>2, Zenon DEF Connections
<1> QED BY <1>2, <1>3

\* The steps of Connect: run[k] is its state after k blocks.
ConnectRun(run, chain, blocks) ==
    /\ run[0] = [chain |-> chain, open |-> TRUE]
    /\ \A k \in 1..Len(blocks) : run[k] = Connected(run[k - 1], blocks[k])
    /\ \A k \in 0..Len(blocks) : run[k] \in Connections
    /\ Connect(chain, blocks) = run[Len(blocks)]

\* Connecting the blocks one by one is a run of the steps of the loop.
LEMMA ConnectRuns ==
    ASSUME NEW chain, SoundAt(chain, clock), NEW blocks \in Seq(Entry)
    PROVE  \E run : ConnectRun(run, chain, blocks)
<1> DEFINE n == Len(blocks)
           base == [chain |-> chain, open |-> TRUE]
           G(g, m) == g = [k \in 0..m |-> IF k = 0 THEN base ELSE Connected(g[k - 1], blocks[k])]
           run == CHOOSE g : G(g, n)
<1>1. n \in Nat /\ \A i \in 1..n : blocks[i] \in Entry
  OBVIOUS
<1>2. base \in Connections
  <2>1. chain \in Seq(Entry)
    BY SoundLast
  <2> QED BY <2>1 DEF Connections
<1>3. Connect(chain, blocks) = run[n]
  BY Zenon DEF Connect
<1> HIDE DEF base
<1>4. \E g : G(g, n)
  <2> DEFINE P == {m \in Nat : \E g : G(g, m)}
  <2>1. 0 \in P
    <3>1. G([k \in 0..0 |-> base], 0)
      OBVIOUS
    <3> QED BY <3>1, ZenonT(30)
  <2>2. ASSUME NEW m \in Nat, NEW g, G(g, m) PROVE \E h : G(h, m + 1)
    <3> DEFINE h == [k \in 0..m + 1 |-> IF k = m + 1 THEN Connected(g[m], blocks[m + 1]) ELSE g[k]]
    <3>1. ASSUME NEW k \in 0..m + 1 PROVE h[k] = IF k = 0 THEN base ELSE Connected(h[k - 1], blocks[k])
      <4>1. CASE k = m + 1
        <5>1. k # 0 /\ k - 1 = m /\ h[k - 1] = g[m] /\ h[k] = Connected(g[m], blocks[m + 1])
          BY <4>1
        <5> QED BY <4>1, <5>1, Zenon
      <4>2. CASE k # m + 1
        <5>1. k \in 0..m /\ h[k] = g[k] /\ (k # 0 => h[k - 1] = g[k - 1])
          BY <4>2
        <5>2. g[k] = IF k = 0 THEN base ELSE Connected(g[k - 1], blocks[k])
          BY <2>2, <5>1, Zenon
        <5> QED BY <5>1, <5>2, Zenon
      <4> QED BY <4>1, <4>2
    <3>2. h = [k \in 0..m + 1 |-> h[k]]
      OBVIOUS
    <3> HIDE DEF h
    <3>3. G(h, m + 1)
      BY <3>1, <3>2, Zenon
    <3> QED BY <3>3, Zenon
  <2> HIDE DEF G
  <2>3. \A m \in Nat : m \in P => m + 1 \in P
    BY <2>2
  <2> HIDE DEF P
  <2>4. Nat \subseteq P
    BY <2>1, <2>3, Induction
  <2> QED BY <1>1, <2>4 DEF P
<1>5. G(run, n)
  BY <1>4, Zenon
<1> HIDE DEF run
<1>6. run[0] = base /\ \A k \in 1..n : run[k] = Connected(run[k - 1], blocks[k])
  <2>1. \A k \in 0..n : run[k] = IF k = 0 THEN base ELSE Connected(run[k - 1], blocks[k])
    BY <1>5, Zenon
  <2>2. 0 \in 0..n /\ \A k \in 1..n : k \in 0..n /\ k # 0
    BY <1>1
  <2> QED BY <2>1, <2>2, Zenon
<1> HIDE DEF G
<1>7. \A k \in 0..n : run[k] \in Connections
  <2> DEFINE P == {k \in Nat : k <= n => run[k] \in Connections}
  <2>1. 0 \in P
    BY <1>2, <1>6
  <2>2. ASSUME NEW k \in Nat, k \in P PROVE k + 1 \in P
    <3> SUFFICES ASSUME k + 1 <= n PROVE run[k + 1] \in Connections
      OBVIOUS
    <3>1. k + 1 \in 1..n /\ (k + 1) - 1 = k /\ run[k] \in Connections
      BY <1>1, <2>2
    <3>2. run[k + 1] = Connected(run[k], blocks[k + 1]) /\ blocks[k + 1] \in Entry
      BY <1>1, <1>6, <3>1
    <3> QED BY <3>1, <3>2, ConnectedStays, Zenon
  <2> HIDE DEF P
  <2>3. Nat \subseteq P
    BY <2>1, <2>2, Induction
  <2> QED BY <1>1, <2>3 DEF P
<1>8. ConnectRun(run, chain, blocks)
  BY <1>3, <1>6, <1>7, Zenon DEF ConnectRun, base
<1> QED BY <1>8, Zenon

\* A step of Connect adds the block b to the chain of p, or ends the run.
Grown(p, q, b) ==
    \/ /\ p.open = TRUE /\ Accepted(p.chain, b, clock)
       /\ q.open = TRUE /\ q.chain = Append(p.chain, BlockEntry(p.chain, b))
    \/ /\ ~(p.open /\ Accepted(p.chain, b, clock))
       /\ q.open = FALSE /\ q.chain = p.chain

\* What connecting one block does: the chain grows by it, or the loop stops.
LEMMA ConnectedIs ==
    ASSUME NEW c \in Connections, NEW b
    PROVE  Grown(c, Connected(c, b), b)
<1>1. c \in [chain : Seq(Entry), open : BOOLEAN]
  BY DEF Connections
<1>2. CASE c.open /\ Accepted(c.chain, b, clock)
  <2>1. Connected(c, b) = [c EXCEPT !.chain = Append(c.chain, BlockEntry(c.chain, b))]
    BY <1>2 DEF Connected
  <2> QED BY <1>1, <1>2, <2>1 DEF Grown
<1>3. CASE ~(c.open /\ Accepted(c.chain, b, clock))
  <2>1. Connected(c, b) = [c EXCEPT !.open = FALSE]
    BY <1>3 DEF Connected
  <2> QED BY <1>1, <1>3, <2>1 DEF Grown
<1> QED BY <1>2, <1>3

\* The same at each step of a run of the loop.
LEMMA RunStep ==
    ASSUME NEW run, NEW chain, NEW blocks \in Seq(Entry), ConnectRun(run, chain, blocks), NEW k \in 1..Len(blocks)
    PROVE  /\ run[k - 1] \in Connections /\ run[k] \in Connections /\ blocks[k] \in Entry
           /\ Grown(run[k - 1], run[k], blocks[k])
<1>1. k - 1 \in 0..Len(blocks) /\ k \in 0..Len(blocks) /\ blocks[k] \in Entry
  OBVIOUS
<1>2. run[k] = Connected(run[k - 1], blocks[k]) /\ run[k - 1] \in Connections /\ run[k] \in Connections
  BY <1>1, Zenon DEF ConnectRun
<1>3. Grown(run[k - 1], Connected(run[k - 1], blocks[k]), blocks[k])
  BY <1>2, ConnectedIs
<1> QED BY <1>1, <1>2, <1>3, Zenon

\* What is true of the chain at each step of the loop.
LEMMA ConnectionIs ==
    ASSUME NEW c \in Connections
    PROVE  /\ c.chain \in Seq(Entry) /\ c.chain # <<>> /\ Len(c.chain) \in Nat /\ Len(c.chain) >= 1
           /\ SoundAt(c.chain, clock) /\ c.open \in BOOLEAN
           /\ Tip(c.chain) \in Entry /\ Tip(c.chain) = c.chain[Len(c.chain)] /\ Tip(c.chain).coins \in 0..MoneySupply
BY SoundLast DEF Connections

\* A step of Connect keeps the blocks that are there, and adds at most one.
LEMMA StepKeeps ==
    ASSUME NEW run, NEW chain, NEW blocks \in Seq(Entry), ConnectRun(run, chain, blocks), NEW k \in 1..Len(blocks)
    PROVE  /\ Len(run[k].chain) \in Len(run[k - 1].chain)..Len(run[k - 1].chain) + 1
           /\ Len(run[k - 1].chain) \in Nat
           /\ \A i \in 1..Len(run[k - 1].chain) : run[k].chain[i] = run[k - 1].chain[i]
           /\ run[k].open => /\ run[k - 1].open /\ Len(run[k].chain) = Len(run[k - 1].chain) + 1
                             /\ run[k].chain[Len(run[k].chain)] = BlockEntry(run[k - 1].chain, blocks[k])
<1> DEFINE p == run[k - 1]
           q == run[k]
<1>1. p \in Connections /\ q \in Connections /\ blocks[k] \in Entry /\ Grown(p, q, blocks[k])
  BY RunStep
<1>2. p.chain \in Seq(Entry) /\ Len(p.chain) \in Nat /\ p.chain # <<>> /\ Tip(p.chain).coins \in 0..MoneySupply
  BY <1>1, ConnectionIs
<1>3. CASE q.open
  <2>1. p.open = TRUE /\ Accepted(p.chain, blocks[k], clock) /\ q.chain = Append(p.chain, BlockEntry(p.chain, blocks[k]))
    BY <1>1, <1>3 DEF Grown
  <2> DEFINE s == p.chain
             b == blocks[k]
             e == BlockEntry(s, b)
  <2>0. s \in Seq(Entry) /\ s # <<>> /\ Tip(s).coins \in 0..MoneySupply /\ b \in Entry /\ Accepted(s, b, clock)
    BY <1>1, <1>2, <2>1, Zenon
  <2>2. e \in Entry
    <3> HIDE DEF s, b
    <3> QED BY <2>0, AcceptedEntry, Zenon
  <2> HIDE DEF e, s
  <2>3. s \in Seq(Entry) /\ Len(s) \in Nat
    BY <1>2 DEF s
  <2>4. /\ Len(Append(s, e)) = Len(s) + 1 /\ Append(s, e)[Len(s) + 1] = e
        /\ \A i \in 1..Len(s) : Append(s, e)[i] = s[i]
    BY <2>2, <2>3
  <2>5. Len(Append(s, e)) \in Len(s)..Len(s) + 1
    BY <2>3, <2>4
  <2> QED BY <1>2, <2>1, <2>4, <2>5, Zenon DEF e, s
<1>4. CASE ~q.open
  <2>1. q.chain = p.chain
    BY <1>1, <1>4 DEF Grown
  <2>2. Len(p.chain) \in Len(p.chain)..Len(p.chain) + 1
    BY <1>2
  <2> QED BY <1>2, <1>4, <2>1, <2>2, Zenon
<1> QED BY <1>3, <1>4

\* The blocks Connect started from stay, and at most its blocks come on top of them.
LEMMA RunKeeps ==
    ASSUME NEW run, NEW chain \in Seq(Entry), NEW blocks \in Seq(Entry), ConnectRun(run, chain, blocks)
    PROVE  \A k \in 0..Len(blocks) : /\ Len(run[k].chain) \in Len(chain)..Len(chain) + k
                                     /\ \A i \in 1..Len(chain) : run[k].chain[i] = chain[i]
<1> DEFINE n == Len(blocks)
           K(k) == /\ Len(run[k].chain) \in Len(chain)..Len(chain) + k
                   /\ \A i \in 1..Len(chain) : run[k].chain[i] = chain[i]
           P == {k \in Nat : k <= n => K(k)}
<1>1. 0 \in P
  <2>1. run[0] = [chain |-> chain, open |-> TRUE]
    BY Zenon DEF ConnectRun
  <2>2. run[0].chain = chain
    BY <2>1
  <2>3. Len(chain) \in Len(chain)..Len(chain) + 0
    OBVIOUS
  <2> QED BY <2>2, <2>3
<1>2. ASSUME NEW k \in Nat, k \in P PROVE k + 1 \in P
  <2> SUFFICES ASSUME k + 1 <= n PROVE K(k + 1)
    OBVIOUS
  <2>1. k + 1 \in 1..n /\ (k + 1) - 1 = k /\ K(k)
    BY <1>2
  <2>2. /\ Len(run[k + 1].chain) \in Len(run[k].chain)..Len(run[k].chain) + 1
        /\ Len(run[k].chain) \in Nat
        /\ \A i \in 1..Len(run[k].chain) : run[k + 1].chain[i] = run[k].chain[i]
    <3> DEFINE j == k + 1
    <3>1. j \in 1..n /\ j - 1 = k
      BY <2>1
    <3> HIDE DEF j
    <3>2. /\ Len(run[j].chain) \in Len(run[j - 1].chain)..Len(run[j - 1].chain) + 1
          /\ Len(run[j - 1].chain) \in Nat
          /\ \A i \in 1..Len(run[j - 1].chain) : run[j].chain[i] = run[j - 1].chain[i]
      BY <3>1, StepKeeps
    <3> QED BY <3>1, <3>2, Zenon DEF j
  <2> HIDE DEF n
  <2>3. Len(run[k + 1].chain) \in Len(chain)..Len(chain) + (k + 1)
    <3> DEFINE a == Len(run[k + 1].chain)
               b == Len(run[k].chain)
               c == Len(chain)
    <3>1. a \in b..b + 1 /\ b \in c..c + k /\ b \in Nat /\ c \in Nat
      BY <2>1, <2>2
    <3> HIDE DEF a, b, c
    <3>2. a \in c..c + (k + 1)
      BY <3>1
    <3> QED BY <3>2 DEF a, c
  <2>4. \A i \in 1..Len(chain) : i \in 1..Len(run[k].chain)
    BY <2>1, <2>2
  <2> QED BY <2>1, <2>2, <2>3, <2>4, Zenon
<1> HIDE DEF P
<1>3. Nat \subseteq P
  BY <1>1, <1>2, Induction
<1> QED BY <1>3 DEF P

\* A block that is refused closes the run.
LEMMA RunOpen ==
    ASSUME NEW run, NEW chain \in Seq(Entry), NEW blocks \in Seq(Entry), ConnectRun(run, chain, blocks),
           run[Len(blocks)].open
    PROVE  \A k \in 0..Len(blocks) : run[k].open
<1> DEFINE n == Len(blocks)
           P == {k \in Nat : k <= n => run[n - k].open}
<1>1. 0 \in P
  <2>1. n - 0 = n
    OBVIOUS
  <2> QED BY <2>1
<1>2. ASSUME NEW k \in Nat, k \in P PROVE k + 1 \in P
  <2> SUFFICES ASSUME k + 1 <= n PROVE run[n - (k + 1)].open
    OBVIOUS
  <2>1. n - k \in 1..n /\ (n - k) - 1 = n - (k + 1) /\ run[n - k].open
    BY <1>2
  <2>2. \A j \in 1..n : run[j].open => run[j - 1].open
    BY StepKeeps, Zenon
  <2> QED BY <2>1, <2>2
<1> HIDE DEF P
<1>3. Nat \subseteq P
  BY <1>1, <1>2, Induction
<1>4. \A k \in 0..n : n - k \in Nat /\ n - k <= n /\ n - (n - k) = k
  OBVIOUS
<1> QED BY <1>3, <1>4 DEF P

\* rollback_blockchain_switching: the blocks that were disconnected are connected again, every one of them.
LEMMA ConnectAgain ==
    ASSUME NEW main, SoundAt(main, clock), NEW f \in 1..Len(main)
    PROVE  Connect(SubSeq(main, 1, f), SubSeq(main, f + 1, Len(main))).chain = main
<1> DEFINE below == SubSeq(main, 1, f)
           blocks == SubSeq(main, f + 1, Len(main))
           n == Len(main) - f
<1>1. main \in Seq(Entry) /\ Len(main) \in Nat
  BY SoundLast
<1>2. /\ below \in Seq(Entry) /\ blocks \in Seq(Entry) /\ Len(blocks) = n /\ n \in Nat
      /\ \A k \in 1..n : blocks[k] = main[f + k] /\ f + k \in 2..Len(main)
  BY <1>1
<1>3. SoundAt(below, clock)
  BY PrefixSound
<1> HIDE DEF below, blocks
<1>4. PICK run : ConnectRun(run, below, blocks)
  BY <1>2, <1>3, ConnectRuns
<1> DEFINE P == {k \in Nat : k <= n => run[k].open /\ run[k].chain = SubSeq(main, 1, f + k)}
<1>5. 0 \in P
  <2>1. run[0] = [chain |-> below, open |-> TRUE]
    BY <1>4, Zenon DEF ConnectRun
  <2>2. run[0].open /\ run[0].chain = below /\ f + 0 = f
    BY <2>1
  <2> QED BY <2>2 DEF below
<1>6. ASSUME NEW k \in Nat, k \in P PROVE k + 1 \in P
  <2> SUFFICES ASSUME k + 1 <= n PROVE run[k + 1].open /\ run[k + 1].chain = SubSeq(main, 1, f + (k + 1))
    OBVIOUS
  <2> DEFINE j == f + (k + 1)
             s == SubSeq(main, 1, f + k)
  <2>0. k + 1 \in 1..n /\ (k + 1) - 1 = k /\ k <= n
    BY <1>2
  <2>1. k + 1 \in 1..n /\ (k + 1) - 1 = k /\ run[k].open /\ run[k].chain = s
    BY <1>6, <2>0, Zenon
  <2>2. blocks[k + 1] = main[j] /\ j \in 2..Len(main) /\ j - 1 = f + k
    BY <1>2, <2>1
  <2>3. Accepted(s, main[j], clock) /\ main[j] = BlockEntry(s, main[j])
    <3>1. BlockSound(main, j, clock)
      BY <2>2, Zenon DEF SoundAt
    <3> QED BY <2>2, <3>1 DEF BlockSound
  <2>4. Append(s, main[j]) = SubSeq(main, 1, j)
    BY <1>1, <2>2
  <2> HIDE DEF s, j
  <2>5. run[k + 1].open = TRUE /\ run[k + 1].chain = Append(run[k].chain, BlockEntry(run[k].chain, blocks[k + 1]))
    <3>1. k + 1 \in 1..Len(blocks)
      BY <1>2, <2>1
    <3>2. Accepted(run[(k + 1) - 1].chain, blocks[k + 1], clock) /\ run[(k + 1) - 1].open
      BY <2>1, <2>2, <2>3
    <3>3. /\ run[k + 1].open = TRUE
          /\ run[k + 1].chain = Append(run[(k + 1) - 1].chain, BlockEntry(run[(k + 1) - 1].chain, blocks[k + 1]))
      <4>1. Grown(run[(k + 1) - 1], run[k + 1], blocks[k + 1])
        BY <1>2, <1>4, <3>1, RunStep, Zenon
      <4> QED BY <3>2, <4>1 DEF Grown
    <3> QED BY <2>1, <3>3, SMTT(30)
  <2>6. BlockEntry(run[k].chain, blocks[k + 1]) = main[j]
    BY <2>1, <2>2, <2>3
  <2> QED BY <2>1, <2>4, <2>5, <2>6 DEF j
<1> HIDE DEF P
<1>7. Nat \subseteq P
  BY <1>5, <1>6, Induction
<1>8. run[n].chain = SubSeq(main, 1, f + n)
  BY <1>2, <1>7 DEF P
<1>9. SubSeq(main, 1, f + n) = main
  BY <1>1
<1>10. Connect(below, blocks) = run[n]
  BY <1>2, <1>4, Zenon DEF ConnectRun
<1> QED BY <1>8, <1>9, <1>10, Zenon DEF below, blocks

=============================================================================
