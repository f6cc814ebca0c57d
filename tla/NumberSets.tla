----------------------------- MODULE NumberSets -----------------------------
(***************************************************************************)
(* Facts about finite sets of natural numbers that the other proofs cite:  *)
(* timestamps, positions in a list and rows are such sets.                 *)
(***************************************************************************)
EXTENDS Integers, Sequences, FiniteSets, Functions, FiniteSetsExt, Listing,
        TLAPS, FiniteSetTheorems, FunctionTheorems

\* The elements of a sequence are finitely many.
LEMMA FiniteRange ==
  ASSUME NEW T, NEW s \in Seq(T)
  PROVE  IsFiniteSet(Range(s)) /\ Range(s) \subseteq T
<1>1. s \in [1..Len(s) -> T]
  OBVIOUS
<1>2. IsFiniteSet(1..Len(s))
  BY FS_Interval
<1>3. Range(s) \subseteq T /\ s \in Surjection(1..Len(s), Range(s))
  BY <1>1, Fun_RangeProperties
<1> QED
  BY <1>2, <1>3, FS_Surjection

\* The elements of S up to x.
UpTo(S, x) == {y \in S : y <= x}

\* Every position of a finite set of numbers has its element, and only that.
LEMMA Ranks ==
  ASSUME NEW S \in SUBSET Nat, IsFiniteSet(S)
  PROVE  /\ \A x \in S : Cardinality(UpTo(S, x)) \in 1..Cardinality(S)
         /\ \A x, y \in S : x < y => Cardinality(UpTo(S, x)) < Cardinality(UpTo(S, y))
         /\ \A i \in 1..Cardinality(S) : \E x \in S : Cardinality(UpTo(S, x)) = i
<1> DEFINE N == Cardinality(S)
           rank == [x \in S |-> Cardinality(UpTo(S, x))]
<1>0. \A x \in S : x \in Int
  OBVIOUS
<1>1. N \in Nat
  BY FS_CardinalityType
<1>2. ASSUME NEW x \in S
      PROVE  /\ IsFiniteSet(UpTo(S, x))
             /\ Cardinality(UpTo(S, x)) \in 1..N
  <2>1. UpTo(S, x) \in SUBSET S /\ x \in UpTo(S, x)
    BY <1>0 DEF UpTo
  <2>2. IsFiniteSet(UpTo(S, x)) /\ Cardinality(UpTo(S, x)) <= N
    BY <2>1, FS_Subset
  <2>3. Cardinality(UpTo(S, x)) \in Nat /\ Cardinality(UpTo(S, x)) # 0
    BY <2>1, <2>2, FS_CardinalityType, FS_EmptySet
  <2> QED BY <1>1, <2>2, <2>3
<1>3. ASSUME NEW x \in S, NEW y \in S, x < y
      PROVE  Cardinality(UpTo(S, x)) < Cardinality(UpTo(S, y))
  <2>0. x \in Int /\ y \in Int /\ \A z \in S : z \in Int /\ (z <= x => z <= y)
    BY <1>0, <1>3
  <2>1. UpTo(S, x) \in SUBSET UpTo(S, y) /\ y \in UpTo(S, y) /\ y \notin UpTo(S, x)
    <3>1. \A z \in UpTo(S, x) : z \in UpTo(S, y)
      BY <2>0 DEF UpTo
    <3>2. y \in UpTo(S, y) /\ y \notin UpTo(S, x)
      BY <1>3, <2>0 DEF UpTo
    <3> QED BY <3>1, <3>2
  <2>2. Cardinality(UpTo(S, x)) <= Cardinality(UpTo(S, y))
        /\ Cardinality(UpTo(S, x)) # Cardinality(UpTo(S, y))
    BY <1>2, <2>1, FS_Subset
  <2> QED BY <1>1, <1>2, <2>2
<1>4. rank \in Injection(S, 1..N)
  <2>1. rank \in [S -> 1..N]
    BY <1>2
  <2>2. ASSUME NEW x \in S, NEW y \in S, rank[x] = rank[y] PROVE x = y
    <3>1. ~(x < y) /\ ~(y < x)
      BY <1>2, <1>3, <2>2
    <3> QED BY <1>0, <3>1
  <2> HIDE DEF rank
  <2> QED BY <2>1, <2>2, Fun_IsInj
<1>5. rank \in Surjection(S, 1..N)
  <2>1. IsFiniteSet(1..N) /\ Cardinality(1..N) = N
    BY <1>1, FS_Interval
  <2> HIDE DEF rank
  <2> QED BY <1>4, <2>1, FS_Injection
<1>6. \A i \in 1..N : \E x \in S : rank[x] = i
  <2> HIDE DEF rank
  <2> QED BY <1>5, Fun_SurjectionProperties
<1> QED
  BY <1>2, <1>3, <1>6

\* A finite set of numbers has a least and a greatest element.
LEMMA Extremes ==
  ASSUME NEW S \in SUBSET Nat, IsFiniteSet(S), S # {}
  PROVE  /\ Min(S) \in S /\ \A x \in S : Min(S) <= x
         /\ Max(S) \in S /\ \A x \in S : x <= Max(S)
<1> DEFINE N == Cardinality(S)
<1>1. N \in Nat /\ N # 0
  BY FS_CardinalityType, FS_EmptySet
<1>2. PICK x \in S : Cardinality(UpTo(S, x)) = 1
  BY <1>1, Ranks
<1>3. PICK y \in S : Cardinality(UpTo(S, y)) = N
  BY <1>1, Ranks
<1>4. \A z \in S : x <= z
  BY <1>2, Ranks
<1>5. \A z \in S : z <= y
  BY <1>1, <1>3, Ranks
<1>6. Min(S) \in S /\ \A z \in S : Min(S) <= z
  BY <1>4 DEF Min
<1>7. Max(S) \in S /\ \A z \in S : z <= Max(S)
  BY <1>5 DEF Max
<1> QED
  BY <1>6, <1>7

\* Induction, over a set of numbers.
LEMMA SetInduction ==
  ASSUME NEW S, 0 \in S, \A n \in Nat : n \in S => n + 1 \in S
  PROVE  Nat \subseteq S
<1> SUFFICES ASSUME NEW n \in Nat, n \notin S PROVE FALSE
  OBVIOUS
<1> DEFINE Bad == {k \in 0..n : k \notin S}
<1>1. Bad \in SUBSET Nat /\ Bad # {}
  OBVIOUS
<1>2. IsFiniteSet(Bad)
  <2>1. Bad \in SUBSET (0..n) /\ IsFiniteSet(0..n)
    BY FS_Interval
  <2> QED BY <2>1, FS_Subset
<1>3. PICK m \in Bad : \A k \in Bad : m <= k
  <2> HIDE DEF Bad
  <2> QED BY <1>1, <1>2, Extremes
<1>4. m # 0 /\ m - 1 \in Nat /\ m - 1 \in 0..n /\ ~(m <= m - 1) /\ (m - 1) + 1 = m
  BY <1>3
<1>5. m - 1 \in S
  BY <1>3, <1>4
<1> QED
  BY <1>3, <1>4, <1>5

\* Sorted lists the elements of a finite set of numbers, each once and in order.
LEMMA SortedLists ==
  ASSUME NEW S \in SUBSET Nat, IsFiniteSet(S)
  PROVE  /\ Sorted(S) \in Seq(S)
         /\ Range(Sorted(S)) = S
         /\ \A i, j \in DOMAIN Sorted(S) : i < j => Sorted(S)[i] < Sorted(S)[j]
<1> DEFINE N == Cardinality(S)
<1>0. \A x \in S : x \in Int
  OBVIOUS
<1>1. N \in Nat /\ DOMAIN Sorted(S) = 1..N
  BY FS_CardinalityType DEF Sorted
<1>2. ASSUME NEW i \in 1..N
      PROVE  Sorted(S)[i] \in S /\ Cardinality(UpTo(S, Sorted(S)[i])) = i
  <2>1. Sorted(S)[i] = CHOOSE x \in S : Cardinality(UpTo(S, x)) = i
    BY DEF Sorted, UpTo
  <2>2. \E x \in S : Cardinality(UpTo(S, x)) = i
    BY Ranks
  <2> QED BY <2>1, <2>2
<1>3. Sorted(S) \in Seq(S)
  <2>1. Sorted(S) = [i \in 1..N |-> Sorted(S)[i]]
    BY DEF Sorted
  <2>2. Sorted(S) \in [1..N -> S]
    BY <1>2, <2>1
  <2> QED BY <1>1, <2>2
<1>4. ASSUME NEW x \in S PROVE \E i \in 1..N : Sorted(S)[i] = x
  <2> DEFINE i == Cardinality(UpTo(S, x))
             y == Sorted(S)[i]
  <2>1. i \in 1..N
    BY Ranks
  <2>2. y \in S /\ Cardinality(UpTo(S, y)) = i
    BY <1>2, <2>1
  <2>3. i \in Int /\ ~(x < y) /\ ~(y < x)
    <3> HIDE DEF y
    <3>1. i \in Int /\ ~(i < i)
      BY <2>1
    <3>2. Cardinality(UpTo(S, x)) = i
      OBVIOUS
    <3> HIDE DEF i
    <3> QED BY <2>2, <3>1, <3>2, Ranks
  <2>4. x = y
    <3> HIDE DEF i, y
    <3> QED BY <1>0, <2>2, <2>3
  <2> QED BY <2>1, <2>4
<1>5. ASSUME NEW i \in 1..N, NEW j \in 1..N, i < j PROVE Sorted(S)[i] < Sorted(S)[j]
  <2> DEFINE x == Sorted(S)[i]
             y == Sorted(S)[j]
  <2>1. x \in S /\ y \in S
        /\ Cardinality(UpTo(S, x)) = i /\ Cardinality(UpTo(S, y)) = j
    BY <1>2
  <2>2. i \in Int /\ j \in Int
    BY <1>1
  <2> HIDE DEF x, y
  <2>3. ~(y < x) /\ x # y
    BY <1>5, <2>1, <2>2, Ranks
  <2>4. x < y
    BY <1>0, <2>1, <2>3
  <2> QED BY <2>4 DEF x, y
<1> QED
  BY <1>1, <1>2, <1>3, <1>4, <1>5 DEF Range

=============================================================================
