---------------------------- MODULE PositionLemmas ----------------------------
(***************************************************************************)
(* Facts about positions in sequences that the proofs of several modules   *)
(* rest on.                                                                *)
(***************************************************************************)
EXTENDS Integers, Sequences, SequencesExt, FiniteSetsExt, SortedSeq, FiniteSetTheorems, TLAPS

(* The least element of a finite set of positions, by the well-foundedness *)
(* of inclusion on its initial segments.                                   *)
LEMMA MinOfPositions ==
  ASSUME NEW I, I \subseteq Nat, IsFiniteSet(I), I # {}
  PROVE  Min(I) \in I /\ \A j \in I : Min(I) <= j
<1> DEFINE Upto(i) == {j \in I : j <= i}
           Segments == {Upto(i) : i \in I}
<1>1. Segments # {} /\ \A t \in Segments : t \subseteq I
  OBVIOUS
<1>2. Segments \subseteq FiniteSubsetsOf(I)
  BY <1>1, FS_Subset DEF FiniteSubsetsOf
<1>3. IsWellFoundedOn(StrictSubsetOrdering(I), FiniteSubsetsOf(I))
  BY FS_StrictSubsetOrderingWellFounded
<1> HIDE DEF Segments
<1>4. PICK t \in Segments : \A u \in Segments : ~ (<<u, t>> \in StrictSubsetOrdering(I))
  BY <1>1, <1>2, <1>3, WFMin
<1>5. PICK m \in I : t = Upto(m)
  BY <1>4 DEF Segments
<1>6. \A j \in I : m <= j
  <2>1. SUFFICES ASSUME NEW j \in I, j < m PROVE FALSE
    OBVIOUS
  <2>2. Upto(j) \in Segments /\ Upto(j) \subseteq I /\ Upto(m) \subseteq I
    BY DEF Segments
  <2>3. \A k \in I : k <= j => k <= m
    BY <2>1
  <2>4. Upto(j) \subseteq Upto(m)
    BY <2>3
  <2>5. m \in Upto(m) /\ m \notin Upto(j)
    BY <2>1, m \in Nat, j \in Nat
  <2>6. <<Upto(j), t>> \in StrictSubsetOrdering(I)
    BY <1>5, <2>2, <2>4, <2>5 DEF StrictSubsetOrdering
  <2>7. QED
    BY <1>4, <2>2, <2>6
<1>7. QED
  BY <1>6 DEF Min

(* A set of positions of a sequence is finite.                             *)
LEMMA FinitePositions ==
  ASSUME NEW n \in Nat, NEW I, I \subseteq 1..n
  PROVE  IsFiniteSet(I) /\ Cardinality(I) \in Nat
<1>1. IsFiniteSet(1..n)
  BY FS_Interval
<1>2. I \in SUBSET (1..n)
  OBVIOUS
<1>3. IsFiniteSet(I)
  BY <1>1, <1>2, FS_Subset
<1>4. QED
  BY <1>3, FS_CardinalityType

(* A sequence holds no more elements than it has positions.                *)
LEMMA HeldAtMostLen ==
  ASSUME NEW S, NEW s \in Seq(S)
  PROVE  /\ IsFiniteSet(ToSet(s)) /\ Cardinality(ToSet(s)) \in Nat
         /\ Cardinality(ToSet(s)) <= Len(s)
<1>1. Len(s) \in Nat /\ DOMAIN s = 1..Len(s)
  OBVIOUS
<1>2. IsFiniteSet(1..Len(s)) /\ Cardinality(1..Len(s)) = Len(s)
  BY <1>1, FS_Interval
<1>3. [i \in 1..Len(s) |-> s[i]] \in Surjection(1..Len(s), ToSet(s))
  BY <1>1 DEF Surjection, ToSet
<1>4. IsFiniteSet(ToSet(s)) /\ Cardinality(ToSet(s)) <= Cardinality(1..Len(s))
  BY <1>2, <1>3, FS_Surjection
<1>5. QED
  BY <1>2, <1>4, FS_CardinalityType

(* What a test selects in a sequence is the first position that passes.    *)
LEMMA FirstIn ==
  ASSUME NEW n \in Nat, NEW I, I \subseteq 1..n
  PROVE  I # {} => Min(I) \in I /\ \A j \in I : Min(I) <= j
<1>1. IsFiniteSet(I)
  BY FinitePositions
<1>2. I \subseteq Nat
  OBVIOUS
<1>3. QED
  BY <1>1, <1>2, MinOfPositions

-----------------------------------------------------------------------------
(* Sequences in order                                                      *)

Below(S, R, x) == {y \in S : <<y, x>> \in R}

(* In a strict total order of a finite set every rank is taken once, and   *)
(* grows with the order.                                                   *)
LEMMA Ranks ==
  ASSUME NEW S, IsFiniteSet(S), NEW R,
         \A x \in S : <<x, x>> \notin R,
         \A x, y, z \in S : <<x, y>> \in R /\ <<y, z>> \in R => <<x, z>> \in R,
         \A x, y \in S : x = y \/ <<x, y>> \in R \/ <<y, x>> \in R
  PROVE  /\ Cardinality(S) \in Nat
         /\ \A x \in S : Cardinality(Below(S, R, x)) \in 0..(Cardinality(S) - 1)
         /\ \A x, y \in S : <<x, y>> \in R =>
              Cardinality(Below(S, R, x)) < Cardinality(Below(S, R, y))
         /\ \A n \in 1..Cardinality(S) : \E x \in S : Cardinality(Below(S, R, x)) = n - 1
<1> DEFINE rank == [x \in S |-> Cardinality(Below(S, R, x))]
<1>1. Cardinality(S) \in Nat
  BY FS_CardinalityType
<1>2. \A x \in S : IsFiniteSet(Below(S, R, x)) /\ Cardinality(Below(S, R, x)) \in Nat
  BY FS_Subset, FS_CardinalityType DEF Below
<1>3. ASSUME NEW x \in S, NEW T \in SUBSET S, x \in T, Below(S, R, x) \subseteq T
      PROVE  Cardinality(Below(S, R, x)) < Cardinality(T)
  <2>1. IsFiniteSet(T)
    BY FS_Subset
  <2>2. Below(S, R, x) \in SUBSET T /\ Below(S, R, x) # T
    BY <1>3 DEF Below
  <2>3. Cardinality(T) \in Nat
    BY <2>1, FS_CardinalityType
  <2>4. Cardinality(Below(S, R, x)) <= Cardinality(T) /\ Cardinality(Below(S, R, x)) # Cardinality(T)
    BY <2>1, <2>2, FS_Subset
  <2>5. QED
    BY <1>2, <2>3, <2>4
<1>4. \A x \in S : Cardinality(Below(S, R, x)) \in 0..(Cardinality(S) - 1)
  <2>1. ASSUME NEW x \in S PROVE Cardinality(Below(S, R, x)) < Cardinality(S)
    BY <1>3 DEF Below
  <2>2. QED
    BY <1>1, <1>2, <2>1
<1>5. ASSUME NEW x \in S, NEW y \in S, <<x, y>> \in R
      PROVE  Cardinality(Below(S, R, x)) < Cardinality(Below(S, R, y))
  <2>1. Below(S, R, y) \in SUBSET S /\ x \in Below(S, R, y) /\ Below(S, R, x) \subseteq Below(S, R, y)
    BY <1>5 DEF Below
  <2>2. QED
    BY <1>3, <2>1
<1>6. ASSUME NEW n \in 1..Cardinality(S)
      PROVE  \E x \in S : Cardinality(Below(S, R, x)) = n - 1
  <2> DEFINE T == 0..(Cardinality(S) - 1)
  <2>1. rank \in [S -> T]
    BY <1>4
  <2>2. \A x, y \in S : rank[x] = rank[y] => x = y
    <3>1. ASSUME NEW x \in S, NEW y \in S, rank[x] = rank[y] PROVE x = y
      <4>1. Cardinality(Below(S, R, x)) \in Nat /\ Cardinality(Below(S, R, x)) = Cardinality(Below(S, R, y))
        BY <1>2, <3>1
      <4>2. ~ (<<x, y>> \in R) /\ ~ (<<y, x>> \in R)
        BY <1>5, <4>1
      <4>3. QED
        BY <4>2
    <3>2. QED
      BY <3>1
  <2>3. rank \in Injection(S, T)
    <3> HIDE DEF rank, T
    <3>1. QED
      BY <2>1, <2>2 DEF Injection, IsInjective
  <2>4. IsFiniteSet(T) /\ Cardinality(T) = Cardinality(S)
    <3>1. /\ IsFiniteSet(T)
          /\ Cardinality(T) = IF 0 > Cardinality(S) - 1 THEN 0 ELSE (Cardinality(S) - 1) - 0 + 1
      BY <1>1, FS_Interval, 0 \in Int, Cardinality(S) - 1 \in Int
    <3> HIDE DEF T
    <3>2. QED
      BY <1>1, <3>1
  <2>5. rank \in Surjection(S, T)
    <3> HIDE DEF rank, T
    <3>1. QED
      BY <2>3, <2>4, FS_Injection
  <2>6. PICK x \in S : rank[x] = n - 1
    <3>1. n - 1 \in T
      BY <1>1
    <3> HIDE DEF rank, T
    <3>2. QED
      BY <2>5, <3>1 DEF Surjection
  <2>7. QED
    BY <2>6
<1>7. QED
  BY <1>1, <1>4, <1>5, <1>6

(* A set of positions in their order.                                      *)
LEMMA PositionsInOrder ==
  ASSUME NEW I, IsFiniteSet(I), I \subseteq Int
  PROVE  /\ Cardinality(I) \in Nat
         /\ InOrder(I, <) \in [1..Cardinality(I) -> I]
         /\ \A m, n \in 1..Cardinality(I) : m < n => InOrder(I, <)[m] < InOrder(I, <)[n]
         /\ \A i \in I : \E n \in 1..Cardinality(I) : InOrder(I, <)[n] = i
<1> DEFINE R == {p \in I \X I : p[1] < p[2]}
           size == Cardinality(I)
           q == InOrder(I, <)
           rank == [i \in I |-> Cardinality({j \in I : j < i})]
<1>1. \A i \in I : Below(I, R, i) = {j \in I : j < i}
  BY DEF Below
<1>2. /\ \A i \in I : <<i, i>> \notin R
      /\ \A i, j, k \in I : <<i, j>> \in R /\ <<j, k>> \in R => <<i, k>> \in R
      /\ \A i, j \in I : i = j \/ <<i, j>> \in R \/ <<j, i>> \in R
      /\ \A i, j \in I : <<i, j>> \in R <=> i < j
  OBVIOUS
<1>3. /\ size \in Nat
      /\ \A i \in I : rank[i] \in 0..(size - 1)
      /\ \A i, j \in I : i < j => rank[i] < rank[j]
      /\ \A n \in 1..size : \E i \in I : rank[i] = n - 1
  <2>1. \A i \in I : rank[i] = Cardinality(Below(I, R, i))
    BY <1>1
  <2> HIDE DEF R, rank
  <2>2. /\ size \in Nat
        /\ \A i \in I : Cardinality(Below(I, R, i)) \in 0..(size - 1)
        /\ \A i, j \in I : <<i, j>> \in R =>
             Cardinality(Below(I, R, i)) < Cardinality(Below(I, R, j))
        /\ \A n \in 1..size : \E i \in I : Cardinality(Below(I, R, i)) = n - 1
    BY <1>2, Ranks
  <2> HIDE DEF size
  <2>3. \A i \in I : rank[i] \in 0..(size - 1)
    BY <2>1, <2>2
  <2>4. ASSUME NEW i \in I, NEW j \in I, i < j PROVE rank[i] < rank[j]
    <3>1. <<i, j>> \in R
      BY <1>2, <2>4
    <3>2. QED
      BY <2>1, <2>2, <3>1
  <2>5. \A n \in 1..size : \E i \in I : rank[i] = n - 1
    BY <2>1, <2>2
  <2>6. QED
    BY <2>2, <2>3, <2>4, <2>5
<1>4. /\ \A n \in 1..size : q[n] = CHOOSE i \in I : Cardinality({j \in I : j < i}) = n - 1
      /\ DOMAIN q = 1..size /\ q = [n \in 1..size |-> q[n]]
  BY DEF InOrder
<1>5. ASSUME NEW n \in 1..size PROVE q[n] \in I /\ rank[q[n]] = n - 1
  <2>1. \E i \in I : Cardinality({j \in I : j < i}) = n - 1
    BY <1>3
  <2> HIDE DEF q, rank, size, R
  <2>2. q[n] \in I /\ Cardinality({j \in I : j < q[n]}) = n - 1
    BY <1>4, <2>1
  <2>3. QED
    BY <2>2 DEF rank
<1> HIDE DEF q, rank, size, R
<1>6. q \in [1..size -> I]
  BY <1>4, <1>5
<1>7. ASSUME NEW m \in 1..size, NEW n \in 1..size, m < n PROVE q[m] < q[n]
  <2>1. /\ q[m] \in I /\ q[n] \in I /\ rank[q[m]] = m - 1 /\ rank[q[n]] = n - 1
        /\ q[m] \in Int /\ q[n] \in Int
    BY <1>5
  <2>2. q[m] # q[n] /\ ~ (q[n] < q[m])
    <3>1. rank[q[m]] < rank[q[n]]
      BY <1>3, <1>7, <2>1
    <3>2. ~ (rank[q[n]] < rank[q[m]]) /\ rank[q[n]] # rank[q[m]]
      BY <1>3, <1>7, <2>1
    <3>3. QED
      BY <1>3, <2>1, <3>2
  <2>3. QED
    BY <2>1, <2>2
<1>8. ASSUME NEW i \in I PROVE \E n \in 1..size : q[n] = i
  <2>1. PICK n \in 1..size : n = rank[i] + 1
    BY <1>3
  <2>2. q[n] \in I /\ rank[q[n]] = n - 1 /\ rank[i] = n - 1
    BY <1>3, <1>5, <2>1
  <2>3. ~ (i < q[n]) /\ ~ (q[n] < i)
    <3>1. ASSUME NEW j \in I, NEW k \in I, rank[j] = rank[k] PROVE ~ (j < k)
      BY <1>3, <3>1
    <3>2. QED
      BY <2>2, <3>1
  <2>4. i \in Int /\ q[n] \in Int
    BY <2>2
  <2>5. QED
    BY <2>3, <2>4
<1>9. QED
  BY <1>3, <1>6, <1>7, <1>8 DEF q, size

(* Positions in their order.                                               *)
Ordered(I) == InOrder(I, <)

LEMMA OrderedIs ==
  ASSUME NEW n \in Nat, NEW I, I \subseteq 1..n
  PROVE  /\ IsFiniteSet(I) /\ Cardinality(I) \in Nat
         /\ \A k \in 1..Cardinality(I) : Ordered(I)[k] \in I
         /\ \A k, m \in 1..Cardinality(I) : k < m => Ordered(I)[k] < Ordered(I)[m]
         /\ \A i \in I : \E k \in 1..Cardinality(I) : Ordered(I)[k] = i
<1> DEFINE q == InOrder(I, <)
           size == Cardinality(I)
<1>1. IsFiniteSet(I) /\ size \in Nat /\ I \subseteq Int
  <2>1. IsFiniteSet(I) /\ size \in Nat
    BY FinitePositions
  <2>2. QED
    BY <2>1
<1>2. /\ q \in [1..size -> I]
      /\ \A k, m \in 1..size : k < m => q[k] < q[m]
      /\ \A i \in I : \E k \in 1..size : q[k] = i
  BY <1>1, PositionsInOrder
<1>3. Ordered(I) = q
  BY DEF Ordered
<1> HIDE DEF q, size
<1>4. \A k \in 1..size : q[k] \in I
  BY <1>2
<1>5. QED
  BY <1>1, <1>2, <1>3, <1>4 DEF size

(* Each picked element is the one at its position.                         *)
LEMMA PickedIs ==
  ASSUME NEW s, NEW I
  PROVE  Picked(s, I) = [n \in 1..Cardinality(I) |-> s[Ordered(I)[n]]]
BY DEF Picked, Ordered

(* What is picked from a sequence: the elements at the positions chosen,   *)
(* in their order.                                                         *)
LEMMA PickedInOrder ==
  ASSUME NEW S, NEW s \in Seq(S), NEW I, I \subseteq 1..Len(s)
  PROVE  /\ Cardinality(I) \in Nat
         /\ Picked(s, I) \in Seq(S) /\ Len(Picked(s, I)) = Cardinality(I)
         /\ \A n \in 1..Cardinality(I) :
              Ordered(I)[n] \in I /\ Picked(s, I)[n] = s[Ordered(I)[n]]
<1> DEFINE q == Ordered(I)
           size == Cardinality(I)
<1>1. size \in Nat /\ \A n \in 1..size : q[n] \in I
  <2>1. Len(s) \in Nat
    OBVIOUS
  <2>2. QED
    BY <2>1, OrderedIs
<1>2. Picked(s, I) = [n \in 1..size |-> s[q[n]]]
  BY PickedIs
<1> HIDE DEF q, size
<1>3. ASSUME NEW n \in 1..size PROVE q[n] \in I /\ s[q[n]] \in S
  <2>1. q[n] \in I
    BY <1>1
  <2>2. q[n] \in 1..Len(s)
    BY <2>1
  <2>3. \A i \in 1..Len(s) : s[i] \in S
    OBVIOUS
  <2>4. QED
    BY <2>1, <2>2, <2>3
<1>4. Picked(s, I) \in Seq(S) /\ Len(Picked(s, I)) = size
  BY <1>1, <1>2, <1>3
<1>5. \A n \in 1..size : q[n] \in I /\ Picked(s, I)[n] = s[q[n]]
  BY <1>2, <1>3
<1>6. QED
  BY <1>1, <1>4, <1>5 DEF q, size

(* The greatest of a set of positions, seen from the other end.            *)
LEMMA MaxOfPositions ==
  ASSUME NEW n \in Nat, NEW I, I \subseteq 1..n, I # {}
  PROVE  Max(I) \in I /\ \A j \in I : j <= Max(I)
<1> DEFINE J == {k \in 0..n : n - k \in I}
<1>1. IsFiniteSet(J) /\ J \subseteq Nat
  <2>1. IsFiniteSet(0..n) /\ J \in SUBSET (0..n)
    BY FS_Interval
  <2>2. QED
    BY <2>1, FS_Subset
<1>2. PICK i \in I : TRUE
  OBVIOUS
<1>3. n - i \in J
  <2>1. i \in 1..n /\ n - i \in 0..n /\ n - (n - i) = i
    BY <1>2
  <2>2. QED
    BY <2>1
<1>4. PICK k \in J : \A j \in J : k <= j
  <2> HIDE DEF J
  <2>1. QED
    BY <1>1, <1>3, MinOfPositions
<1>5. k \in 0..n /\ n - k \in I
  BY <1>4
<1>6. ASSUME NEW j \in I PROVE j <= n - k
  <2>1. j \in 1..n /\ n - j \in 0..n /\ n - (n - j) = j
    OBVIOUS
  <2>2. n - j \in J
    BY <2>1
  <2> HIDE DEF J
  <2>3. k <= n - j
    BY <1>4, <2>2
  <2>4. QED
    BY <1>5, <2>1, <2>3
<1> DEFINE m == n - k
<1>7. m \in I /\ \A j \in I : m >= j
  BY <1>5, <1>6
<1> HIDE DEF m
<1>8. \E x \in I : \A y \in I : x >= y
  BY <1>7
<1>9. Max(I) \in I /\ \A y \in I : Max(I) >= y
  BY <1>8, Zenon DEF Max
<1>10. QED
  <2>1. ASSUME NEW j \in I PROVE j <= Max(I)
    <3>1. \A x \in I : x \in Int
      OBVIOUS
    <3>2. QED
      BY <1>9, <3>1
  <2>2. QED
    BY <1>9, <2>1
=============================================================================
