------------------------------ MODULE SumLemmas ------------------------------
(***************************************************************************)
(* Facts about finite sums.  The folds of the community modules take the   *)
(* elements of a set in an order that CHOOSE fixes: what they compute is   *)
(* shown here not to depend on it, and then to grow with the set.          *)
(*                                                                         *)
(* Induction over finite sets is stated with the set of the sets for which *)
(* a fact holds, and proved from the well-foundedness of inclusion.        *)
(***************************************************************************)
EXTENDS PositionLemmas, Folds, Functions

(* What holds of the empty set, and with a set of every set that has one   *)
(* element more, holds of a finite set.                                    *)
LEMMA SetInduction ==
  ASSUME NEW S, IsFiniteSet(S), NEW G, {} \in G,
         \A T \in SUBSET S : \A x \in S \ T : T \in G => T \cup {x} \in G
  PROVE  S \in G
<1> DEFINE Bad == (SUBSET S) \ G
<1>1. SUFFICES ASSUME Bad # {} PROVE FALSE
  OBVIOUS
<1>2. Bad \subseteq FiniteSubsetsOf(S)
  BY FS_Subset DEF FiniteSubsetsOf
<1>3. IsWellFoundedOn(StrictSubsetOrdering(S), FiniteSubsetsOf(S))
  BY FS_StrictSubsetOrderingWellFounded
<1>4. PICK t \in Bad : \A u \in Bad : ~ (<<u, t>> \in StrictSubsetOrdering(S))
  <2> HIDE DEF Bad
  <2>1. QED
    BY <1>1, <1>2, <1>3, WFMin
<1>5. PICK x \in t : TRUE
  BY <1>4
<1>6. t \ {x} \in SUBSET S /\ x \in S \ (t \ {x}) /\ (t \ {x}) \cup {x} = t
  BY <1>4, <1>5
<1>7. t \ {x} \notin G
  BY <1>4, <1>6
<1>8. <<t \ {x}, t>> \in StrictSubsetOrdering(S)
  BY <1>4, <1>5 DEF StrictSubsetOrdering
<1>9. QED
  BY <1>4, <1>6, <1>7, <1>8

(* The same over the natural numbers up to n.                              *)
LEMMA UptoInduction ==
  ASSUME NEW n \in Nat, NEW G, 0 \in G, \A k \in 0..(n - 1) : k \in G => k + 1 \in G
  PROVE  n \in G
<1> DEFINE I == {k \in 0..n : k \notin G}
<1>1. SUFFICES ASSUME I # {} PROVE FALSE
  OBVIOUS
<1>2. I \subseteq Nat /\ IsFiniteSet(I)
  <2>1. IsFiniteSet(0..n) /\ I \in SUBSET (0..n)
    BY FS_Interval
  <2>2. QED
    BY <2>1, FS_Subset
<1>3. Min(I) \in I /\ \A j \in I : Min(I) <= j
  BY <1>1, <1>2, MinOfPositions
<1>4. PICK m \in 0..n : m \notin G /\ \A j \in I : m <= j
  BY <1>3
<1>5. m # 0 /\ m - 1 \in 0..(n - 1) /\ m - 1 \in 0..n
  BY <1>4
<1>6. m - 1 \in G
  BY <1>4, <1>5
<1>7. (m - 1) + 1 \in G
  BY <1>5, <1>6
<1>8. QED
  BY <1>4, <1>5, <1>7

-----------------------------------------------------------------------------
(* Sums                                                                    *)

(* g adds up the values h over the subsets of S, taking the elements in    *)
(* the order c.                                                            *)
Adds(g, h, c, S) ==
  g = [s \in SUBSET S |-> IF s = {} THEN 0 ELSE h[c[s]] + g[s \ {c[s]}]]

(* c names an element of every set that has one.                           *)
Chooses(c, S) == \A s \in SUBSET S : s # {} => c[s] \in s

(* g is the sum of h over the subsets of S, whatever the order.            *)
IsSum(g, h, S) ==
  /\ g \in [SUBSET S -> Int]
  /\ g[{}] = 0
  /\ \A T \in SUBSET S : \A x \in S \ T : g[T \cup {x}] = h[x] + g[T]

(* A function that adds up h exists: it is built over the sets of at most   *)
(* k elements, for every k.                                                *)
LEMMA AddsExists ==
  ASSUME NEW S, IsFiniteSet(S), NEW h, NEW c, Chooses(c, S), \A x \in S : h[x] \in Int
  PROVE  \E g : Adds(g, h, c, S)
<1> DEFINE Rest(s) == s \ {c[s]}
           Value(g, s) == IF s = {} THEN 0 ELSE h[c[s]] + g[Rest(s)]
           Upto(g, k) == \A s \in SUBSET S : Cardinality(s) <= k => g[s] = Value(g, s)
           n == Cardinality(S)
           G == {k \in 0..n : \E g \in [SUBSET S -> Int] : Upto(g, k)}
<1>1. /\ n \in Nat
      /\ \A s \in SUBSET S : IsFiniteSet(s) /\ Cardinality(s) \in 0..n
      /\ \A s \in SUBSET S : s # {} => /\ Rest(s) \in SUBSET S /\ c[s] \in S
                                      /\ Cardinality(Rest(s)) = Cardinality(s) - 1
      /\ \A s \in SUBSET S : Cardinality(s) = 0 => s = {}
  <2>1. n \in Nat
    BY FS_CardinalityType
  <2>2. ASSUME NEW s \in SUBSET S
        PROVE  IsFiniteSet(s) /\ Cardinality(s) \in 0..n /\ (Cardinality(s) = 0 => s = {})
    <3>1. IsFiniteSet(s) /\ Cardinality(s) <= n
      BY FS_Subset
    <3>2. Cardinality(s) \in Nat /\ (Cardinality(s) = 0 => s = {})
      BY <3>1, FS_CardinalityType, FS_EmptySet
    <3>3. QED
      BY <2>1, <3>1, <3>2
  <2>3. ASSUME NEW s \in SUBSET S, s # {}
        PROVE  /\ Rest(s) \in SUBSET S /\ c[s] \in S
               /\ Cardinality(Rest(s)) = Cardinality(s) - 1
    <3>1. c[s] \in s
      BY <2>3 DEF Chooses
    <3>2. QED
      BY <2>2, <3>1, FS_RemoveElement
  <2>4. QED
    BY <2>1, <2>2, <2>3
<1>2. 0 \in G
  <2>1. [s \in SUBSET S |-> 0] \in [SUBSET S -> Int] /\ Upto([s \in SUBSET S |-> 0], 0)
    <3>1. ASSUME NEW s \in SUBSET S, Cardinality(s) <= 0
          PROVE  [u \in SUBSET S |-> 0][s] = Value([u \in SUBSET S |-> 0], s)
      <4>1. Cardinality(s) \in 0..n /\ (Cardinality(s) = 0 => s = {})
        BY <1>1
      <4>2. s = {}
        <5> HIDE DEF n
        <5>1. QED
          BY <1>1, <3>1, <4>1
      <4>3. QED
        BY <4>2
    <3> DEFINE z == [u \in SUBSET S |-> 0]
    <3>2. z \in [SUBSET S -> Int] /\ \A s \in SUBSET S : Cardinality(s) <= 0 => z[s] = Value(z, s)
      <4> HIDE DEF Value
      <4>1. QED
        BY <3>1
    <3>3. QED
      BY <3>2
  <2>2. 0 \in 0..n
    BY <1>1
  <2> HIDE DEF Upto
  <2>3. QED
    BY <2>1, <2>2
<1>3. ASSUME NEW k \in 0..(n - 1), k \in G PROVE k + 1 \in G
  <2>1. PICK e \in [SUBSET S -> Int] : Upto(e, k)
    BY <1>3
  <2> DEFINE g == [s \in SUBSET S |-> IF Cardinality(s) = k + 1 THEN Value(e, s) ELSE e[s]]
  <2>2. g \in [SUBSET S -> Int]
    <3>1. ASSUME NEW s \in SUBSET S PROVE Value(e, s) \in Int /\ e[s] \in Int
      <4>1. CASE s = {}
        BY <4>1
      <4>2. CASE s # {}
        <5>1. Rest(s) \in SUBSET S /\ h[c[s]] \in Int
          BY <1>1, <4>2
        <5> HIDE DEF Rest
        <5>2. QED
          BY <4>2, <5>1
      <4>3. QED
        BY <4>1, <4>2
    <3> HIDE DEF Value
    <3>2. QED
      BY <3>1
  <2>3. ASSUME NEW s \in SUBSET S, Cardinality(s) <= k + 1 PROVE g[s] = Value(g, s)
    <3>1. s # {} => g[Rest(s)] = e[Rest(s)]
      BY <1>1, <2>3
    <3>2. Value(g, s) = Value(e, s)
      BY <3>1
    <3>3. g[s] = Value(e, s)
      <4>1. CASE Cardinality(s) = k + 1
        BY <4>1
      <4>2. CASE Cardinality(s) # k + 1
        <5>1. Cardinality(s) <= k
          BY <1>1, <2>3, <4>2
        <5>2. e[s] = Value(e, s)
          BY <2>1, <5>1
        <5>3. QED
          BY <4>2, <5>2
      <4>3. QED
        BY <4>1, <4>2
    <3>4. QED
      BY <3>2, <3>3
  <2>4. Upto(g, k + 1)
    <3> HIDE DEF g, Value
    <3>1. QED
      BY <2>3
  <2>5. k + 1 \in 0..n
    <3> HIDE DEF n
    <3>1. QED
      BY <1>1
  <2> HIDE DEF g, Upto
  <2>6. QED
    BY <2>2, <2>4, <2>5
<1>4. n \in G
  <2> HIDE DEF G, n
  <2>1. QED
    BY <1>1, <1>2, <1>3, UptoInduction
<1>5. PICK g \in [SUBSET S -> Int] : Upto(g, n)
  <2> HIDE DEF Upto, n
  <2>1. QED
    BY <1>4
<1>6. \A s \in SUBSET S : g[s] = Value(g, s)
  <2> HIDE DEF n, Value
  <2>1. QED
    BY <1>1, <1>5
<1>7. g = [s \in SUBSET S |-> Value(g, s)]
  BY <1>6
<1>8. QED
  BY <1>7 DEF Adds

(* A sum does not depend on the order of its terms.                        *)
LEMMA AnyOrder ==
  ASSUME NEW S, IsFiniteSet(S), NEW h, NEW c, Chooses(c, S), \A x \in S : h[x] \in Int,
         NEW g, Adds(g, h, c, S)
  PROVE  IsSum(g, h, S)
<1>1. /\ g[{}] = 0
      /\ \A s \in SUBSET S : s # {} => /\ c[s] \in s /\ s \ {c[s]} \in SUBSET S
                                      /\ h[c[s]] \in Int
                                      /\ g[s] = h[c[s]] + g[s \ {c[s]}]
  BY DEF Adds, Chooses
<1> DEFINE Fine(T) == g[T] \in Int /\ \A x \in T : g[T] = h[x] + g[T \ {x}]
           Bad == {T \in SUBSET S : ~ Fine(T)}
<1>2. Bad = {}
  <2>1. SUFFICES ASSUME Bad # {} PROVE FALSE
    OBVIOUS
  <2>2. Bad \subseteq FiniteSubsetsOf(S)
    BY FS_Subset DEF FiniteSubsetsOf
  <2>3. IsWellFoundedOn(StrictSubsetOrdering(S), FiniteSubsetsOf(S))
    BY FS_StrictSubsetOrderingWellFounded
  <2>4. PICK t \in Bad : \A u \in Bad : ~ (<<u, t>> \in StrictSubsetOrdering(S))
    <3> HIDE DEF Bad
    <3>1. QED
      BY <2>1, <2>2, <2>3, WFMin
  <2>5. \A x \in t : Fine(t \ {x})
    <3>1. ASSUME NEW x \in t PROVE Fine(t \ {x})
      <4>1. t \ {x} \in SUBSET S /\ <<t \ {x}, t>> \in StrictSubsetOrdering(S)
        BY DEF StrictSubsetOrdering
      <4>2. t \ {x} \notin Bad
        BY <2>4, <4>1
      <4> HIDE DEF Fine
      <4>3. QED
        BY <4>1, <4>2
    <3> HIDE DEF Fine
    <3>2. QED
      BY <3>1
  <2>6. CASE t = {}
    BY <1>1, <2>4, <2>6
  <2>7. CASE t # {}
    <3> DEFINE d == c[t]
    <3>1. d \in t /\ h[d] \in Int /\ g[t] = h[d] + g[t \ {d}] /\ g[t \ {d}] \in Int
      BY <1>1, <2>4, <2>5, <2>7
    <3>2. g[t] \in Int
      BY <3>1
    <3> HIDE DEF d
    <3>3. ASSUME NEW x \in t PROVE g[t] = h[x] + g[t \ {x}]
      <4>1. CASE x = d
        BY <3>1, <4>1
      <4>2. CASE x # d
        <5> DEFINE r == (t \ {x}) \ {d}
        <5>1. (t \ {d}) \ {x} = r
          OBVIOUS
        <5>2. g[t \ {d}] = h[x] + g[r] /\ g[t \ {x}] = h[d] + g[r]
          <6>1. x \in t \ {d} /\ d \in t \ {x}
            BY <3>1, <4>2
          <6>2. /\ g[t \ {d}] = h[x] + g[(t \ {d}) \ {x}]
                /\ g[t \ {x}] = h[d] + g[(t \ {x}) \ {d}]
            BY <2>5, <3>1, <6>1, Zenon
          <6>3. QED
            BY <5>1, <6>2, Zenon
        <5>3. r \in SUBSET S /\ <<r, t>> \in StrictSubsetOrdering(S) /\ h[x] \in Int
          BY <2>4 DEF StrictSubsetOrdering
        <5>4. Fine(r)
          <6> HIDE DEF Fine, r
          <6>1. r \notin Bad
            BY <2>4, <5>3
          <6>2. QED
            BY <5>3, <6>1
        <5>5. g[r] \in Int
          BY <5>4
        <5> HIDE DEF r, Bad, Fine
        <5>6. QED
          BY <3>1, <5>2, <5>3, <5>5
      <4>3. QED
        BY <4>1, <4>2
    <3>4. QED
      BY <2>4, <3>2, <3>3
  <2>8. QED
    BY <2>6, <2>7
<1>3. \A T \in SUBSET S : Fine(T)
  <2> HIDE DEF Fine
  <2>1. QED
    BY <1>2
<1>4. g \in [SUBSET S -> Int]
  BY <1>3 DEF Adds
<1>5. ASSUME NEW T \in SUBSET S, NEW x \in S \ T PROVE g[T \cup {x}] = h[x] + g[T]
  <2>1. T \cup {x} \in SUBSET S /\ x \in T \cup {x} /\ (T \cup {x}) \ {x} = T
    OBVIOUS
  <2>2. QED
    BY <1>3, <2>1
<1>6. QED
  BY <1>1, <1>4, <1>5 DEF IsSum

-----------------------------------------------------------------------------
(* SumFunctionOnSet                                                        *)

LEMMA SumIsSum ==
  ASSUME NEW S, IsFiniteSet(S), NEW h, \A x \in S : h[x] \in Int
  PROVE  \E g : IsSum(g, h, S) /\ SumFunctionOnSet(h, S) = g[S]
<1> DEFINE c == [s \in SUBSET S |-> CHOOSE x \in s : TRUE]
           P(g) == g = [s \in SUBSET S |->
                          IF s = {} THEN 0
                          ELSE LET x == CHOOSE y \in s : TRUE IN h[x] + g[s \ {x}]]
           it == CHOOSE g : P(g)
<1>1. Chooses(c, S)
  <2>1. ASSUME NEW s \in SUBSET S, s # {} PROVE c[s] \in s
    <3>1. \E x \in s : TRUE
      BY <2>1
    <3>2. (CHOOSE x \in s : TRUE) \in s
      BY <3>1
    <3>3. c[s] = CHOOSE x \in s : TRUE
      OBVIOUS
    <3> HIDE DEF c
    <3>4. QED
      BY <3>2, <3>3
  <2>2. QED
    BY <2>1 DEF Chooses
<1>2. \A g : P(g) <=> Adds(g, h, c, S)
  <2>1. ASSUME NEW g
        PROVE  [s \in SUBSET S |-> IF s = {} THEN 0
                                   ELSE LET x == CHOOSE y \in s : TRUE IN h[x] + g[s \ {x}]]
               = [s \in SUBSET S |-> IF s = {} THEN 0 ELSE h[c[s]] + g[s \ {c[s]}]]
    <3>1. \A s \in SUBSET S : c[s] = CHOOSE y \in s : TRUE
      OBVIOUS
    <3> HIDE DEF c
    <3>2. QED
      BY <3>1
  <2> HIDE DEF c
  <2>2. QED
    BY <2>1 DEF Adds
<1>3. \E g : P(g)
  <2> HIDE DEF P, c
  <2>1. QED
    BY <1>1, <1>2, AddsExists
<1>4. P(it)
  <2> HIDE DEF P
  <2>1. QED
    BY <1>3
<1>5. IsSum(it, h, S)
  <2> HIDE DEF P, c, it
  <2>1. QED
    BY <1>1, <1>2, <1>4, AnyOrder
<1>6. SumFunctionOnSet(h, S) = it[S]
  BY Zenon DEF SumFunctionOnSet, FoldFunctionOnSet, MapThenFoldSet
<1> HIDE DEF it
<1>7. QED
  BY <1>5, <1>6

(* Two sums agree where their terms do.                                    *)
LEMMA SumsAgree ==
  ASSUME NEW S, NEW h, NEW g, IsSum(g, h, S), NEW T, NEW k, NEW e, IsSum(e, k, T),
         NEW U, IsFiniteSet(U), U \subseteq S, U \subseteq T, \A x \in U : h[x] = k[x]
  PROVE  g[U] = e[U]
<1> DEFINE G == {s \in SUBSET U : g[s] = e[s]}
<1>1. {} \in G
  BY DEF IsSum
<1>2. ASSUME NEW s \in SUBSET U, NEW x \in U \ s, s \in G PROVE s \cup {x} \in G
  <2>1. g[s \cup {x}] = h[x] + g[s] /\ e[s \cup {x}] = k[x] + e[s]
    BY DEF IsSum
  <2>2. QED
    BY <1>2, <2>1
<1>3. U \in G
  <2> HIDE DEF G
  <2>1. QED
    BY <1>1, <1>2, SetInduction
<1>4. QED
  BY <1>3

LEMMA SumType ==
  ASSUME NEW S, IsFiniteSet(S), NEW h, \A x \in S : h[x] \in Int
  PROVE  SumFunctionOnSet(h, S) \in Int
<1>1. PICK g : IsSum(g, h, S) /\ SumFunctionOnSet(h, S) = g[S]
  BY SumIsSum
<1>2. QED
  BY <1>1 DEF IsSum

LEMMA SumEmpty ==
  ASSUME NEW h
  PROVE  SumFunctionOnSet(h, {}) = 0
<1>1. IsFiniteSet({}) /\ \A x \in {} : h[x] \in Int
  BY FS_EmptySet
<1>2. QED
  BY <1>1, SumIsSum DEF IsSum

LEMMA SumSame ==
  ASSUME NEW S, IsFiniteSet(S), NEW h, NEW k, \A x \in S : h[x] \in Int /\ h[x] = k[x]
  PROVE  SumFunctionOnSet(h, S) = SumFunctionOnSet(k, S)
<1>1. PICK g : IsSum(g, h, S) /\ SumFunctionOnSet(h, S) = g[S]
  BY SumIsSum
<1>2. PICK e : IsSum(e, k, S) /\ SumFunctionOnSet(k, S) = e[S]
  BY SumIsSum
<1>3. g[S] = e[S]
  BY <1>1, <1>2, SumsAgree
<1>4. QED
  BY <1>1, <1>2, <1>3

LEMMA SumAdd ==
  ASSUME NEW S, IsFiniteSet(S), NEW h, \A x \in S : h[x] \in Int,
         NEW y, y \notin S, h[y] \in Int
  PROVE  SumFunctionOnSet(h, S \cup {y}) = h[y] + SumFunctionOnSet(h, S)
<1>1. IsFiniteSet(S \cup {y}) /\ \A x \in S \cup {y} : h[x] \in Int
  BY FS_AddElement
<1>2. PICK g : IsSum(g, h, S) /\ SumFunctionOnSet(h, S) = g[S]
  BY SumIsSum
<1>3. PICK e : IsSum(e, h, S \cup {y}) /\ SumFunctionOnSet(h, S \cup {y}) = e[S \cup {y}]
  BY <1>1, SumIsSum
<1>4. g[S] = e[S]
  BY <1>2, <1>3, SumsAgree
<1>5. e[S \cup {y}] = h[y] + e[S]
  <2>1. S \in SUBSET (S \cup {y}) /\ y \in (S \cup {y}) \ S
    OBVIOUS
  <2>2. QED
    BY <1>3, <2>1 DEF IsSum
<1>6. QED
  BY <1>2, <1>3, <1>4, <1>5

LEMMA SumDisjoint ==
  ASSUME NEW S, IsFiniteSet(S), NEW T, IsFiniteSet(T), S \cap T = {},
         NEW h, \A x \in S \cup T : h[x] \in Int
  PROVE  SumFunctionOnSet(h, S \cup T) = SumFunctionOnSet(h, S) + SumFunctionOnSet(h, T)
<1> DEFINE Sum(U) == SumFunctionOnSet(h, U)
           G == {U \in SUBSET T : Sum(S \cup U) = Sum(S) + Sum(U)}
<1>0. \A U \in SUBSET T : IsFiniteSet(U) /\ IsFiniteSet(S \cup U)
  BY FS_Subset, FS_Union
<1>1. \A U \in SUBSET T : Sum(U) \in Int /\ Sum(S \cup U) \in Int
  BY <1>0, SumType
<1>2. {} \in G
  <2>1. S \cup {} = S /\ Sum({}) = 0 /\ Sum(S) \in Int
    BY SumEmpty, SumType
  <2> HIDE DEF Sum
  <2>2. QED
    BY <2>1
<1>3. ASSUME NEW U \in SUBSET T, NEW y \in T \ U, U \in G PROVE U \cup {y} \in G
  <2>1. y \notin S \cup U /\ S \cup (U \cup {y}) = (S \cup U) \cup {y} /\ h[y] \in Int
    OBVIOUS
  <2>2. Sum(U \cup {y}) = h[y] + Sum(U)
    BY <1>0, <2>1, SumAdd
  <2>3. Sum((S \cup U) \cup {y}) = h[y] + Sum(S \cup U)
    BY <1>0, <2>1, SumAdd
  <2>4. Sum(S) \in Int /\ Sum(U) \in Int /\ Sum(S \cup U) = Sum(S) + Sum(U)
    BY <1>1, <1>3, SumType
  <2>5. Sum(S \cup (U \cup {y})) = h[y] + Sum(S \cup U)
    BY <2>1, <2>3
  <2> HIDE DEF Sum
  <2>6. Sum(S \cup (U \cup {y})) = Sum(S) + Sum(U \cup {y})
    BY <2>1, <2>2, <2>4, <2>5
  <2>7. QED
    BY <2>6
<1>4. T \in G
  <2> HIDE DEF G
  <2>1. QED
    BY <1>2, <1>3, SetInduction
<1>5. QED
  BY <1>4

(* Terms that are not negative: the sum is not, and bounds each of them.   *)
LEMMA SumBounds ==
  ASSUME NEW S, IsFiniteSet(S), NEW h, \A x \in S : h[x] \in Nat
  PROVE  /\ SumFunctionOnSet(h, S) \in Nat
         /\ \A x \in S : h[x] <= SumFunctionOnSet(h, S)
         /\ (\A x \in S : h[x] = 0) => SumFunctionOnSet(h, S) = 0
<1> DEFINE Sum(U) == SumFunctionOnSet(h, U)
           Good(U) == /\ Sum(U) \in Nat
                      /\ \A x \in U : h[x] <= Sum(U)
                      /\ (\A x \in U : h[x] = 0) => Sum(U) = 0
           G == {U \in SUBSET S : Good(U)}
<1>1. {} \in G
  BY SumEmpty
<1>2. ASSUME NEW U \in SUBSET S, NEW y \in S \ U, U \in G PROVE U \cup {y} \in G
  <2>1. Sum(U \cup {y}) = h[y] + Sum(U)
    BY FS_Subset, SumAdd
  <2> HIDE DEF Sum
  <2>2. QED
    BY <1>2, <2>1
<1>3. S \in G
  <2> HIDE DEF G
  <2>1. QED
    BY <1>1, <1>2, SetInduction
<1>4. QED
  BY <1>3

(* Larger terms, and more of them, never add up to less.                   *)
LEMMA SumMonotone ==
  ASSUME NEW S, NEW T, IsFiniteSet(T), S \subseteq T,
         NEW h, \A x \in S : h[x] \in Nat,
         NEW k, \A x \in T : k[x] \in Nat, \A x \in S : h[x] <= k[x]
  PROVE  SumFunctionOnSet(h, S) <= SumFunctionOnSet(k, T)
<1> DEFINE Low(U) == SumFunctionOnSet(h, U)
           High(U) == SumFunctionOnSet(k, U)
           Good(U) == Low(U) \in Nat /\ High(U) \in Nat /\ Low(U) <= High(U)
           G == {U \in SUBSET S : Good(U)}
<1>1. IsFiniteSet(S) /\ IsFiniteSet(T \ S)
  BY FS_Subset, FS_Difference
<1>2. {} \in G
  BY SumEmpty
<1>3. ASSUME NEW U \in SUBSET S, NEW y \in S \ U, U \in G PROVE U \cup {y} \in G
  <2>1. IsFiniteSet(U)
    BY <1>1, FS_Subset
  <2>2. \A x \in S : h[x] \in Int /\ k[x] \in Int
    OBVIOUS
  <2>3. Low(U \cup {y}) = h[y] + Low(U)
    BY <2>1, <2>2, SumAdd
  <2>4. High(U \cup {y}) = k[y] + High(U)
    BY <2>1, <2>2, SumAdd
  <2>5. h[y] \in Nat /\ k[y] \in Nat /\ h[y] <= k[y]
    OBVIOUS
  <2> HIDE DEF Low, High
  <2>6. QED
    BY <1>3, <2>3, <2>4, <2>5
<1>4. S \in G
  <2> HIDE DEF G
  <2>1. QED
    BY <1>1, <1>2, <1>3, SetInduction
<1>5. S \cup (T \ S) = T /\ S \cap (T \ S) = {}
  OBVIOUS
<1>6. High(T) = High(S) + High(T \ S)
  BY <1>1, <1>5, SumDisjoint
<1>7. High(T \ S) \in Nat
  BY <1>1, SumBounds
<1>8. Good(S)
  BY <1>4
<1> HIDE DEF Low, High
<1>9. Low(S) <= High(T)
  BY <1>6, <1>7, <1>8
<1>10. QED
  BY <1>9 DEF Low, High

LEMMA DisjointCardinality ==
  ASSUME NEW A, IsFiniteSet(A), NEW B, IsFiniteSet(B), A \cap B = {}
  PROVE  IsFiniteSet(A \cup B) /\ Cardinality(A \cup B) = Cardinality(A) + Cardinality(B)
<1>1. /\ IsFiniteSet(A \cup B)
      /\ Cardinality(A \cup B) = Cardinality(A) + Cardinality(B) - Cardinality(A \cap B)
  BY FS_Union
<1>2. Cardinality(A) \in Nat /\ Cardinality(B) \in Nat
  BY FS_CardinalityType
<1>3. Cardinality(A \cap B) = 0
  BY FS_EmptySet
<1>4. QED
  BY <1>1, <1>2, <1>3

(* Sets that share nothing hold together what they hold one by one.        *)
LEMMA SumOfCardinalities ==
  ASSUME NEW S, IsFiniteSet(S), NEW c, \A x \in S : IsFiniteSet(c[x]),
         \A x, y \in S : x # y => c[x] \cap c[y] = {}
  PROVE  SumFunctionOnSet([x \in S |-> Cardinality(c[x])], S) = Cardinality(UNION {c[x] : x \in S})
<1> DEFINE h == [x \in S |-> Cardinality(c[x])]
           Held(U) == UNION {c[x] : x \in U}
           G == {U \in SUBSET S : /\ IsFiniteSet(Held(U))
                                  /\ SumFunctionOnSet(h, U) = Cardinality(Held(U))}
<1>1. \A x \in S : h[x] = Cardinality(c[x]) /\ h[x] \in Nat
  BY FS_CardinalityType
<1>2. {} \in G
  <2>1. Held({}) = {}
    OBVIOUS
  <2> HIDE DEF Held
  <2>2. QED
    BY <2>1, FS_EmptySet, SumEmpty
<1> HIDE DEF h
<1>3. ASSUME NEW U \in SUBSET S, NEW x \in S \ U, U \in G PROVE U \cup {x} \in G
  <2>1. IsFiniteSet(Held(U)) /\ SumFunctionOnSet(h, U) = Cardinality(Held(U))
    BY <1>3
  <2>2. Held(U \cup {x}) = Held(U) \cup c[x]
    OBVIOUS
  <2>3. Held(U) \cap c[x] = {}
    OBVIOUS
  <2> HIDE DEF Held
  <2>4. Cardinality(Held(U)) \in Nat /\ Cardinality(c[x]) \in Nat
    BY <2>1, FS_CardinalityType
  <2>5. /\ IsFiniteSet(Held(U) \cup c[x])
        /\ Cardinality(Held(U) \cup c[x]) = Cardinality(Held(U)) + Cardinality(c[x])
    BY <2>1, <2>3, DisjointCardinality
  <2>6. SumFunctionOnSet(h, U \cup {x}) = h[x] + SumFunctionOnSet(h, U)
    <3>1. IsFiniteSet(U) /\ \A y \in U : h[y] \in Int
      BY <1>1, FS_Subset
    <3>2. h[x] \in Int
      BY <1>1
    <3>3. QED
      BY <3>1, <3>2, SumAdd
  <2>7. SumFunctionOnSet(h, U \cup {x}) = Cardinality(Held(U \cup {x}))
    <3>1. Cardinality(Held(U \cup {x})) = Cardinality(Held(U)) + Cardinality(c[x])
      BY <2>2, <2>5
    <3>2. h[x] = Cardinality(c[x])
      BY <1>1
    <3>3. SumFunctionOnSet(h, U \cup {x}) = Cardinality(c[x]) + Cardinality(Held(U))
      BY <2>1, <2>6, <3>2
    <3>4. QED
      BY <2>4, <3>1, <3>3
  <2>8. QED
    BY <2>2, <2>5, <2>7
<1> HIDE DEF G, Held
<1>4. S \in G
  BY <1>2, <1>3, SetInduction
<1>5. QED
  BY <1>4 DEF G, Held, h
=============================================================================
