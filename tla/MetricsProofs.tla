---------------------------- MODULE MetricsProofs ----------------------------
(***************************************************************************)
(* The summary of the metrics, for any latencies, any volumes and any      *)
(* number of records.  The two sums are folds, which have no value until   *)
(* it is known that there is a function that satisfies their recursion:    *)
(* here it is a number of elements (SumIsSize), and that the recursion     *)
(* leaves no other is shown on a smallest set where it would (Least).      *)
(***************************************************************************)
EXTENDS Metrics, FiniteSetTheorems, SequenceTheorems, WellFoundedInduction, TLAPS

\* The least number of a set of numbers.
LEMMA Least ==
  ASSUME NEW T \in SUBSET Nat, T # {}
  PROVE  \E x \in T : \A y \in T : x <= y
<1>1. PICK x \in T : \A y \in T : ~ (<<y, x>> \in OpToRel(<, Nat))
  BY NatLessThanWellFounded, WFMin, Zenon
<1>2. ASSUME NEW y \in T PROVE x <= y
  <2>1. ~(y < x)
    BY <1>1 DEF OpToRel
  <2> QED BY <2>1
<1> QED BY <1>2

\* Min and Max of a set that has one.
LEMMA MinIs ==
  ASSUME NEW S \in SUBSET Int, NEW x \in S, \A y \in S : x <= y
  PROVE  Min(S) = x
<1>1. Min(S) \in S /\ \A y \in S : Min(S) <= y
  BY DEF Min
<1>2. Min(S) <= x /\ x <= Min(S) /\ Min(S) \in Int /\ x \in Int
  BY <1>1
<1> QED BY <1>2

LEMMA MaxIs ==
  ASSUME NEW S \in SUBSET Int, NEW x \in S, \A y \in S : x >= y
  PROVE  Max(S) = x
<1>1. Max(S) \in S /\ \A y \in S : Max(S) >= y
  BY DEF Max
<1>2. Max(S) >= x /\ x >= Max(S) /\ Max(S) \in Int /\ x \in Int
  BY <1>1
<1> QED BY <1>2

-----------------------------------------------------------------------------
(***************************************************************************)
(* Sums.                                                                   *)
(***************************************************************************)
\* What FoldFunctionOnSet chooses for a sum over S, applied to its subsets.
Sums(fun, S) ==
  CHOOSE iter : iter = [s \in SUBSET S |->
                          IF s = {} THEN 0
                          ELSE LET x == CHOOSE x \in s : TRUE
                               IN fun[x] + iter[s \ {x}]]

\* The two folds of the module are such sums.
LEMMA SumFunctionOnSetIs ==
  ASSUME NEW fun, NEW S
  PROVE  SumFunctionOnSet(fun, S) = Sums(fun, S)[S]
BY DEF SumFunctionOnSet, FoldFunctionOnSet, MapThenFoldSet, Sums

LEMMA SamplesUpToIs ==
  ASSUME NEW b
  PROVE  SamplesUpTo(b) = Sums(buckets, 1..b)[1..b]
BY DEF SamplesUpTo, FoldFunctionOnSet, MapThenFoldSet, Sums

\* A function with their recursion.
AddsUp(g, fun, S) ==
  /\ g \in [SUBSET S -> Int] /\ g[{}] = 0
  /\ \A s \in SUBSET S : \A x \in s : g[s] = fun[x] + g[s \ {x}]

\* It is the sums.
LEMMA SumsAre ==
  ASSUME NEW fun, NEW S, IsFiniteSet(S), NEW g, AddsUp(g, fun, S)
  PROVE  Sums(fun, S)[S] = g[S]
<1>0. /\ g \in [SUBSET S -> Int] /\ g[{}] = 0
      /\ \A s \in SUBSET S : \A x \in s : g[s] = fun[x] + g[s \ {x}]
  BY DEF AddsUp
<1> DEFINE Step(iter) == [s \in SUBSET S |->
                            IF s = {} THEN 0
                            ELSE LET x == CHOOSE x \in s : TRUE
                                 IN fun[x] + iter[s \ {x}]]
           iter == Sums(fun, S)
<1>1. Step(g) = g
  <2>1. ASSUME NEW s \in SUBSET S PROVE Step(g)[s] = g[s]
    <3>1. CASE s = {}
      BY <1>0, <3>1
    <3>2. CASE s # {}
      <4>1. (CHOOSE x \in s : TRUE) \in s
        BY <3>2
      <4> QED BY <1>0, <3>2, <4>1
    <3> QED BY <3>1, <3>2
  <2>2. DOMAIN Step(g) = SUBSET S /\ DOMAIN g = SUBSET S
    BY <1>0
  <2>3. Step(g) = [s \in SUBSET S |-> g[s]]
    BY <2>1
  <2> QED BY <1>0, <2>3
<1>2. iter = Step(iter)
  BY <1>1 DEF Sums
<1> DEFINE T == {n \in Nat : \E s \in SUBSET S : Cardinality(s) = n /\ iter[s] # g[s]}
<1>3. CASE T = {}
  <2>1. Cardinality(S) \in Nat
    BY FS_CardinalityType
  <2> QED BY <1>3, <2>1
<1>4. CASE T # {}
  <2>1. PICK n \in T : \A m \in T : n <= m
    <3> HIDE DEF T
    <3>1. T \in SUBSET Nat
      BY DEF T
    <3> QED BY <1>4, <3>1, Least
  <2>2. PICK s \in SUBSET S : Cardinality(s) = n /\ iter[s] # g[s]
    BY <2>1
  <2>3. s # {}
    <3>1. Step(iter)[{}] = 0
      OBVIOUS
    <3> HIDE DEF Step, iter
    <3> QED BY <1>0, <2>2, <1>2, <3>1
  <2> DEFINE x == CHOOSE x \in s : TRUE
  <2>4. x \in s
    BY <2>3
  <2>5. IsFiniteSet(s)
    BY FS_Subset
  <2>6. Cardinality(s \ {x}) = n - 1 /\ Cardinality(s \ {x}) \in Nat
    <3>1. IsFiniteSet(s \ {x}) /\ Cardinality(s \ {x}) = Cardinality(s) - 1
      BY <2>4, <2>5, FS_RemoveElement
    <3>2. Cardinality(s \ {x}) \in Nat
      BY <3>1, FS_CardinalityType
    <3> QED BY <2>2, <3>1, <3>2
  <2>7. n - 1 \notin T
    <3>1. n \in Nat
      OBVIOUS
    <3> HIDE DEF T
    <3> QED BY <2>1, <3>1
  <2>8. iter[s \ {x}] = g[s \ {x}]
    BY <2>6, <2>7
  <2>9. Step(iter)[s] = fun[x] + iter[s \ {x}]
    BY <2>3
  <2>10. iter[s] = fun[x] + iter[s \ {x}]
    <3> HIDE DEF Step, iter, x
    <3> QED BY <1>2, <2>9
  <2>11. g[s] = fun[x] + g[s \ {x}]
    BY <1>0, <2>4
  <2> QED BY <1>0, <2>2, <2>8, <2>10, <2>11
<1> QED BY <1>3, <1>4
-----------------------------------------------------------------------------
(***************************************************************************)
(* Sums as sizes of sets.                                                  *)
(***************************************************************************)
\* The elements of S that f sends into s, among the indices of a sequence.
IndicesIn(f, s) == {i \in DOMAIN f : f[i] \in s}

\* There are no more of them than indices.
LEMMA IndicesFinite ==
  ASSUME NEW f, NEW n \in Nat, DOMAIN f = 1..n, NEW s
  PROVE  IsFiniteSet(IndicesIn(f, s)) /\ Cardinality(IndicesIn(f, s)) \in 0..n
<1>1. IsFiniteSet(1..n) /\ Cardinality(1..n) = IF 1 > n THEN 0 ELSE n - 1 + 1
  BY FS_Interval
<1>2. Cardinality(1..n) = n
  BY <1>1
<1>3. IndicesIn(f, s) \in SUBSET (1..n)
  BY DEF IndicesIn
<1>4. IsFiniteSet(IndicesIn(f, s)) /\ Cardinality(IndicesIn(f, s)) <= n
  BY <1>1, <1>2, <1>3, FS_Subset
<1>5. Cardinality(IndicesIn(f, s)) \in Nat
  BY <1>4, FS_CardinalityType
<1> QED BY <1>4, <1>5

\* How many indices each element of S has adds up to how many S has.
LEMMA SumOfIndices ==
  ASSUME NEW f, NEW n \in Nat, DOMAIN f = 1..n,
         NEW S, IsFiniteSet(S),
         NEW count, \A x \in S : count[x] = Cardinality(IndicesIn(f, {x}))
  PROVE  \E g : AddsUp(g, count, S) /\ g[S] = Cardinality(IndicesIn(f, S))
<1> DEFINE g == [s \in SUBSET S |-> Cardinality(IndicesIn(f, s))]
<1>1. g \in [SUBSET S -> Int]
  BY IndicesFinite
<1>2. g[{}] = 0
  <2>1. IndicesIn(f, {}) = {}
    BY DEF IndicesIn
  <2> QED BY <2>1, FS_EmptySet
<1>3. ASSUME NEW s \in SUBSET S, NEW x \in s PROVE g[s] = count[x] + g[s \ {x}]
  <2> DEFINE A == IndicesIn(f, {x})
             B == IndicesIn(f, s \ {x})
  <2>1. IndicesIn(f, s) = A \union B /\ A \intersect B = {}
    BY DEF IndicesIn
  <2>2. IsFiniteSet(A) /\ IsFiniteSet(B)
    BY IndicesFinite
  <2>3. Cardinality(A) \in Nat /\ Cardinality(B) \in Nat
    BY <2>2, FS_CardinalityType
  <2> HIDE DEF A, B
  <2>4. Cardinality(A \union B) = Cardinality(A) + Cardinality(B) - Cardinality({})
    BY <2>1, <2>2, FS_Union
  <2>5. Cardinality({}) = 0
    BY FS_EmptySet
  <2>6. Cardinality(IndicesIn(f, s)) = Cardinality(A) + Cardinality(B)
    BY <2>1, <2>3, <2>4, <2>5
  <2>7. count[x] = Cardinality(A)
    BY DEF A
  <2> QED BY <2>6, <2>7 DEF B
<1>4. \A s \in SUBSET S : \A x \in s : g[s] = count[x] + g[s \ {x}]
  BY <1>3
<1>5. g[S] = Cardinality(IndicesIn(f, S))
  OBVIOUS
<1> HIDE DEF g
<1>6. AddsUp(g, count, S)
  BY <1>1, <1>2, <1>4 DEF AddsUp
<1> QED BY <1>5, <1>6

\* As many pairs as the values of f add up to, a negative value counting none.
Units(f, s, limit) == {p \in s \X (1..limit) : p[2] <= f[p[1]]}

\* They are finitely many.
LEMMA UnitsFinite ==
  ASSUME NEW f, NEW s, IsFiniteSet(s), NEW limit \in Nat
  PROVE  /\ IsFiniteSet(Units(f, s, limit))
         /\ Cardinality(Units(f, s, limit)) \in Nat
<1>1. IsFiniteSet(1..limit)
  BY FS_Interval
<1>2. IsFiniteSet(s \X (1..limit))
  BY <1>1, FS_Product
<1>3. Units(f, s, limit) \in SUBSET (s \X (1..limit))
  BY DEF Units
<1>4. IsFiniteSet(Units(f, s, limit))
  BY <1>2, <1>3, FS_Subset
<1> QED BY <1>4, FS_CardinalityType

\* Each element adds its value, if it is positive.
LEMMA UnitsAdd ==
  ASSUME NEW f, NEW s, IsFiniteSet(s), NEW x \in s, NEW limit \in Nat,
         f[x] \in Int, f[x] <= limit
  PROVE  Cardinality(Units(f, s, limit))
           = (IF f[x] > 0 THEN f[x] ELSE 0) + Cardinality(Units(f, s \ {x}, limit))
<1> DEFINE A == Units(f, {x}, limit)
           B == Units(f, s \ {x}, limit)
<1>1. IsFiniteSet({x}) /\ IsFiniteSet(s \ {x})
  BY FS_Singleton, FS_RemoveElement
<1>2. IsFiniteSet(A) /\ IsFiniteSet(B) /\ Cardinality(A) \in Nat /\ Cardinality(B) \in Nat
  BY <1>1, UnitsFinite
<1>3. Units(f, s, limit) = A \union B /\ A \intersect B = {}
  BY DEF Units
<1>4. A = {x} \X (1..f[x])
  BY DEF Units
<1>5. Cardinality(A) = IF f[x] > 0 THEN f[x] ELSE 0
  <2>1. IsFiniteSet(1..f[x])
        /\ Cardinality(1..f[x]) = IF 1 > f[x] THEN 0 ELSE f[x] - 1 + 1
    BY FS_Interval
  <2>2. Cardinality({x}) = 1 /\ IsFiniteSet({x})
    BY FS_Singleton
  <2>3. Cardinality({x} \X (1..f[x])) = 1 * Cardinality(1..f[x])
    BY <2>1, <2>2, FS_Product
  <2>4. Cardinality(A) = Cardinality(1..f[x])
    <3>1. Cardinality(1..f[x]) \in Int
      BY <2>1
    <3> HIDE DEF A
    <3>2. Cardinality(A) = 1 * Cardinality(1..f[x])
      BY <1>4, <2>3
    <3>3. \A c \in Int : 1 * c = c
      OBVIOUS
    <3> QED BY <3>1, <3>2, <3>3
  <2> HIDE DEF A
  <2> QED BY <2>1, <2>4
<1> HIDE DEF A, B
<1>6. Cardinality(A \union B) = Cardinality(A) + Cardinality(B) - Cardinality({})
  BY <1>2, <1>3, FS_Union
<1>7. Cardinality({}) = 0
  BY FS_EmptySet
<1>8. Cardinality(Units(f, s, limit)) = Cardinality(A) + Cardinality(B)
  BY <1>2, <1>3, <1>6, <1>7
<1> QED BY <1>5, <1>8 DEF B

\* A sum of numbers between -limit and limit.
Net(f, s, limit) ==
  Cardinality(Units(f, s, limit)) - Cardinality(Units([i \in s |-> -f[i]], s, limit))

\* It is what the fold adds up to.
LEMMA SumIsNet ==
  ASSUME NEW S, IsFiniteSet(S), NEW f, NEW limit \in Nat,
         \A i \in S : f[i] \in (-limit)..limit
  PROVE  SumFunctionOnSet(f, S) = Net(f, S, limit) /\ Net(f, S, limit) \in Int
<1> DEFINE minus == [i \in S |-> -f[i]]
           g == [s \in SUBSET S |-> Cardinality(Units(f, s, limit))
                                    - Cardinality(Units(minus, s, limit))]
<1>1. ASSUME NEW s \in SUBSET S
      PROVE  /\ IsFiniteSet(s)
             /\ Cardinality(Units(f, s, limit)) \in Nat
             /\ Cardinality(Units(minus, s, limit)) \in Nat
  <2>1. IsFiniteSet(s)
    BY FS_Subset
  <2> QED BY <2>1, UnitsFinite
<1>2. g \in [SUBSET S -> Int]
  BY <1>1
<1>3. g[{}] = 0
  <2>1. Units(f, {}, limit) = {} /\ Units(minus, {}, limit) = {}
    BY DEF Units
  <2> QED BY <2>1, FS_EmptySet
<1>4. ASSUME NEW s \in SUBSET S, NEW x \in s PROVE g[s] = f[x] + g[s \ {x}]
  <2>1. /\ IsFiniteSet(s) /\ f[x] \in Int /\ f[x] <= limit
        /\ minus[x] \in Int /\ minus[x] <= limit /\ minus[x] = -f[x]
    BY <1>1
  <2>2. Cardinality(Units(f, s, limit))
          = (IF f[x] > 0 THEN f[x] ELSE 0) + Cardinality(Units(f, s \ {x}, limit))
    BY <2>1, UnitsAdd
  <2>3. Cardinality(Units(minus, s, limit))
          = (IF minus[x] > 0 THEN minus[x] ELSE 0)
            + Cardinality(Units(minus, s \ {x}, limit))
    <3> HIDE DEF minus
    <3> QED BY <2>1, UnitsAdd
  <2>4. /\ Cardinality(Units(f, s \ {x}, limit)) \in Nat
        /\ Cardinality(Units(minus, s \ {x}, limit)) \in Nat
    BY <1>1
  <2>5. /\ g[s] = Cardinality(Units(f, s, limit)) - Cardinality(Units(minus, s, limit))
        /\ g[s \ {x}] = Cardinality(Units(f, s \ {x}, limit))
                        - Cardinality(Units(minus, s \ {x}, limit))
    OBVIOUS
  <2> HIDE DEF g, minus
  <2> QED BY <2>1, <2>2, <2>3, <2>4, <2>5
<1>5. g[S] = Net(f, S, limit)
  BY DEF Net
<1> HIDE DEF g
<1>6. Sums(f, S)[S] = g[S]
  <2>1. AddsUp(g, f, S)
    BY <1>2, <1>3, <1>4 DEF AddsUp
  <2> QED BY <2>1, SumsAre
<1> QED BY <1>2, <1>5, <1>6, SumFunctionOnSetIs
-----------------------------------------------------------------------------
(***************************************************************************)
(* The buckets.                                                            *)
(***************************************************************************)
LEMMA U64MaxIs == U64Max \in Nat
BY SMT DEF U64Max

LEMMA U64MaxLarge == 100000 < U64Max
BY SMT DEF U64Max

Bound(b) == IF b <= 10 THEN b * 100
            ELSE IF b <= 19 THEN (b - 9) * 1000
            ELSE IF b <= 28 THEN (b - 18) * 10000 ELSE U64Max

\* Concatenation and appending, with the lengths given.
LEMMA ConcatIs ==
  ASSUME NEW s \in Seq(Nat), NEW t \in Seq(Nat)
  PROVE  /\ s \o t \in Seq(Nat) /\ Len(s \o t) = Len(s) + Len(t)
         /\ \A i \in 1..(Len(s) + Len(t)) :
              (s \o t)[i] = IF i <= Len(s) THEN s[i] ELSE t[i - Len(s)]
BY ConcatProperties

\* The first and the second part of a concatenation.
LEMMA ConcatLeft ==
  ASSUME NEW s \in Seq(Nat), NEW t \in Seq(Nat), NEW m \in Nat, NEW n \in Nat,
         Len(s) = m, Len(t) = n
  PROVE  \A i \in 1..m : (s \o t)[i] = s[i]
<1>1. \A i \in 1..(m + n) : (s \o t)[i] = IF i <= m THEN s[i] ELSE t[i - m]
  BY ConcatIs, Zenon
<1>2. \A i \in 1..m : i \in 1..(m + n) /\ i <= m
  OBVIOUS
<1> QED BY <1>1, <1>2, Zenon

LEMMA ConcatRight ==
  ASSUME NEW s \in Seq(Nat), NEW t \in Seq(Nat), NEW m \in Nat, NEW n \in Nat,
         Len(s) = m, Len(t) = n
  PROVE  \A i \in 1..n : (s \o t)[m + i] = t[i]
<1>1. \A i \in 1..(m + n) : (s \o t)[i] = IF i <= m THEN s[i] ELSE t[i - m]
  BY ConcatIs, Zenon
<1>2. \A i \in 1..n : m + i \in 1..(m + n) /\ ~(m + i <= m) /\ (m + i) - m = i
  OBVIOUS
<1> QED BY <1>1, <1>2, Zenon

\* The boundaries that LatencyHistogram::new pushes are these bounds.
LEMMA BoundariesAre ==
  /\ Boundaries \in Seq(Nat) /\ Len(Boundaries) = 28 /\ BucketCount = 29
  /\ \A b \in 1..28 : Boundaries[b] = Bound(b)
<1> DEFINE A == [i \in 1..10 |-> i * 100]
           B == [i \in 1..9 |-> (i + 1) * 1000]
           C == [i \in 1..9 |-> (i + 1) * 10000]
           D == A \o B
<1>1. /\ A \in Seq(Nat) /\ Len(A) = 10 /\ B \in Seq(Nat) /\ Len(B) = 9
      /\ C \in Seq(Nat) /\ Len(C) = 9
  BY SMT
<1>2. /\ \A i \in 1..10 : A[i] = i * 100
      /\ \A i \in 1..9 : B[i] = (i + 1) * 1000
      /\ \A i \in 1..9 : C[i] = (i + 1) * 10000
  BY SMT
<1>3. Boundaries = D \o C
  BY SMT DEF Boundaries
<1> HIDE DEF A, B, C
<1>4. 10 + 9 = 19 /\ 19 + 9 = 28
  OBVIOUS
<1>9. 9 \in Nat
  OBVIOUS
<1>10. 10 \in Nat
  OBVIOUS
<1>11. 19 \in Nat
  OBVIOUS
<1>12. A \in Seq(Nat) /\ Len(A) = 10
  BY <1>1, Zenon
<1>13. B \in Seq(Nat) /\ Len(B) = 9
  BY <1>1, Zenon
<1>14. C \in Seq(Nat) /\ Len(C) = 9
  BY <1>1, Zenon
<1>5. /\ D \in Seq(Nat) /\ Len(D) = 19
      /\ \A i \in 1..10 : D[i] = A[i]
      /\ \A i \in 1..9 : D[10 + i] = B[i]
  <2>1. D \in Seq(Nat) /\ Len(D) = Len(A) + Len(B)
    BY <1>1, ConcatProperties, Zenon
  <2>2. Len(D) = 10 + 9
    BY <1>1, <2>1, Zenon
  <2>3. \A i \in 1..10 : D[i] = A[i]
    BY <1>9, <1>10, <1>12, <1>13, ConcatLeft, Zenon
  <2>4. \A i \in 1..9 : D[10 + i] = B[i]
    BY <1>9, <1>10, <1>12, <1>13, ConcatRight, Zenon
  <2> QED BY <1>4, <2>1, <2>2, <2>3, <2>4, Zenon
<1> HIDE DEF D
<1>15. D \in Seq(Nat) /\ Len(D) = 19
  BY <1>5, Zenon
<1>6. /\ Boundaries \in Seq(Nat) /\ Len(Boundaries) = 28
      /\ \A i \in 1..19 : Boundaries[i] = D[i]
      /\ \A i \in 1..9 : Boundaries[19 + i] = C[i]
  <2>1. Boundaries \in Seq(Nat) /\ Len(Boundaries) = Len(D) + Len(C)
    BY <1>1, <1>3, <1>5, ConcatProperties, Zenon
  <2>2. Len(Boundaries) = 19 + 9
    BY <1>1, <1>5, <2>1, Zenon
  <2>3. \A i \in 1..19 : Boundaries[i] = D[i]
    BY <1>3, <1>9, <1>11, <1>14, <1>15, ConcatLeft, Zenon
  <2>4. \A i \in 1..9 : Boundaries[19 + i] = C[i]
    BY <1>3, <1>9, <1>11, <1>14, <1>15, ConcatRight, Zenon
  <2> QED BY <1>4, <2>1, <2>2, <2>3, <2>4, Zenon
<1>7. BucketCount = 29
  <2>1. BucketCount = 28 + 1
    BY <1>6, Zenon DEF BucketCount
  <2> QED BY <2>1
<1>8. ASSUME NEW b \in 1..28 PROVE Boundaries[b] = Bound(b)
  <2>1. CASE b <= 10
    <3>1. b \in 1..10 /\ b \in 1..19
      BY <2>1
    <3>2. Boundaries[b] = A[b]
      <4>1. \A i \in 1..10 : D[i] = A[i]
        BY <1>5, Zenon
      <4>2. \A i \in 1..19 : Boundaries[i] = D[i]
        BY <1>6, Zenon
      <4> QED BY <3>1, <4>1, <4>2, Zenon
    <3>3. A[b] = b * 100
      BY <1>2, <3>1, SMT
    <3> QED BY <2>1, <3>2, <3>3, SMT DEF Bound
  <2>2. CASE b > 10 /\ b <= 19
    <3>1. b - 10 \in 1..9 /\ b \in 1..19 /\ 10 + (b - 10) = b
      BY <2>2
    <3>2. Boundaries[b] = B[b - 10]
      <4>1. \A i \in 1..9 : D[10 + i] = B[i]
        BY <1>5, Zenon
      <4>2. \A i \in 1..19 : Boundaries[i] = D[i]
        BY <1>6, Zenon
      <4>3. D[10 + (b - 10)] = B[b - 10]
        BY <3>1, <4>1, Zenon
      <4> QED BY <3>1, <4>2, <4>3, Zenon
    <3>3. B[b - 10] = ((b - 10) + 1) * 1000
      BY <1>2, <3>1, SMT
    <3> QED BY <2>2, <3>2, <3>3, SMT DEF Bound
  <2>3. CASE b > 19
    <3>1. b - 19 \in 1..9 /\ 19 + (b - 19) = b
      BY <2>3
    <3>2. Boundaries[b] = C[b - 19]
      BY <1>6, <3>1, Zenon
    <3>3. C[b - 19] = ((b - 19) + 1) * 10000
      BY <1>2, <3>1, SMT
    <3>4. (b - 19) + 1 = b - 18 /\ ~(b <= 10) /\ ~(b <= 19) /\ b <= 28
      BY <2>3
    <3>5. Bound(b) = (b - 18) * 10000
      BY <3>4, SMT DEF Bound
    <3> HIDE DEF C
    <3> QED BY <3>2, <3>3, <3>4, <3>5, SMT
  <2> QED BY <2>1, <2>2, <2>3
<1> QED BY <1>6, <1>7, <1>8

\* Appending leaves what is there.
LEMMA AppendLeft ==
  ASSUME NEW s \in Seq(Nat), NEW e \in Nat
  PROVE  \A i \in 1..Len(s) : Append(s, e)[i] = s[i]
BY AppendProperties

\* The upper bounds with that of the last bucket.
LEMMA UpperBoundsAre ==
  /\ Len(Append(Boundaries, U64Max)) = 29
  /\ \A b \in 1..29 : Append(Boundaries, U64Max)[b] = Bound(b)
<1> DEFINE E == Append(Boundaries, U64Max)
<1>1. /\ Len(E) = Len(Boundaries) + 1
      /\ \A i \in 1..Len(Boundaries) : E[i] = Boundaries[i]
      /\ E[Len(Boundaries) + 1] = U64Max
  <2>1. Boundaries \in Seq(Nat)
    BY BoundariesAre, Zenon
  <2>2. U64Max \in Nat
    BY U64MaxIs, Zenon
  <2>3. Len(E) = Len(Boundaries) + 1
    BY <2>1, <2>2, AppendProperties, Zenon
  <2>4. \A i \in 1..Len(Boundaries) : E[i] = Boundaries[i]
    BY <2>1, <2>2, AppendLeft, Zenon
  <2>5. E[Len(Boundaries) + 1] = U64Max
    BY <2>1, <2>2, AppendProperties, Zenon
  <2> QED BY <2>3, <2>4, <2>5, Zenon
<1>2. 28 + 1 = 29 /\ \A b \in 1..29 : b \in 1..28 \/ b = 29
  OBVIOUS
<1>3. Bound(29) = U64Max
  BY SMT DEF Bound
<1>4. Len(E) = 28 + 1 /\ (\A i \in 1..28 : E[i] = Boundaries[i]) /\ E[28 + 1] = U64Max
  BY <1>1, BoundariesAre, Zenon
<1> HIDE DEF E
<1>5. Len(E) = 29 /\ \A b \in 1..29 : E[b] = Bound(b)
  BY <1>2, <1>3, <1>4, BoundariesAre, Zenon
<1> QED BY <1>5 DEF E

\* The boundaries grow, and no more than double from one to the next.
LEMMA BoundsGrow ==
  /\ \A b \in 1..29 : Bound(b) \in Nat
  /\ \A a \in 1..29, b \in 1..29 : a < b => Bound(a) < Bound(b)
  /\ Bound(29) = U64Max
BY U64MaxIs, U64MaxLarge, SMT DEF Bound

LEMMA BoundsDouble ==
  /\ Bound(1) = 100 /\ Bound(28) = 100000
  /\ \A b \in 2..28 : Bound(b) <= 2 * Bound(b - 1)
BY SMT DEF Bound

\* A latency is below the upper bound of its bucket and not below the one before.
LEMMA BucketIs ==
  ASSUME NEW latency \in 0..(U64Max - 1)
  PROVE  /\ BucketOf(latency) \in 1..29
         /\ \A b \in 1..29 : BucketOf(latency) <= b <=> latency < Bound(b)
<1> DEFINE I == {i \in 1..29 : latency < Bound(i)}
<1>1. BucketOf(latency) = IF I # {} THEN Min(I) ELSE 0
  <2>1. {i \in 1..Len(Append(Boundaries, U64Max)) : latency < Append(Boundaries, U64Max)[i]}
          = I
    BY UpperBoundsAre, Zenon
  <2> HIDE DEF I
  <2> QED BY <2>1 DEF BucketOf, SelectInSeq, Below
<1>2. 29 \in I
  BY BoundsGrow
<1>3. I \in SUBSET Nat
  OBVIOUS
<1>4. PICK x \in I : \A y \in I : x <= y
  <2> HIDE DEF I
  <2> QED BY <1>2, <1>3, Least
<1>5. BucketOf(latency) = x
  <2>1. Min(I) = x
    <3>1. I \in SUBSET Int
      OBVIOUS
    <3> HIDE DEF I
    <3> QED BY <1>4, <3>1, MinIs
  <2> HIDE DEF I
  <2> QED BY <1>1, <1>2, <2>1
<1>6. x \in 1..29 /\ latency < Bound(x)
  BY <1>4
<1>7. ASSUME NEW b \in 1..29, x <= b PROVE latency < Bound(b)
  <2>1. CASE x = b
    BY <1>6, <2>1
  <2>2. CASE x < b
    <3>1. Bound(x) < Bound(b) /\ Bound(x) \in Nat /\ Bound(b) \in Nat
      BY <1>6, <2>2, BoundsGrow
    <3> QED BY <1>6, <3>1
  <2> QED BY <1>6, <1>7, <2>1, <2>2
<1>8. ASSUME NEW b \in 1..29, latency < Bound(b) PROVE x <= b
  BY <1>4, <1>8
<1> HIDE DEF I
<1> QED BY <1>5, <1>6, <1>7, <1>8

-----------------------------------------------------------------------------
(***************************************************************************)
(* The inductive invariant: the counters are those of the histories, the   *)
(* sum of the latencies lies between as many times the least and the       *)
(* greatest, a bucket has as many as were put into it, and the volume is   *)
(* no less than the net volume either way.                                 *)
(***************************************************************************)
Counted ==
  /\ recorded \in Seq(Latencies) /\ volumes \in Seq(Volumes)
  /\ ticks_processed = Len(recorded) /\ hedges_executed = Len(volumes)

Extremes ==
  /\ min_tick_latency_ns \in Nat /\ max_tick_latency_ns \in Nat
  /\ recorded = << >> => min_tick_latency_ns = U64Max /\ max_tick_latency_ns = 0
  /\ recorded # << >> =>
       /\ \E i \in DOMAIN recorded : recorded[i] = min_tick_latency_ns
       /\ \E i \in DOMAIN recorded : recorded[i] = max_tick_latency_ns
       /\ \A i \in DOMAIN recorded : /\ min_tick_latency_ns <= recorded[i]
                                     /\ recorded[i] <= max_tick_latency_ns

Totals ==
  /\ total_tick_latency_ns \in Nat
  /\ Len(recorded) * min_tick_latency_ns <= total_tick_latency_ns
  /\ total_tick_latency_ns <= Len(recorded) * max_tick_latency_ns

BucketsOf == [i \in DOMAIN recorded |-> BucketOf(recorded[i])]

Filled == buckets = [b \in 1..BucketCount |-> Cardinality(IndicesIn(BucketsOf, {b}))]

Netted ==
  /\ total_hedge_volume \in Nat
  /\ \A i \in DOMAIN volumes : volumes[i] \in (-total_hedge_volume)..total_hedge_volume
  /\ SumFunction(volumes) \in (-total_hedge_volume)..total_hedge_volume

MetricsInv == Counted /\ Extremes /\ Totals /\ Filled /\ Netted

\* Everything as new() and reset() leave it.
LEMMA EmptyIsSound == MetricsInit => MetricsInv
<1> SUFFICES ASSUME MetricsInit PROVE MetricsInv
  OBVIOUS
<1> USE DEF MetricsInit
<1>1. Counted
  BY DEF Counted
<1>2. Extremes
  BY U64MaxIs DEF Extremes
<1>3. Totals
  <2>1. Len(recorded) = 0
    OBVIOUS
  <2> QED BY <2>1, U64MaxIs DEF Totals
<1>4. Filled
  <2>1. \A b : IndicesIn(BucketsOf, {b}) = {}
    BY DEF IndicesIn, BucketsOf
  <2>2. Cardinality({}) = 0
    BY FS_EmptySet
  <2> QED BY <2>1, <2>2 DEF Filled
<1>5. Netted
  <2>1. DOMAIN volumes = {}
    OBVIOUS
  <2>2. IsFiniteSet({}) /\ Cardinality({}) = 0
    BY FS_EmptySet
  <2>3. SumFunctionOnSet(volumes, {}) = Net(volumes, {}, 0)
    BY <2>2, SumIsNet
  <2>4. \A f : Units(f, {}, 0) = {}
    BY DEF Units
  <2>5. Net(volumes, {}, 0) = 0
    <3>1. Net(volumes, {}, 0) = Cardinality(Units(volumes, {}, 0))
                                - Cardinality(Units([i \in {} |-> -volumes[i]], {}, 0))
      BY DEF Net
    <3> DEFINE minus == Units([i \in {} |-> -volumes[i]], {}, 0)
    <3>2. minus = {}
      BY <2>4
    <3> HIDE DEF minus
    <3>3. Cardinality(Units(volumes, {}, 0)) = 0 /\ Cardinality(minus) = 0
      BY <2>2, <2>4, <3>2, Zenon
    <3> QED BY <3>1, <3>3 DEF minus
  <2>6. SumFunction(volumes) = 0
    BY <2>1, <2>3, <2>5 DEF SumFunction
  <2> QED BY <2>1, <2>6 DEF Netted
<1> QED BY <1>1, <1>2, <1>3, <1>4, <1>5 DEF MetricsInv

\* A record more leaves the others where they are.
LEMMA RecordedIs ==
  ASSUME MetricsInv
  PROVE  /\ DOMAIN recorded = 1..Len(recorded) /\ Len(recorded) \in Nat
         /\ \A i \in DOMAIN recorded : recorded[i] \in 0..(U64Max - 1)
         /\ DOMAIN volumes = 1..Len(volumes) /\ Len(volumes) \in Nat
         /\ \A i \in DOMAIN volumes : volumes[i] \in Int
<1>1. recorded \in Seq(Latencies) /\ volumes \in Seq(Volumes)
  BY DEF MetricsInv, Counted
<1>2. /\ DOMAIN recorded = 1..Len(recorded) /\ Len(recorded) \in Nat
      /\ \A i \in DOMAIN recorded : recorded[i] \in Latencies
  BY <1>1
<1>3. /\ DOMAIN volumes = 1..Len(volumes) /\ Len(volumes) \in Nat
      /\ \A i \in DOMAIN volumes : volumes[i] \in Volumes
  BY <1>1
<1> QED BY <1>2, <1>3, MetricsAssumption

\* Products grow with their second factor.
LEMMA ProductGrows ==
  ASSUME NEW n \in Nat, NEW a \in Nat, NEW b \in Nat, a <= b
  PROVE  n * a <= n * b /\ n * a \in Nat /\ n * b \in Nat
<1>1. b - a \in Nat /\ b = a + (b - a)
  OBVIOUS
<1>2. \A c \in Nat : n * (a + c) = n * a + n * c /\ n * c \in Nat
  OBVIOUS
<1> QED BY <1>1, <1>2

\* One index more.
LEMMA OneMore == \A n \in Nat : /\ \A k \in 1..(n + 1) : k = n + 1 \/ k \in 1..n
                               /\ \A k \in 1..n : k \in 1..(n + 1) /\ k # n + 1
                               /\ n + 1 \in 1..(n + 1) /\ n + 1 \notin 1..n
OBVIOUS

\* record_tick_latency keeps the invariant.
LEMMA RecordIsSound ==
  ASSUME MetricsInv, NEW latency \in Latencies, RecordTickLatency(latency)
  PROVE  MetricsInv'
<1> DEFINE n == Len(recorded)
<1>1. /\ n \in Nat /\ DOMAIN recorded = 1..n /\ latency \in 0..(U64Max - 1)
      /\ \A i \in 1..n : recorded[i] \in 0..(U64Max - 1)
  BY RecordedIs, MetricsAssumption
<1>2. /\ recorded' = Append(recorded, latency) /\ recorded' \in Seq(Latencies)
      /\ Len(recorded') = n + 1 /\ DOMAIN recorded' = 1..(n + 1)
      /\ \A i \in 1..n : recorded'[i] = recorded[i]
      /\ recorded'[n + 1] = latency
  <2>1. recorded' = Append(recorded, latency) /\ recorded \in Seq(Latencies)
    BY DEF RecordTickLatency, MetricsInv, Counted
  <2>2. /\ Append(recorded, latency) \in Seq(Latencies)
        /\ Len(Append(recorded, latency)) = n + 1
        /\ \A i \in 1..n : Append(recorded, latency)[i] = recorded[i]
        /\ Append(recorded, latency)[n + 1] = latency
    BY <2>1, AppendProperties
  <2>3. DOMAIN Append(recorded, latency) = 1..(n + 1)
    BY <2>2
  <2> QED BY <2>1, <2>2, <2>3
<1>3. Counted'
  BY <1>2 DEF RecordTickLatency, MetricsInv, Counted
<1>4. /\ min_tick_latency_ns \in Nat /\ max_tick_latency_ns \in Nat
      /\ min_tick_latency_ns' \in Nat /\ max_tick_latency_ns' \in Nat
      /\ min_tick_latency_ns' = IF latency < min_tick_latency_ns THEN latency
                                ELSE min_tick_latency_ns
      /\ max_tick_latency_ns' = IF latency > max_tick_latency_ns THEN latency
                                ELSE max_tick_latency_ns
  <2>1. /\ min_tick_latency_ns \in Nat /\ max_tick_latency_ns \in Nat
        /\ min_tick_latency_ns' = Min({min_tick_latency_ns, latency})
        /\ max_tick_latency_ns' = Max({max_tick_latency_ns, latency})
    BY DEF RecordTickLatency, MetricsInv, Extremes
  <2>2. \A a \in Nat, b \in Nat : Min({a, b}) = IF b < a THEN b ELSE a
    <3>1. SUFFICES ASSUME NEW a \in Nat, NEW b \in Nat
                   PROVE  Min({a, b}) = IF b < a THEN b ELSE a
      OBVIOUS
    <3>2. b < a => Min({a, b}) = b
      BY MinIs
    <3>3. ~(b < a) => Min({a, b}) = a
      BY MinIs
    <3> QED BY <3>2, <3>3
  <2>3. \A a \in Nat, b \in Nat : Max({a, b}) = IF b > a THEN b ELSE a
    <3>1. SUFFICES ASSUME NEW a \in Nat, NEW b \in Nat
                   PROVE  Max({a, b}) = IF b > a THEN b ELSE a
      OBVIOUS
    <3>2. b > a => Max({a, b}) = b
      BY MaxIs
    <3>3. ~(b > a) => Max({a, b}) = a
      BY MaxIs
    <3> QED BY <3>2, <3>3
  <2> QED BY <1>1, <2>1, <2>2, <2>3
<1>5. Extremes'
  <2>1. CASE recorded = << >>
    <3>1. n = 0 /\ min_tick_latency_ns = U64Max /\ max_tick_latency_ns = 0
      BY <2>1 DEF MetricsInv, Extremes
    <3>2. min_tick_latency_ns' = latency /\ max_tick_latency_ns' = latency
      BY <1>1, <1>4, <3>1
    <3> QED BY <1>1, <1>2, <1>4, <3>1, <3>2 DEF Extremes
  <2>2. CASE recorded # << >>
    <3>1. PICK i \in 1..n, j \in 1..n :
            /\ recorded[i] = min_tick_latency_ns /\ recorded[j] = max_tick_latency_ns
            /\ \A k \in 1..n : /\ min_tick_latency_ns <= recorded[k]
                               /\ recorded[k] <= max_tick_latency_ns
      BY <1>1, <2>2 DEF MetricsInv, Extremes
    <3>2. \A k \in 1..(n + 1) : k = n + 1 \/ k \in 1..n
      BY <1>1, OneMore, Zenon
    <3>3. \A k \in 1..(n + 1) : /\ min_tick_latency_ns' <= recorded'[k]
                                /\ recorded'[k] <= max_tick_latency_ns'
      BY <1>1, <1>2, <1>4, <3>1, <3>2
    <3>4. \E k \in 1..(n + 1) : recorded'[k] = min_tick_latency_ns'
      <4>1. i \in 1..(n + 1) /\ n + 1 \in 1..(n + 1)
        BY <1>1
      <4> QED BY <1>2, <1>4, <3>1, <4>1
    <3>5. \E k \in 1..(n + 1) : recorded'[k] = max_tick_latency_ns'
      <4>1. j \in 1..(n + 1) /\ n + 1 \in 1..(n + 1)
        BY <1>1
      <4> QED BY <1>2, <1>4, <3>1, <4>1
    <3>6. recorded' # << >>
      BY <1>1, <1>2
    <3> QED BY <1>2, <1>4, <3>3, <3>4, <3>5, <3>6 DEF Extremes
  <2> QED BY <2>1, <2>2
<1>6. Totals'
  <2> DEFINE a == min_tick_latency_ns
             b == max_tick_latency_ns
             c == min_tick_latency_ns'
             d == max_tick_latency_ns'
             t == total_tick_latency_ns
  <2>1. /\ t \in Nat /\ n * a <= t /\ t <= n * b
        /\ total_tick_latency_ns' = t + latency
    BY DEF MetricsInv, Totals, RecordTickLatency
  <2>2. /\ a \in Nat /\ b \in Nat /\ c \in Nat /\ d \in Nat /\ c <= a /\ b <= d
        /\ c <= latency /\ latency <= d /\ latency \in Nat
    BY <1>1, <1>4
  <2> HIDE DEF a, b, c, d, t
  <2>3. n * c <= n * a /\ n * c \in Nat /\ n * a \in Nat
    BY <1>1, <2>2, ProductGrows
  <2>4. n * b <= n * d /\ n * b \in Nat /\ n * d \in Nat
    BY <1>1, <2>2, ProductGrows
  <2>5. (n + 1) * c = n * c + c /\ (n + 1) * d = n * d + d
    BY <1>1, <2>2
  <2>6. (n + 1) * c <= t + latency /\ t + latency <= (n + 1) * d /\ t + latency \in Nat
    BY <2>1, <2>2, <2>3, <2>4, <2>5
  <2> QED BY <1>2, <2>1, <2>6 DEF Totals, c, d
<1>7. Filled'
  <2> DEFINE e == BucketOf(latency)
  <2>1. /\ buckets = [b \in 1..29 |-> Cardinality(IndicesIn(BucketsOf, {b}))]
        /\ buckets' = [buckets EXCEPT ![e] = @ + 1]
    BY BoundariesAre DEF MetricsInv, Filled, RecordTickLatency
  <2>2. e \in 1..29
    BY <1>1, BucketIs
  <2>3. /\ DOMAIN BucketsOf = 1..n /\ DOMAIN BucketsOf' = 1..(n + 1)
        /\ \A i \in 1..n : BucketsOf'[i] = BucketsOf[i]
        /\ BucketsOf'[n + 1] = e
    <3>1. BucketsOf' = [i \in 1..(n + 1) |-> BucketOf(recorded'[i])]
      BY <1>2 DEF BucketsOf
    <3>2. BucketsOf = [i \in 1..n |-> BucketOf(recorded[i])]
      BY <1>1 DEF BucketsOf
    <3>3. \A i \in 1..n : i \in 1..(n + 1)
      BY <1>1
    <3>4. n + 1 \in 1..(n + 1)
      BY <1>1
    <3> HIDE DEF e
    <3> QED BY <1>2, <3>1, <3>2, <3>3, <3>4 DEF e
  <2> HIDE DEF e
  <2>4. \A i \in 1..(n + 1) : i = n + 1 \/ i \in 1..n
    BY <1>1
  <2>5. n + 1 \in 1..(n + 1) /\ n + 1 \notin 1..n /\ \A i \in 1..n : i \in 1..(n + 1)
    BY <1>1
  <2>6. ASSUME NEW b \in 1..29
        PROVE  Cardinality(IndicesIn(BucketsOf', {b}))
                 = IF b = e THEN Cardinality(IndicesIn(BucketsOf, {b})) + 1
                   ELSE Cardinality(IndicesIn(BucketsOf, {b}))
    <3>1. IsFiniteSet(IndicesIn(BucketsOf, {b}))
      BY <1>1, <2>3, IndicesFinite
    <3>2. CASE b = e
      <4>1. IndicesIn(BucketsOf', {b}) = IndicesIn(BucketsOf, {b}) \union {n + 1}
        BY <2>3, <2>4, <2>5, <3>2 DEF IndicesIn
      <4>2. n + 1 \notin IndicesIn(BucketsOf, {b})
        BY <2>3, <2>5 DEF IndicesIn
      <4> QED BY <3>1, <3>2, <4>1, <4>2, FS_AddElement
    <3>3. CASE b # e
      <4>1. IndicesIn(BucketsOf', {b}) = IndicesIn(BucketsOf, {b})
        BY <2>3, <2>4, <2>5, <3>3 DEF IndicesIn
      <4> QED BY <3>3, <4>1
    <3> QED BY <3>2, <3>3
  <2>7. buckets' = [b \in 1..29 |-> Cardinality(IndicesIn(BucketsOf', {b}))]
    BY <2>1, <2>2, <2>6
  <2>8. BucketCount' = 29
    BY BoundariesAre DEF BucketCount, Boundaries
  <2> QED BY <2>7, <2>8, BoundariesAre DEF Filled, BucketCount, Boundaries
<1>8. Netted'
  <2>1. volumes' = volumes /\ total_hedge_volume' = total_hedge_volume
    BY DEF RecordTickLatency
  <2> QED BY <2>1 DEF MetricsInv, Netted
<1> QED BY <1>3, <1>5, <1>6, <1>7, <1>8 DEF MetricsInv

\* record_hedge_execution keeps the invariant.
LEMMA ExecutionIsSound ==
  ASSUME MetricsInv, NEW volume \in Volumes, RecordHedgeExecution(volume)
  PROVE  MetricsInv'
<1> DEFINE n == Len(volumes)
           t == total_hedge_volume
           u == total_hedge_volume'
<1>1. volume \in Int /\ n \in Nat /\ DOMAIN volumes = 1..n
      /\ \A i \in 1..n : volumes[i] \in (-t)..t
  BY RecordedIs, MetricsAssumption DEF MetricsInv, Netted
<1>2. /\ t \in Nat /\ u = t + (IF volume >= 0 THEN volume ELSE -volume)
      /\ SumFunction(volumes) \in (-t)..t
  BY DEF MetricsInv, Netted, RecordHedgeExecution
<1>3. /\ volumes' = Append(volumes, volume) /\ volumes' \in Seq(Volumes)
      /\ Len(volumes') = n + 1 /\ DOMAIN volumes' = 1..(n + 1)
      /\ \A i \in 1..n : volumes'[i] = volumes[i]
      /\ volumes'[n + 1] = volume
  <2>1. volumes' = Append(volumes, volume) /\ volumes \in Seq(Volumes)
    BY DEF RecordHedgeExecution, MetricsInv, Counted
  <2>2. /\ Append(volumes, volume) \in Seq(Volumes)
        /\ Len(Append(volumes, volume)) = n + 1
        /\ \A i \in 1..n : Append(volumes, volume)[i] = volumes[i]
        /\ Append(volumes, volume)[n + 1] = volume
    BY <2>1, AppendProperties
  <2>3. DOMAIN Append(volumes, volume) = 1..(n + 1)
    BY <2>2
  <2> QED BY <2>1, <2>2, <2>3
<1>4. Counted'
  BY <1>3 DEF RecordHedgeExecution, MetricsInv, Counted
<1>5. /\ recorded' = recorded /\ total_tick_latency_ns' = total_tick_latency_ns
      /\ min_tick_latency_ns' = min_tick_latency_ns
      /\ max_tick_latency_ns' = max_tick_latency_ns /\ buckets' = buckets
  BY DEF RecordHedgeExecution
<1>6. Extremes'
  BY <1>5 DEF MetricsInv, Extremes
<1>7. Totals'
  BY <1>5 DEF MetricsInv, Totals
<1>8. Filled'
  <2>1. BucketsOf' = BucketsOf
    BY <1>5 DEF BucketsOf
  <2>2. BucketCount' = BucketCount
    BY DEF BucketCount, Boundaries
  <2> QED BY <1>5, <2>1, <2>2 DEF MetricsInv, Filled
<1>9. u \in Nat /\ t <= u /\ -u <= volume /\ volume <= u
  BY <1>1, <1>2
<1> HIDE DEF t, u
<1>10. \A i \in 1..(n + 1) : volumes'[i] \in (-u)..u
  <2>1. \A i \in 1..(n + 1) : i = n + 1 \/ i \in 1..n
    BY <1>1
  <2>2. \A x \in (-t)..t : x \in (-u)..u
    BY <1>2, <1>9
  <2>3. volume \in (-u)..u
    BY <1>1, <1>9
  <2> QED BY <1>1, <1>3, <2>1, <2>2, <2>3
<1>11. SumFunction(volumes') = SumFunction(volumes) + volume
  <2>1. IsFiniteSet(1..n) /\ IsFiniteSet(1..(n + 1))
    BY <1>1, FS_Interval
  <2>2. SumFunction(volumes) = Net(volumes, 1..n, u) /\ Net(volumes, 1..n, u) \in Int
    <3>1. \A i \in 1..n : volumes[i] \in (-u)..u
      <4>1. \A i \in 1..n : i \in 1..(n + 1)
        BY <1>1
      <4> QED BY <1>3, <1>10, <4>1
    <3> QED BY <1>1, <1>9, <2>1, <3>1, SumIsNet DEF SumFunction
  <2>3. SumFunction(volumes') = Net(volumes', 1..(n + 1), u)
    BY <1>3, <1>9, <1>10, <2>1, SumIsNet DEF SumFunction
  <2>4. Net(volumes', 1..(n + 1), u) = volume + Net(volumes', 1..n, u)
    <3> DEFINE S == 1..(n + 1)
               f == volumes'
               minus == [i \in S |-> -f[i]]
    <3>1. n + 1 \in S /\ S \ {n + 1} = 1..n /\ f[n + 1] = volume
      BY <1>1, <1>3
    <3>2. minus[n + 1] = -volume
      BY <3>1
    <3>3. [i \in 1..n |-> -f[i]] = [i \in 1..n |-> minus[i]]
      <4>1. \A i \in 1..n : i \in S
        BY <1>1
      <4> QED BY <4>1
    <3>4. Units([i \in 1..n |-> -f[i]], 1..n, u) = Units(minus, 1..n, u)
      BY <3>3 DEF Units
    <3>5. Cardinality(Units(f, S, u))
            = (IF volume > 0 THEN volume ELSE 0) + Cardinality(Units(f, 1..n, u))
      <4>1. IsFiniteSet(S) /\ f[n + 1] \in Int /\ f[n + 1] <= u
        BY <1>1, <1>9, <2>1, <3>1
      <4> HIDE DEF f, S, n
      <4>2. Cardinality(Units(f, S, u))
              = (IF f[n + 1] > 0 THEN f[n + 1] ELSE 0)
                + Cardinality(Units(f, S \ {n + 1}, u))
        BY <1>9, <3>1, <4>1, UnitsAdd
      <4> QED BY <3>1, <4>2
    <3>6. Cardinality(Units(minus, S, u))
            = (IF -volume > 0 THEN -volume ELSE 0) + Cardinality(Units(minus, 1..n, u))
      <4>1. IsFiniteSet(S) /\ -volume \in Int /\ -volume <= u
        BY <1>1, <1>9, <2>1
      <4> HIDE DEF minus, S
      <4> QED BY <1>9, <3>1, <3>2, <4>1, UnitsAdd
    <3>7. /\ Cardinality(Units(f, 1..n, u)) \in Nat
          /\ Cardinality(Units(minus, 1..n, u)) \in Nat
      BY <1>9, <2>1, UnitsFinite
    <3>8. Net(f, S, u) = Cardinality(Units(f, S, u)) - Cardinality(Units(minus, S, u))
      BY DEF Net
    <3>9. Net(f, 1..n, u)
            = Cardinality(Units(f, 1..n, u)) - Cardinality(Units(minus, 1..n, u))
      BY <3>4 DEF Net
    <3> HIDE DEF f, S, minus
    <3>10. Net(f, S, u) = volume + Net(f, 1..n, u)
      BY <1>1, <3>5, <3>6, <3>7, <3>8, <3>9
    <3> QED BY <3>10 DEF f, S
  <2>5. Net(volumes', 1..n, u) = Net(volumes, 1..n, u)
    <3>1. Units(volumes', 1..n, u) = Units(volumes, 1..n, u)
      BY <1>3 DEF Units
    <3>2. [i \in 1..n |-> -volumes'[i]] = [i \in 1..n |-> -volumes[i]]
      BY <1>3
    <3> QED BY <3>1, <3>2 DEF Net
  <2> QED BY <1>1, <2>2, <2>3, <2>4, <2>5
<1>12. SumFunction(volumes') \in (-u)..u
  <2> DEFINE s == SumFunction(volumes)
  <2>1. s \in (-t)..t
    BY <1>2
  <2> HIDE DEF s
  <2>2. s + volume \in (-u)..u
    BY <1>1, <1>2, <2>1
  <2> QED BY <1>11, <2>2 DEF s
<1>13. Netted'
  BY <1>3, <1>9, <1>10, <1>12 DEF Netted, u
<1> QED BY <1>4, <1>6, <1>7, <1>8, <1>13 DEF MetricsInv

\* reset() establishes the invariant.
LEMMA EmptyStaysSound == MetricsInit' => MetricsInv'
BY EmptyIsSound, PTL

\* The counters, the extremes, the histogram and the volume are those of what was
\* recorded since the last reset.
THEOREM MetricsInvariance == MetricsSpec => []MetricsInv
<1>1. MetricsInit => MetricsInv
  BY EmptyIsSound
<1>2. MetricsInv /\ [MetricsNext]_metricsVars => MetricsInv'
  <2> SUFFICES ASSUME MetricsInv, [MetricsNext]_metricsVars PROVE MetricsInv'
    OBVIOUS
  <2>1. ASSUME NEW latency \in Latencies, RecordTickLatency(latency) PROVE MetricsInv'
    BY <2>1, RecordIsSound
  <2>2. ASSUME NEW volume \in Volumes, RecordHedgeExecution(volume) PROVE MetricsInv'
    BY <2>2, ExecutionIsSound
  <2>3. ASSUME Reset PROVE MetricsInv'
    <3>1. MetricsInit'
      BY <2>3 DEF Reset, MetricsInit, BucketCount, Boundaries
    <3> QED BY <3>1, EmptyStaysSound
  <2>4. CASE UNCHANGED metricsVars
    BY <2>4 DEF metricsVars, MetricsInv, Counted, Extremes, Totals, Filled, Netted,
                BucketsOf, BucketCount, Boundaries
  <2> QED BY <2>1, <2>2, <2>3, <2>4 DEF MetricsNext
<1> QED BY <1>1, <1>2, PTL DEF MetricsSpec
-----------------------------------------------------------------------------
(***************************************************************************)
(* The percentiles.                                                        *)
(***************************************************************************)
\* The samples below a value, and those that are not above it.
Under(x) == {i \in DOMAIN recorded : recorded[i] < x}
AtMost(x) == {i \in DOMAIN recorded : recorded[i] <= x}

\* Sizes of subsets of the indices.
LEMMA SubsetSize ==
  ASSUME NEW n \in Nat, NEW T \in SUBSET (1..n), NEW S \in SUBSET T
  PROVE  /\ Cardinality(S) \in 0..n /\ Cardinality(T) \in 0..n
         /\ Cardinality(S) <= Cardinality(T)
         /\ S # T => Cardinality(S) < Cardinality(T)
         /\ Cardinality(1..n) = n
<1>1. IsFiniteSet(1..n) /\ Cardinality(1..n) = IF 1 > n THEN 0 ELSE n - 1 + 1
  BY FS_Interval
<1>2. Cardinality(1..n) = n
  BY <1>1
<1>3. IsFiniteSet(T) /\ Cardinality(T) <= n
  BY <1>1, <1>2, FS_Subset
<1>4. /\ IsFiniteSet(S) /\ Cardinality(S) <= Cardinality(T)
      /\ Cardinality(S) = Cardinality(T) => S = T
  BY <1>3, FS_Subset
<1>5. Cardinality(S) \in Nat /\ Cardinality(T) \in Nat
  BY <1>3, <1>4, FS_CardinalityType
<1> QED BY <1>2, <1>3, <1>4, <1>5

\* SamplesUpTo counts the samples below the upper bound of the bucket.
LEMMA SamplesAre ==
  ASSUME MetricsInv
  PROVE  /\ \A b \in 1..29 : SamplesUpTo(b) = Cardinality(Under(Bound(b)))
         /\ \A b \in 1..29 : SamplesUpTo(b) \in Nat
         /\ SamplesUpTo(29) = Len(recorded)
<1> DEFINE n == Len(recorded)
<1>1. /\ n \in Nat /\ DOMAIN recorded = 1..n
      /\ \A i \in 1..n : recorded[i] \in 0..(U64Max - 1)
  BY RecordedIs
<1>2. DOMAIN BucketsOf = 1..n /\ \A i \in 1..n : BucketsOf[i] = BucketOf(recorded[i])
  BY <1>1 DEF BucketsOf
<1>3. \A x \in 1..29 : buckets[x] = Cardinality(IndicesIn(BucketsOf, {x}))
  BY BoundariesAre DEF MetricsInv, Filled
<1>4. \A x : Under(x) \in SUBSET (1..n)
  BY <1>1 DEF Under
<1>5. ASSUME NEW b \in 1..29
      PROVE  SamplesUpTo(b) = Cardinality(Under(Bound(b))) /\ SamplesUpTo(b) \in Nat
  <2>1. IsFiniteSet(1..b) /\ \A x \in 1..b : x \in 1..29
    BY FS_Interval
  <2>2. \A x \in 1..b : buckets[x] = Cardinality(IndicesIn(BucketsOf, {x}))
    BY <1>3, <2>1
  <2>3. SamplesUpTo(b) = Cardinality(IndicesIn(BucketsOf, 1..b))
    <3> HIDE DEF n
    <3>1. PICK S : S = 1..b
      OBVIOUS
    <3>2. IsFiniteSet(S) /\ \A x \in S : buckets[x] = Cardinality(IndicesIn(BucketsOf, {x}))
      BY <2>1, <2>2, <3>1
    <3>3. DOMAIN BucketsOf = 1..n /\ n \in Nat
      BY <1>1, <1>2
    <3>4. PICK g : AddsUp(g, buckets, S) /\ g[S] = Cardinality(IndicesIn(BucketsOf, S))
      BY <3>2, <3>3, SumOfIndices
    <3>5. Sums(buckets, S)[S] = g[S]
      BY <3>2, <3>4, SumsAre
    <3>6. SamplesUpTo(b) = Sums(buckets, S)[S]
      BY <3>1, SamplesUpToIs
    <3> QED BY <3>1, <3>4, <3>5, <3>6
  <2>4. ASSUME NEW i \in 1..n PROVE BucketsOf[i] \in 1..b <=> recorded[i] < Bound(b)
    <3>1. BucketOf(recorded[i]) \in 1..29
          /\ (BucketOf(recorded[i]) <= b <=> recorded[i] < Bound(b))
      BY <1>1, BucketIs
    <3>2. \A x \in 1..29 : x \in 1..b <=> x <= b
      OBVIOUS
    <3> QED BY <1>2, <3>1, <3>2
  <2>5. IndicesIn(BucketsOf, 1..b) = Under(Bound(b))
    BY <1>1, <1>2, <2>4 DEF IndicesIn, Under
  <2>6. Cardinality(Under(Bound(b))) \in 0..n
    BY <1>1, <1>4, SubsetSize
  <2> QED BY <1>1, <2>3, <2>5, <2>6
<1>6. SamplesUpTo(29) = n
  <2>1. \A i \in 1..n : recorded[i] < U64Max
    BY <1>1, U64MaxIs
  <2>2. Under(Bound(29)) = 1..n
    BY <1>1, <2>1, BoundsGrow DEF Under
  <2>3. Cardinality(1..n) = n
    BY <1>1, <1>4, SubsetSize
  <2> QED BY <1>5, <2>2, <2>3
<1> QED BY <1>5, <1>6

\* UpTo(x) is a size.
LEMMA UpToIs ==
  ASSUME MetricsInv, recorded # << >>
  PROVE  /\ \A x : UpTo(x) = Cardinality(AtMost(x)) /\ UpTo(x) \in 0..Len(recorded)
         /\ UpTo(max_tick_latency_ns) = Len(recorded)
         /\ Range(recorded) = {recorded[i] : i \in 1..Len(recorded)}
         /\ Range(recorded) \in SUBSET Nat
         /\ max_tick_latency_ns \in Range(recorded)
         /\ min_tick_latency_ns \in Range(recorded)
         /\ \A x \in Range(recorded) : min_tick_latency_ns <= x /\ x <= max_tick_latency_ns
         /\ \A x \in Range(recorded) : x < U64Max
<1> DEFINE n == Len(recorded)
<1>1. /\ n \in Nat /\ DOMAIN recorded = 1..n
      /\ \A i \in 1..n : recorded[i] \in 0..(U64Max - 1)
  BY RecordedIs
<1>2. Range(recorded) = {recorded[i] : i \in 1..n}
  BY <1>1 DEF Range
<1>3. /\ \E i \in 1..n : recorded[i] = min_tick_latency_ns
      /\ \E i \in 1..n : recorded[i] = max_tick_latency_ns
      /\ \A i \in 1..n : /\ min_tick_latency_ns <= recorded[i]
                         /\ recorded[i] <= max_tick_latency_ns
  BY <1>1 DEF MetricsInv, Extremes
<1>4. ASSUME NEW x PROVE UpTo(x) = Cardinality(AtMost(x)) /\ UpTo(x) \in 0..n
  <2>1. AtMost(x) \in SUBSET (1..n)
    BY <1>1 DEF AtMost
  <2> QED BY <1>1, <2>1, SubsetSize DEF UpTo, AtMost
<1>5. UpTo(max_tick_latency_ns) = n
  <2>1. AtMost(max_tick_latency_ns) = 1..n
    BY <1>1, <1>3 DEF AtMost
  <2>2. Cardinality(1..n) = n
    BY <1>1, SubsetSize
  <2> QED BY <1>4, <2>1, <2>2
<1>6. Range(recorded) \in SUBSET Nat
  BY <1>1, <1>2
<1>7. max_tick_latency_ns \in Range(recorded) /\ min_tick_latency_ns \in Range(recorded)
  BY <1>2, <1>3
<1>8. \A x \in Range(recorded) : min_tick_latency_ns <= x /\ x <= max_tick_latency_ns
  BY <1>2, <1>3
<1>9. \A x \in Range(recorded) : x < U64Max
  BY <1>1, <1>2, U64MaxIs
<1> QED BY <1>2, <1>4, <1>5, <1>6, <1>7, <1>8, <1>9

\* The k-th smallest is the least sample that has k samples up to it.
LEMMA SmallestIs ==
  ASSUME MetricsInv, recorded # << >>, NEW k \in 1..Len(recorded)
  PROVE  /\ Smallest(k) \in Range(recorded) /\ UpTo(Smallest(k)) >= k
         /\ \A x \in Range(recorded) : UpTo(x) >= k => Smallest(k) <= x
<1> DEFINE T == {x \in Range(recorded) : UpTo(x) >= k}
<1>1. max_tick_latency_ns \in T /\ T \in SUBSET Nat /\ T \in SUBSET Int
  BY UpToIs
<1>2. Smallest(k) = Min(T)
  BY DEF Smallest
<1> HIDE DEF T
<1>3. PICK x \in T : \A y \in T : x <= y
  BY <1>1, Least
<1>4. Smallest(k) = x
  BY <1>1, <1>2, <1>3, MinIs
<1> QED BY <1>3, <1>4 DEF T

\* A set of numbers with a bound has a greatest.
LEMMA Greatest ==
  ASSUME NEW T \in SUBSET Nat, T # {}, NEW c \in Nat, \A x \in T : x <= c
  PROVE  \E x \in T : \A y \in T : y <= x
<1> DEFINE U == {c - x : x \in T}
<1>1. U \in SUBSET Nat /\ U # {}
  <2>1. \A x \in T : c - x \in Nat
    OBVIOUS
  <2> QED BY <2>1
<1> HIDE DEF U
<1>2. PICK u \in U : \A v \in U : u <= v
  BY <1>1, Least
<1>3. PICK x \in T : u = c - x
  BY DEF U
<1>4. ASSUME NEW y \in T PROVE y <= x
  <2>1. c - y \in U
    BY DEF U
  <2>2. c - x <= c - y
    BY <1>2, <1>3, <2>1
  <2>3. x \in Nat /\ y \in Nat
    OBVIOUS
  <2> QED BY <2>2, <2>3
<1> QED BY <1>4

\* The k-th smallest sample lies in the first bucket up to which there are k samples.
LEMMA SmallestLies ==
  ASSUME MetricsInv, recorded # << >>, NEW k \in 1..Len(recorded), NEW m \in 1..29,
         SamplesUpTo(m) >= k, \A b \in 1..29 : SamplesUpTo(b) >= k => m <= b
  PROVE  /\ Smallest(k) \in Nat /\ Smallest(k) < Bound(m)
         /\ m > 1 => Bound(m - 1) <= Smallest(k)
<1> DEFINE n == Len(recorded)
           s == Smallest(k)
<1>1. /\ n \in Nat /\ DOMAIN recorded = 1..n
      /\ \A i \in 1..n : recorded[i] \in Nat
  <2>1. \A x \in 0..(U64Max - 1) : x \in Nat
    OBVIOUS
  <2> QED BY <2>1, RecordedIs
<1>2. /\ s \in Range(recorded) /\ UpTo(s) >= k
      /\ \A x \in Range(recorded) : UpTo(x) >= k => s <= x
  BY SmallestIs
<1>3. s \in Nat
  BY <1>2, UpToIs
<1> HIDE DEF s
<1>4. s < Bound(m)
  <2> DEFINE T == {recorded[i] : i \in Under(Bound(m))}
  <2>1. Bound(m) \in Nat
    BY BoundsGrow
  <2>2. Under(Bound(m)) # {}
    <3>1. Cardinality(Under(Bound(m))) >= k
      BY SamplesAre
    <3>2. Cardinality({}) = 0
      BY FS_EmptySet
    <3>3. ~(0 >= k)
      OBVIOUS
    <3> QED BY <3>1, <3>2, <3>3, Zenon
  <2>3. T # {} /\ T \in SUBSET Nat /\ \A x \in T : x <= Bound(m)
    <3>1. \A i \in Under(Bound(m)) : /\ recorded[i] \in Nat
                                    /\ recorded[i] <= Bound(m)
      BY <1>1, <2>1 DEF Under
    <3> QED BY <2>2, <3>1
  <2> HIDE DEF T
  <2>4. PICK x \in T : \A y \in T : y <= x
    BY <2>1, <2>3, Greatest
  <2>5. x \in Range(recorded) /\ x < Bound(m) /\ x \in Nat
    BY <1>1, <2>3, <2>4, UpToIs DEF T, Under
  <2>6. Under(Bound(m)) \subseteq AtMost(x)
    BY <2>4 DEF T, Under, AtMost
  <2>7. UpTo(x) >= Cardinality(Under(Bound(m)))
    <3>1. AtMost(x) \in SUBSET (1..n) /\ Under(Bound(m)) \in SUBSET AtMost(x)
      BY <1>1, <2>6 DEF AtMost
    <3>2. Cardinality(Under(Bound(m))) <= Cardinality(AtMost(x))
      BY <1>1, <3>1, SubsetSize
    <3> QED BY <3>2, UpToIs
  <2>8. UpTo(x) >= k
    <3>1. SamplesUpTo(m) = Cardinality(Under(Bound(m))) /\ SamplesUpTo(m) \in Nat
      BY SamplesAre
    <3>2. UpTo(x) \in Nat
      <4>1. UpTo(x) \in 0..n
        BY UpToIs
      <4> QED BY <1>1, <4>1
    <3> QED BY <2>7, <3>1, <3>2
  <2>9. s <= x
    BY <1>2, <2>5, <2>8
  <2> QED BY <1>3, <2>1, <2>5, <2>9
<1>5. ASSUME m > 1 PROVE Bound(m - 1) <= s
  <2>1. m - 1 \in 1..29 /\ ~(m <= m - 1)
    BY <1>5
  <2>2. /\ SamplesUpTo(m - 1) < k /\ SamplesUpTo(m - 1) \in Nat
        /\ SamplesUpTo(m - 1) = Cardinality(Under(Bound(m - 1)))
    <3>1. /\ SamplesUpTo(m - 1) \in Nat
          /\ SamplesUpTo(m - 1) = Cardinality(Under(Bound(m - 1)))
      BY <2>1, SamplesAre, Zenon
    <3>2. ~(SamplesUpTo(m - 1) >= k)
      BY <2>1, Zenon
    <3> QED BY <3>1, <3>2
  <2>3. Bound(m - 1) \in Nat
    BY <2>1, BoundsGrow
  <2>4. ASSUME s < Bound(m - 1) PROVE FALSE
    <3>1. Under(Bound(m - 1)) \in SUBSET (1..n)
      BY <1>1 DEF Under
    <3>4. \A y \in Nat : y <= s => y < Bound(m - 1)
      BY <1>3, <2>3, <2>4
    <3>5. AtMost(s) \in SUBSET Under(Bound(m - 1))
      BY <1>1, <3>4 DEF Under, AtMost
    <3>2. Cardinality(AtMost(s)) <= Cardinality(Under(Bound(m - 1)))
      BY <1>1, <3>1, <3>5, SubsetSize
    <3>3. UpTo(s) = Cardinality(AtMost(s)) /\ UpTo(s) \in Nat
      <4>1. UpTo(s) = Cardinality(AtMost(s)) /\ UpTo(s) \in 0..n
        BY UpToIs
      <4> QED BY <1>1, <4>1
    <3> QED BY <1>2, <2>2, <3>2, <3>3
  <2> QED BY <1>3, <2>3, <2>4
<1> QED BY <1>3, <1>4, <1>5 DEF s

\* What is reported for the buckets grows.
Reported(m) == IF m = 1 THEN 50 ELSE IF m <= 28 THEN Bound(m) ELSE 100000

\* It is what the code reports, and it grows with the bucket.
LEMMA ReportedIs ==
  /\ \A m \in 1..29 : ReportedFor(m) = Reported(m) /\ Reported(m) \in Nat
  /\ \A a \in 1..29, b \in 1..29 : a <= b => Reported(a) <= Reported(b)
<1>1. ASSUME NEW m \in 1..29 PROVE ReportedFor(m) = Reported(m)
  <2>1. CASE m = 1
    <3>1. Boundaries[1] = Bound(1) /\ Bound(1) = 100
      <4>1. 1 \in 1..28
        OBVIOUS
      <4>2. Boundaries[1] = Bound(1)
        BY <4>1, BoundariesAre, Zenon
      <4> QED BY <4>2, BoundsDouble, SMT
    <3> QED BY <2>1, <3>1, SMT DEF ReportedFor, Reported
  <2>2. CASE m # 1
    <3>1. Len(Boundaries) = 28
      BY BoundariesAre, Zenon
    <3> DEFINE i == IF m <= 28 THEN m ELSE 28
    <3>2. Min({m, 28}) = i
      <4>1. m <= 28 => Min({m, 28}) = m
        BY MinIs
      <4>2. ~(m <= 28) => Min({m, 28}) = 28
        BY MinIs
      <4> QED BY <4>1, <4>2
    <3>3. i \in 1..28
      OBVIOUS
    <3>4. ReportedFor(m) = Boundaries[Min({m, Len(Boundaries)})]
      BY <2>2, Zenon DEF ReportedFor
    <3>5. ReportedFor(m) = Boundaries[i]
      BY <3>1, <3>2, <3>4, Zenon
    <3>6. Boundaries[i] = Bound(i)
      <4> HIDE DEF i
      <4> QED BY <3>3, BoundariesAre, Zenon
    <3>7. CASE m <= 28
      <4>1. i = m
        BY <3>7
      <4>2. ReportedFor(m) = Bound(m)
        BY <3>5, <3>6, <4>1, Zenon
      <4> HIDE DEF i
      <4> QED BY <2>2, <3>7, <4>2, SMT DEF Reported
    <3>8. CASE ~(m <= 28)
      <4>1. i = 28
        BY <3>8
      <4>3. ReportedFor(m) = Bound(i)
        BY <3>5, <3>6, Zenon
      <4>2. ReportedFor(m) = Bound(28)
        BY <4>1, <4>3
      <4> HIDE DEF i
      <4> QED BY <2>2, <3>8, <4>2, BoundsDouble, SMT DEF Reported
    <3> QED BY <3>7, <3>8, Zenon
  <2> QED BY <2>1, <2>2, Zenon
<1>2. \A m \in 1..29 : Reported(m) \in Nat
  BY BoundsGrow, SMT DEF Reported
<1>3. ASSUME NEW a \in 1..29, NEW b \in 1..29, a <= b PROVE Reported(a) <= Reported(b)
  BY <1>3, SMT DEF Reported, Bound
<1> QED BY <1>1, <1>2, <1>3, Zenon

\* The rank of a percentile is that in the number of samples.
LEMMA RankIs ==
  ASSUME MetricsInv, NEW percent \in 1..100
  PROVE  /\ Rank(percent) = (Len(recorded) * percent) \div 100
         /\ Rank(percent) \in 0..Len(recorded)
         /\ \A more \in percent..100 : Rank(percent) <= Rank(more)
<1> DEFINE n == Len(recorded)
<1>1. n \in Nat
  BY RecordedIs
<1>2. SamplesUpTo(BucketCount) = n
  BY BoundariesAre, SamplesAre, Zenon
<1>3. \A p : Rank(p) = (n * p) \div 100
  BY <1>2, Zenon DEF Rank
<1> HIDE DEF n
<1>4. ASSUME NEW p \in 1..100 PROVE n * p \in Nat /\ n * p <= n * 100
  BY <1>1, ProductGrows
<1>5. ASSUME NEW a \in Nat, NEW b \in Nat, a <= b
      PROVE  a \div 100 <= b \div 100 /\ a \div 100 \in Nat
  BY <1>5
<1>6. (n * 100) \div 100 = n
  BY <1>1
<1>7. (n * percent) \div 100 \in 0..n
  <2>1. n * 100 \in Nat
    BY <1>1
  <2> QED BY <1>1, <1>4, <1>5, <1>6, <2>1
<1>8. ASSUME NEW more \in percent..100
      PROVE  (n * percent) \div 100 <= (n * more) \div 100
  <2>1. more \in 1..100 /\ percent <= more /\ percent \in Nat /\ more \in Nat
    OBVIOUS
  <2>2. n * percent <= n * more
    BY <1>1, <2>1, ProductGrows
  <2> QED BY <1>4, <1>5, <2>1, <2>2
<1> QED BY <1>3, <1>7, <1>8 DEF n

\* A percentile is what is reported for the first bucket up to which there are enough.
LEMMA PercentileIs ==
  ASSUME MetricsInv, recorded # << >>, NEW percent \in 1..100
  PROVE  \E m \in 1..29 : /\ LatencyPercentile(percent) = Reported(m)
                          /\ SamplesUpTo(m) >= Rank(percent)
                          /\ \A b \in 1..29 : SamplesUpTo(b) >= Rank(percent) => m <= b
<1> DEFINE n == Len(recorded)
           T == {b \in 1..BucketCount : SamplesUpTo(b) >= Rank(percent)}
<1>1. n \in Nat /\ n # 0
  BY DEF MetricsInv, Counted
<1>2. BucketCount = 29 /\ SamplesUpTo(BucketCount) = n
  BY BoundariesAre, SamplesAre, Zenon
<1>3. LatencyPercentile(percent) = ReportedFor(Min(T))
  <2>1. ~(SamplesUpTo(BucketCount) = 0)
    BY <1>1, <1>2, Zenon
  <2> QED BY <2>1, Zenon DEF LatencyPercentile
<1>4. 29 \in T
  <2>1. n >= Rank(percent)
    <3>1. Rank(percent) \in 0..n
      BY RankIs, Zenon
    <3> HIDE DEF n
    <3> QED BY <1>1, <3>1
  <2>2. 29 \in 1..29
    OBVIOUS
  <2> QED BY <1>2, <2>1, <2>2, Zenon
<1>5. T \in SUBSET Nat /\ T \in SUBSET Int
  <2>1. \A b \in 1..29 : b \in Nat /\ b \in Int
    OBVIOUS
  <2> QED BY <1>2, <2>1, Zenon
<1>6. \A b : b \in T <=> b \in 1..29 /\ SamplesUpTo(b) >= Rank(percent)
  BY <1>2, Zenon
<1> HIDE DEF T
<1>7. PICK m \in T : \A b \in T : m <= b
  BY <1>4, <1>5, Least
<1>8. Min(T) = m
  BY <1>5, <1>7, MinIs
<1>9. m \in 1..29 /\ SamplesUpTo(m) >= Rank(percent)
  BY <1>6, Zenon
<1>10. LatencyPercentile(percent) = Reported(m)
  BY <1>3, <1>8, <1>9, ReportedIs, Zenon
<1>11. \A b \in 1..29 : SamplesUpTo(b) >= Rank(percent) => m <= b
  BY <1>6, <1>7, Zenon
<1> QED BY <1>9, <1>10, <1>11, Zenon

\* What is reported is near to any value of the bucket.
LEMMA ReportedIsNear ==
  ASSUME NEW m \in 1..29, NEW s \in Nat, s < Bound(m), m > 1 => Bound(m - 1) <= s
  PROVE  Near(Reported(m), s)
<1>1. CASE m = 1
  <2>1. s < 100
    BY <1>1, BoundsDouble, SMT
  <2>2. Reported(m) = 50
    BY <1>1, SMT DEF Reported
  <2> QED BY <2>1, <2>2, SMT DEF Near
<1>2. CASE m \in 2..28
  <2>1. Reported(m) = Bound(m) /\ Bound(m) \in Nat /\ Bound(m - 1) \in Nat
    BY <1>2, BoundsGrow, SMT DEF Reported
  <2>2. Bound(m - 1) <= s /\ Bound(m) <= 2 * Bound(m - 1)
    BY <1>2, BoundsDouble, SMT
  <2>3. 100 <= Bound(m - 1) /\ Bound(m) <= 100000
    BY <1>2, SMT DEF Bound
  <2> HIDE DEF Bound
  <2>4. 100 <= s /\ s < 100000 /\ s < Bound(m) /\ Bound(m) <= 2 * s
    BY <2>1, <2>2, <2>3, SMT
  <2> QED BY <2>1, <2>4, SMT DEF Near
<1>3. CASE m = 29
  <2>1. 100000 <= s
    BY <1>3, BoundsDouble, SMT
  <2>2. Reported(m) = 100000
    BY <1>3, SMT DEF Reported
  <2> QED BY <2>1, <2>2, SMT DEF Near
<1> QED BY <1>1, <1>2, <1>3, SMT

\* A quotient lies between two bounds if the number lies between their multiples.
LEMMA QuotientBetween ==
  ASSUME NEW n \in Nat \ {0}, NEW t \in Nat, NEW a \in Nat, NEW b \in Nat,
         n * a <= t, t <= n * b
  PROVE  a <= t \div n /\ t \div n <= b
<1> DEFINE q == t \div n
<1>1. q \in Nat /\ n * q <= t /\ t < n * (q + 1)
  OBVIOUS
<1> HIDE DEF q
<1>2. a <= q
  <2>1. ASSUME q + 1 <= a PROVE FALSE
    <3>1. n * (q + 1) <= n * a /\ n * (q + 1) \in Nat /\ n * a \in Nat
      BY <1>1, <2>1, ProductGrows
    <3> QED BY <1>1, <3>1
  <2> QED BY <1>1, <2>1
<1>3. q <= b
  <2>1. ASSUME b + 1 <= q PROVE FALSE
    <3>1. n * (b + 1) <= n * q /\ n * (b + 1) \in Nat /\ n * q \in Nat
      BY <1>1, <2>1, ProductGrows
    <3>2. n * (b + 1) = n * b + n /\ n * b \in Nat
      OBVIOUS
    <3> QED BY <1>1, <3>1, <3>2
  <2> QED BY <1>1, <2>1
<1> QED BY <1>2, <1>3 DEF q

\* The summary follows from the invariant.
LEMMA InvGivesSummary == MetricsInv => SummaryOfTheLatencies
<1> SUFFICES ASSUME MetricsInv PROVE SummaryOfTheLatencies
  OBVIOUS
<1> DEFINE n == Len(recorded)
<1>1. n \in Nat /\ (recorded # << >> => n \in Nat \ {0} /\ 1 \in 1..n /\ n \in 1..n)
  <2>1. n \in Nat /\ recorded \in Seq(Latencies)
    BY DEF MetricsInv, Counted
  <2>2. recorded # << >> => n # 0
    BY <2>1
  <2>3. \A k \in Nat : k # 0 => k \in Nat \ {0} /\ 1 \in 1..k /\ k \in 1..k
    OBVIOUS
  <2> HIDE DEF n
  <2> QED BY <2>1, <2>2, <2>3, Zenon
<1>2. ASSUME recorded # << >>
      PROVE  /\ MinLatency = Smallest(1) /\ max_tick_latency_ns = Smallest(n)
             /\ MinLatency = min_tick_latency_ns
  <2>1. /\ min_tick_latency_ns \in Range(recorded) /\ min_tick_latency_ns < U64Max
        /\ max_tick_latency_ns \in Range(recorded)
        /\ UpTo(max_tick_latency_ns) = n
        /\ \A x \in Range(recorded) : /\ x \in Nat
                                      /\ min_tick_latency_ns <= x
                                      /\ x <= max_tick_latency_ns
    BY <1>2, UpToIs
  <2>2. MinLatency = min_tick_latency_ns
    <3>1. U64Max \in Nat /\ min_tick_latency_ns \in Nat
      BY <2>1, U64MaxIs
    <3>2. min_tick_latency_ns # U64Max
      BY <2>1, <3>1
    <3> QED BY <3>2, Zenon DEF MinLatency
  <2>3. Smallest(1) = min_tick_latency_ns
    <3>1. /\ Smallest(1) \in Range(recorded)
          /\ \A x \in Range(recorded) : UpTo(x) >= 1 => Smallest(1) <= x
      BY <1>1, <1>2, SmallestIs, Zenon
    <3>2. UpTo(min_tick_latency_ns) >= 1
      <4>1. DOMAIN recorded = 1..n
        BY RecordedIs
      <4>2. PICK i \in 1..n : recorded[i] = min_tick_latency_ns
        BY <1>2, <2>1, UpToIs
      <4>3. AtMost(min_tick_latency_ns) \in SUBSET (1..n)
            /\ i \in AtMost(min_tick_latency_ns)
        BY <2>1, <4>1, <4>2 DEF AtMost
      <4>4. {} \in SUBSET AtMost(min_tick_latency_ns) /\ {} # AtMost(min_tick_latency_ns)
        BY <4>3
      <4>5. /\ Cardinality({}) < Cardinality(AtMost(min_tick_latency_ns))
            /\ Cardinality(AtMost(min_tick_latency_ns)) \in 0..n
        BY <1>1, <4>3, <4>4, SubsetSize
      <4>6. Cardinality({}) = 0
        BY FS_EmptySet
      <4>7. UpTo(min_tick_latency_ns) = Cardinality(AtMost(min_tick_latency_ns))
        BY <1>2, UpToIs, Zenon
      <4> HIDE DEF n
      <4> QED BY <1>1, <4>5, <4>6, <4>7
    <3>3. Smallest(1) <= min_tick_latency_ns /\ min_tick_latency_ns <= Smallest(1)
          /\ Smallest(1) \in Nat /\ min_tick_latency_ns \in Nat
      BY <2>1, <3>1, <3>2, Zenon
    <3> QED BY <3>3
  <2>4. Smallest(n) = max_tick_latency_ns
    <3>1. /\ Smallest(n) \in Range(recorded) /\ UpTo(Smallest(n)) >= n
          /\ Smallest(n) <= max_tick_latency_ns
          /\ Smallest(n) \in Nat /\ max_tick_latency_ns \in Nat
      <4>1. /\ Smallest(n) \in Range(recorded) /\ UpTo(Smallest(n)) >= n
        BY <1>1, <1>2, SmallestIs, Zenon
      <4> QED BY <2>1, <4>1, Zenon
    <3>2. ASSUME Smallest(n) < max_tick_latency_ns PROVE FALSE
      <4>1. DOMAIN recorded = 1..n
        BY RecordedIs
      <4>2. PICK i \in 1..n : recorded[i] = max_tick_latency_ns
        BY <1>2, <2>1, UpToIs
      <4>3. AtMost(Smallest(n)) \in SUBSET (1..n) /\ i \notin AtMost(Smallest(n))
        <5>1. ~(recorded[i] <= Smallest(n))
          BY <3>1, <3>2, <4>2
        <5> QED BY <4>1, <5>1 DEF AtMost
      <4>4. AtMost(Smallest(n)) # 1..n /\ 1..n \in SUBSET (1..n)
        BY <4>2, <4>3
      <4>5. /\ Cardinality(AtMost(Smallest(n))) < Cardinality(1..n)
            /\ Cardinality(1..n) = n
        BY <1>1, <4>3, <4>4, SubsetSize
      <4>6. UpTo(Smallest(n)) = Cardinality(AtMost(Smallest(n)))
            /\ UpTo(Smallest(n)) \in 0..n
        BY <1>2, UpToIs, Zenon
      <4> HIDE DEF n
      <4> QED BY <1>1, <3>1, <4>5, <4>6
    <3> QED BY <3>1, <3>2
  <2> QED BY <2>2, <2>3, <2>4, Zenon
<1>3. ASSUME recorded # << >>
      PROVE  MinLatency <= AvgLatency /\ AvgLatency <= max_tick_latency_ns
  <2>1. /\ ticks_processed = n /\ min_tick_latency_ns \in Nat /\ max_tick_latency_ns \in Nat
        /\ total_tick_latency_ns \in Nat
        /\ n * min_tick_latency_ns <= total_tick_latency_ns
        /\ total_tick_latency_ns <= n * max_tick_latency_ns
    BY DEF MetricsInv, Counted, Extremes, Totals
  <2>2. n \in Nat \ {0}
    BY <1>1, <1>3, Zenon
  <2>3. AvgLatency = total_tick_latency_ns \div n
    <3> HIDE DEF n
    <3> QED BY <2>1, <2>2 DEF AvgLatency
  <2>4. /\ min_tick_latency_ns <= total_tick_latency_ns \div n
        /\ total_tick_latency_ns \div n <= max_tick_latency_ns
    <3> HIDE DEF n
    <3> QED BY <2>1, <2>2, QuotientBetween
  <2> QED BY <1>2, <1>3, <2>3, <2>4, Zenon
<1>4. ASSUME recorded # << >>, NEW a \in 1..100, NEW b \in a..100
      PROVE  LatencyPercentile(a) <= LatencyPercentile(b)
  <2>1. b \in 1..100
    OBVIOUS
  <2>2. PICK l \in 1..29 : /\ LatencyPercentile(a) = Reported(l)
                           /\ \A c \in 1..29 : SamplesUpTo(c) >= Rank(a) => l <= c
    BY <1>4, PercentileIs, Zenon
  <2>3. PICK m \in 1..29 : /\ LatencyPercentile(b) = Reported(m)
                           /\ SamplesUpTo(m) >= Rank(b)
    BY <1>4, <2>1, PercentileIs, Zenon
  <2>4. SamplesUpTo(m) >= Rank(a)
    <3>1. Rank(a) <= Rank(b)
      BY RankIs, Zenon
    <3>2. Rank(a) \in 0..n /\ Rank(b) \in 0..n /\ SamplesUpTo(m) \in Nat
      BY <2>1, RankIs, SamplesAre, Zenon
    <3> HIDE DEF n
    <3> QED BY <1>1, <2>3, <3>1, <3>2
  <2> QED BY <2>2, <2>3, <2>4, ReportedIs, Zenon
<1>5. recorded # << >> => /\ LatencyPercentile(50) <= LatencyPercentile(95)
                          /\ LatencyPercentile(95) <= LatencyPercentile(99)
  <2>1. 50 \in 1..100 /\ 95 \in 1..100 /\ 95 \in 50..100 /\ 99 \in 95..100
    OBVIOUS
  <2> QED BY <1>4, <2>1
<1>6. ASSUME NEW percent \in {50, 95, 99}
      PROVE  LET k == (Len(recorded) * percent) \div 100
             IN IF k > 0 THEN Near(LatencyPercentile(percent), Smallest(k))
                ELSE LatencyPercentile(percent) = IF recorded = << >> THEN 0 ELSE 50
  <2> DEFINE k == (n * percent) \div 100
  <2>1. percent \in 1..100
    OBVIOUS
  <2>2. Rank(percent) = k /\ k \in 0..n
    <3>1. Rank(percent) = k
      BY <2>1, RankIs, Zenon
    <3>2. Rank(percent) \in 0..n
      BY <2>1, RankIs, Zenon
    <3> QED BY <3>1, <3>2, Zenon
  <2> HIDE DEF k
  <2>3. CASE recorded = << >>
    <3>1. n = 0
      BY <2>3
    <3>2. SamplesUpTo(BucketCount) = 0
      BY <3>1, BoundariesAre, SamplesAre, Zenon
    <3>3. LatencyPercentile(percent) = 0
      BY <3>2, Zenon DEF LatencyPercentile
    <3>4. ~(k > 0)
      <4> HIDE DEF n
      <4> QED BY <2>2, <3>1
    <3> QED BY <2>3, <3>3, <3>4, Zenon DEF k
  <2>4. CASE recorded # << >>
    <3>1. PICK m \in 1..29 : /\ LatencyPercentile(percent) = Reported(m)
                             /\ SamplesUpTo(m) >= k
                             /\ \A b \in 1..29 : SamplesUpTo(b) >= k => m <= b
      BY <2>1, <2>2, <2>4, PercentileIs, Zenon
    <3>2. CASE k > 0
      <4>1. k \in 1..n
        <5> HIDE DEF n
        <5> QED BY <1>1, <2>2, <3>2
      <4>2. /\ Smallest(k) \in Nat /\ Smallest(k) < Bound(m)
            /\ m > 1 => Bound(m - 1) <= Smallest(k)
        BY <2>4, <3>1, <4>1, SmallestLies, Zenon
      <4>3. Near(Reported(m), Smallest(k))
        BY <4>2, ReportedIsNear, Zenon
      <4> QED BY <3>1, <3>2, <4>3, Zenon DEF k
    <3>3. CASE ~(k > 0)
      <4>1. k = 0
        <5> HIDE DEF n
        <5> QED BY <1>1, <2>2, <3>3
      <4>2. SamplesUpTo(1) >= k
        <5>1. 1 \in 1..29
          OBVIOUS
        <5>2. SamplesUpTo(1) \in Nat
          BY <5>1, SamplesAre, Zenon
        <5> QED BY <4>1, <5>2
      <4>3. m = 1
        <5>1. m <= 1
          <6>1. 1 \in 1..29
            OBVIOUS
          <6>2. \A b \in 1..29 : SamplesUpTo(b) >= k => m <= b
            BY <3>1, Zenon
          <6>3. SamplesUpTo(1) >= k => m <= 1
            BY <6>1, <6>2, Zenon
          <6> QED BY <4>2, <6>3, Zenon
        <5>2. \A x \in 1..29 : x <= 1 => x = 1
          OBVIOUS
        <5> QED BY <5>1, <5>2, Zenon
      <4>4. Reported(1) = 50
        BY SMT DEF Reported
      <4> QED BY <2>4, <3>1, <3>3, <4>3, <4>4, Zenon DEF k
    <3> QED BY <3>2, <3>3, Zenon
  <2> QED BY <2>3, <2>4, Zenon
<1>7. hedges_executed = Len(volumes)
  BY DEF MetricsInv, Counted
<1>8. LET net == SumFunction(volumes)
      IN net <= total_hedge_volume /\ -net <= total_hedge_volume
  <2> DEFINE net == SumFunction(volumes)
  <2>1. net \in (-total_hedge_volume)..total_hedge_volume /\ total_hedge_volume \in Nat
    BY DEF MetricsInv, Netted
  <2> HIDE DEF net
  <2>2. net <= total_hedge_volume /\ -net <= total_hedge_volume
    BY <2>1
  <2> QED BY <2>2 DEF net
<1> QED BY <1>2, <1>3, <1>5, <1>6, <1>7, <1>8, Zenon DEF SummaryOfTheLatencies

(***************************************************************************)
(* SummaryOfTheLatencies: whatever was recorded and reset, a percentile    *)
(* that Metrics reports is that of the samples, at most twice as large,    *)
(* above 50 ns and up to 100 us; percentiles, minimum, average and maximum *)
(* are in order, and the total volume is no less than the net volume.      *)
(***************************************************************************)
THEOREM SummaryOfTheLatenciesHolds == MetricsSpec => []SummaryOfTheLatencies
BY MetricsInvariance, InvGivesSummary, PTL
=============================================================================
