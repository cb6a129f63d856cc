----------------------------- MODULE FoldLemmas -----------------------------
(***************************************************************************)
(* What the folds of the community modules compute: sums over finite sets  *)
(* (MapThenSumSet, in Intraday, AutoEntry and LadderExecution) and folds   *)
(* over sequences of integers (FoldLeft, in Scalper).  The inductions are  *)
(* by a smallest counterexample, because no induction theorem of the       *)
(* library can be instantiated here.                                       *)
(***************************************************************************)
EXTENDS Integers, FiniteSetsExt, FiniteSetTheorems, TLAPS

-----------------------------------------------------------------------------
(* The function that a fold computes *)

\* A set of finite sets has a smallest one.
LEMMA SmallestSet ==
  ASSUME NEW S, IsFiniteSet(S), NEW B \in SUBSET (SUBSET S), B # {}
  PROVE  \E s \in B : IsFiniteSet(s) /\ \A t \in B : t \subseteq s => t = s
<1> DEFINE R == StrictSubsetOrdering(S)
<1>1. IsWellFoundedOn(R, SUBSET S)
  BY FS_StrictSubsetOrderingWellFounded, FS_FiniteSubsetsOfFinite
<1>2. PICK s \in B : \A t \in B : ~ (<<t, s>> \in R)
  <2> HIDE DEF R
  <2> QED BY <1>1, WFMin
<1>3. \A t \in B : t \subseteq s => t = s
  BY <1>2 DEF StrictSubsetOrdering
<1> QED
  BY <1>3, FS_Subset

\* What a fold over the subsets of S computes.
Pick(s) == CHOOSE x \in s : TRUE
AddsLast(f, sum, s) == IF s = {} THEN 0 ELSE f[Pick(s)] + sum[s \ {Pick(s)}]
Adds(f, S, sum) == sum = [s \in SUBSET S |-> AddsLast(f, sum, s)]

LEMMA AddsTo ==
  ASSUME NEW f, NEW S, NEW sum, Adds(f, S, sum), NEW s \in SUBSET S
  PROVE  sum[s] = AddsLast(f, sum, s)
<1>1. \A h : h = [u \in SUBSET S |-> AddsLast(f, sum, u)] => h[s] = AddsLast(f, sum, s)
  OBVIOUS
<1> QED BY <1>1 DEF Adds

LEMMA PickIn == ASSUME NEW s, s # {} PROVE Pick(s) \in s
BY DEF Pick

\* A sum depends on the summands only.
LEMMA SameSum ==
  ASSUME NEW f, NEW S, NEW sum, Adds(f, S, sum), NEW g, NEW T, NEW tum, Adds(g, T, tum),
         NEW U, IsFiniteSet(U), U \subseteq S, U \subseteq T, \A x \in U : f[x] = g[x]
  PROVE  sum[U] = tum[U]
<1> DEFINE B == {s \in SUBSET U : sum[s] # tum[s]}
<1>1. SUFFICES ASSUME B # {} PROVE FALSE
  OBVIOUS
<1>2. PICK s \in B : \A t \in B : t \subseteq s => t = s
  <2>1. B \in SUBSET (SUBSET U) OBVIOUS
  <2> HIDE DEF B
  <2> QED BY <1>1, <2>1, SmallestSet
<1>3. sum[s] = AddsLast(f, sum, s) /\ tum[s] = AddsLast(g, tum, s)
  BY AddsTo
<1>4. CASE s = {}
  BY <1>3, <1>4 DEF AddsLast
<1>5. CASE s # {}
  <2>1. Pick(s) \in s BY <1>5, PickIn
  <2>2. s \ {Pick(s)} \notin B BY <1>2, <2>1
  <2>3. sum[s \ {Pick(s)}] = tum[s \ {Pick(s)}] BY <2>2
  <2> QED BY <1>3, <1>5, <2>1, <2>3 DEF AddsLast
<1> QED BY <1>4, <1>5

\* Every finite set has a sum.
LEMMA SumExists ==
  ASSUME NEW f, NEW S, IsFiniteSet(S)
  PROVE  \E sum : Adds(f, S, sum)
<1> DEFINE B == {s \in SUBSET S : ~ \E sum : Adds(f, s, sum)}
<1>1. SUFFICES ASSUME B # {} PROVE FALSE
  OBVIOUS
<1>2. PICK s \in B : IsFiniteSet(s) /\ \A t \in B : t \subseteq s => t = s
  <2>1. B \in SUBSET (SUBSET S) OBVIOUS
  <2> HIDE DEF B
  <2> QED BY <1>1, <2>1, SmallestSet
<1>3. \A t \in SUBSET s : t # s => \E sum : Adds(f, t, sum)
  BY <1>2
<1> DEFINE It(t) == CHOOSE sum : Adds(f, t, sum)
           Rest(t) == t \ {Pick(t)}
           sum == [t \in SUBSET s |-> IF t = {} THEN 0 ELSE f[Pick(t)] + It(Rest(t))[Rest(t)]]
<1>4. \A t \in SUBSET s : t # s => Adds(f, t, It(t))
  BY <1>3
<1>5. ASSUME NEW t \in SUBSET s, t # {} PROVE Rest(t) \in SUBSET s /\ Rest(t) # s /\ IsFiniteSet(Rest(t))
  BY <1>2, <1>5, PickIn, FS_Subset
<1>6. ASSUME NEW t \in SUBSET s, t # {} PROVE sum[Rest(t)] = It(Rest(t))[Rest(t)]
  <2> DEFINE u == Rest(t)
  <2>1. u \in SUBSET s /\ u # s BY <1>5, <1>6
  <2>2. sum[u] = IF u = {} THEN 0 ELSE f[Pick(u)] + It(Rest(u))[Rest(u)]
    <3> HIDE DEF u, It, Rest
    <3> QED BY <2>1
  <2>3. Adds(f, u, It(u)) BY <1>4, <2>1
  <2>4. It(u)[u] = IF u = {} THEN 0 ELSE f[Pick(u)] + It(u)[Rest(u)]
    <3> HIDE DEF u, It
    <3> QED BY <2>3, AddsTo DEF AddsLast
  <2>5. u # {} => It(u)[Rest(u)] = It(Rest(u))[Rest(u)]
    <3>1. u # {} => Rest(u) \in SUBSET s /\ Rest(u) # s /\ IsFiniteSet(Rest(u)) /\ Rest(u) \subseteq u
      BY <1>5, <2>1
    <3>2. u # {} => Adds(f, Rest(u), It(Rest(u)))
      BY <1>4, <3>1
    <3> HIDE DEF u, It, Rest
    <3> QED BY <2>3, <3>1, <3>2, SameSum
  <2> HIDE DEF u, It, Rest, sum
  <2>6. sum[u] = It(u)[u] BY <2>2, <2>4, <2>5
  <2> QED BY <2>6 DEF u
<1>7. sum = [t \in SUBSET s |-> IF t = {} THEN 0 ELSE f[Pick(t)] + sum[t \ {Pick(t)}]]
  <2>1. \A t \in SUBSET s : t # {} => f[Pick(t)] + It(Rest(t))[Rest(t)] = f[Pick(t)] + sum[Rest(t)]
    BY <1>6
  <2> HIDE DEF It
  <2>2. sum = [t \in SUBSET s |-> IF t = {} THEN 0 ELSE f[Pick(t)] + It(Rest(t))[Rest(t)]] OBVIOUS
  <2> HIDE DEF sum
  <2> QED BY <2>1, <2>2
<1>8. Adds(f, s, sum)
  <2> HIDE DEF sum
  <2> QED BY <1>7 DEF Adds, AddsLast
<1> HIDE DEF sum
<1>9. s \notin B BY <1>8
<1> QED BY <1>9

LEMMA SumIsInt ==
  ASSUME NEW f, NEW S, IsFiniteSet(S), NEW sum, Adds(f, S, sum), \A x \in S : f[x] \in Int
  PROVE  sum[S] \in Int
<1> DEFINE B == {s \in SUBSET S : sum[s] \notin Int}
<1>1. SUFFICES ASSUME B # {} PROVE FALSE
  OBVIOUS
<1>2. PICK s \in B : \A t \in B : t \subseteq s => t = s
  <2>1. B \in SUBSET (SUBSET S) OBVIOUS
  <2> HIDE DEF B
  <2> QED BY <1>1, <2>1, SmallestSet
<1>3. sum[s] = IF s = {} THEN 0 ELSE f[Pick(s)] + sum[s \ {Pick(s)}]
  <2>1. s \in SUBSET S OBVIOUS
  <2> HIDE DEF B
  <2>2. sum[s] = AddsLast(f, sum, s) BY <2>1, AddsTo
  <2> QED BY <2>2 DEF AddsLast
<1>4. CASE s = {}
  BY <1>3, <1>4
<1>5. CASE s # {}
  <2>1. Pick(s) \in s BY <1>5, PickIn
  <2>2. s \ {Pick(s)} \notin B BY <1>2, <2>1
  <2> QED BY <1>3, <1>5, <2>1, <2>2
<1> QED BY <1>4, <1>5

\* Any element may be added last.
LEMMA SumSplits ==
  ASSUME NEW f, NEW S, IsFiniteSet(S), NEW sum, Adds(f, S, sum), \A x \in S : f[x] \in Int, NEW x \in S
  PROVE  sum[S] = f[x] + sum[S \ {x}]
<1>0. ASSUME NEW t \in SUBSET S PROVE sum[t] \in Int
  <2>1. PICK tum : Adds(f, t, tum) BY SumExists, FS_Subset
  <2>2. IsFiniteSet(t) BY FS_Subset
  <2>3. sum[t] = tum[t] BY <2>1, <2>2, SameSum
  <2>4. tum[t] \in Int BY <2>1, <2>2, SumIsInt
  <2> QED BY <2>3, <2>4
<1> DEFINE B == {s \in SUBSET S : \E y \in s : sum[s] # f[y] + sum[s \ {y}]}
<1>1. SUFFICES ASSUME B # {} PROVE FALSE
  OBVIOUS
<1>2. PICK s \in B : \A t \in B : t \subseteq s => t = s
  <2>1. B \in SUBSET (SUBSET S) OBVIOUS
  <2> HIDE DEF B
  <2> QED BY <1>1, <2>1, SmallestSet
<1>3. PICK y \in s : sum[s] # f[y] + sum[s \ {y}]
  OBVIOUS
<1> DEFINE p == Pick(s)
<1>4. sum[s] = f[p] + sum[s \ {p}] /\ p \in s
  <2>1. s \in SUBSET S /\ s # {} BY <1>3
  <2>2. sum[s] = IF s = {} THEN 0 ELSE f[Pick(s)] + sum[s \ {Pick(s)}]
    <3> HIDE DEF B
    <3>2. sum[s] = AddsLast(f, sum, s) BY <2>1, AddsTo
    <3> QED BY <3>2 DEF AddsLast
  <2> QED BY <2>1, <2>2, PickIn
<1>5. s \ {p} \notin B /\ s \ {y} \notin B
  BY <1>2, <1>3, <1>4
<1> HIDE DEF p
<1>6. p # y BY <1>3, <1>4
<1>7. sum[s \ {p}] = f[y] + sum[(s \ {p}) \ {y}]
  BY <1>3, <1>5, <1>6
<1>8. sum[s \ {y}] = f[p] + sum[(s \ {y}) \ {p}]
  BY <1>4, <1>5, <1>6
<1>9. (s \ {p}) \ {y} = (s \ {y}) \ {p}
  OBVIOUS
<1>10. f[p] \in Int /\ f[y] \in Int /\ sum[(s \ {p}) \ {y}] \in Int
  BY <1>0, <1>3, <1>4
<1> DEFINE z == sum[(s \ {p}) \ {y}]
<1>11. sum[s] = f[p] + (f[y] + z) /\ sum[s \ {y}] = f[p] + z
  BY <1>4, <1>7, <1>8, <1>9
<1> HIDE DEF z
<1> QED
  BY <1>3, <1>10, <1>11 DEF z

-----------------------------------------------------------------------------
(* The sum of a function *)

SumOf(f, I) == MapThenSumSet(LAMBDA i : f[i], I)

LEMMA SumOfIs ==
  ASSUME NEW f, NEW I, IsFiniteSet(I)
  PROVE  \E sum : Adds(f, I, sum) /\ SumOf(f, I) = sum[I]
<1> DEFINE Fold(sum) == sum = [s \in SUBSET I |->
                                 IF s = {} THEN 0
                                 ELSE LET x == CHOOSE y \in s : TRUE IN f[x] + sum[s \ {x}]]
           it == CHOOSE sum : Fold(sum)
<1>1. ASSUME NEW sum PROVE Fold(sum) <=> Adds(f, I, sum)
  BY Zenon DEF Adds, AddsLast, Pick
<1>2. \E sum : Fold(sum)
  <2> HIDE DEF Fold
  <2> QED BY <1>1, SumExists
<1>3. Fold(it)
  <2> HIDE DEF Fold
  <2> QED BY <1>2
<1>4. SumOf(f, I) = it[I]
  BY DEF SumOf, MapThenSumSet, MapThenFoldSet
<1> HIDE DEF it, Fold
<1> QED BY <1>1, <1>3, <1>4

\* Whatever computes the same is the sum.
LEMMA SumIs ==
  ASSUME NEW f, NEW I, IsFiniteSet(I), NEW sum, Adds(f, I, sum)
  PROVE  SumOf(f, I) = sum[I]
BY SumOfIs, SameSum

LEMMA SumOfNone == ASSUME NEW f PROVE SumOf(f, {}) = 0
<1>1. PICK sum : Adds(f, {}, sum) /\ SumOf(f, {}) = sum[{}] BY FS_EmptySet, SumOfIs
<1>2. sum[{}] = AddsLast(f, sum, {}) BY <1>1, AddsTo
<1> QED BY <1>1, <1>2 DEF AddsLast

LEMMA SumOfInt ==
  ASSUME NEW f, NEW I, IsFiniteSet(I), \A i \in I : f[i] \in Int
  PROVE  SumOf(f, I) \in Int
BY SumOfIs, SumIsInt

LEMMA SumOfSame ==
  ASSUME NEW f, NEW g, NEW I, IsFiniteSet(I), \A i \in I : f[i] = g[i]
  PROVE  SumOf(f, I) = SumOf(g, I)
<1>1. PICK sum : Adds(f, I, sum) /\ SumOf(f, I) = sum[I] BY SumOfIs
<1>2. PICK tum : Adds(g, I, tum) /\ SumOf(g, I) = tum[I] BY SumOfIs
<1> QED BY <1>1, <1>2, SameSum

LEMMA SumOfSplit ==
  ASSUME NEW f, NEW I, IsFiniteSet(I), \A i \in I : f[i] \in Int, NEW x \in I
  PROVE  SumOf(f, I) = f[x] + SumOf(f, I \ {x})
<1>1. PICK all : Adds(f, I, all) /\ SumOf(f, I) = all[I] BY SumOfIs
<1>2. IsFiniteSet(I \ {x}) BY FS_RemoveElement
<1>3. PICK rest : Adds(f, I \ {x}, rest) /\ SumOf(f, I \ {x}) = rest[I \ {x}] BY <1>2, SumOfIs
<1>4. all[I \ {x}] = rest[I \ {x}] BY <1>1, <1>2, <1>3, SameSum
<1> QED BY <1>1, <1>3, <1>4, SumSplits

LEMMA PairFinite == ASSUME NEW x, NEW y PROVE IsFiniteSet({x, y})
<1>1. IsFiniteSet({x}) BY FS_Singleton
<1>2. IsFiniteSet({x} \cup {y}) BY <1>1, FS_AddElement
<1>3. {x} \cup {y} = {x, y} OBVIOUS
<1> QED BY <1>2, <1>3

LEMMA SumOfOne ==
  ASSUME NEW f, NEW x, f[x] \in Int
  PROVE  SumOf(f, {x}) = f[x]
<1>1. IsFiniteSet({x}) BY FS_Singleton
<1>2. SumOf(f, {x}) = f[x] + SumOf(f, {x} \ {x}) BY <1>1, SumOfSplit
<1>3. {x} \ {x} = {} OBVIOUS
<1> QED BY <1>2, <1>3, SumOfNone

LEMMA SumOfTwo ==
  ASSUME NEW f, NEW x, NEW y, x # y, f[x] \in Int, f[y] \in Int
  PROVE  SumOf(f, {x, y}) = f[x] + f[y]
<1>1. IsFiniteSet({x, y}) BY PairFinite
<1>2. SumOf(f, {x, y}) = f[x] + SumOf(f, {x, y} \ {x}) BY <1>1, SumOfSplit
<1>3. {x, y} \ {x} = {y} OBVIOUS
<1> QED BY <1>2, <1>3, SumOfOne

\* The sum of the opposites.
LEMMA NegatedSum ==
  ASSUME NEW f, NEW g, NEW I, IsFiniteSet(I), \A i \in I : f[i] \in Int /\ g[i] = - f[i]
  PROVE  SumOf(g, I) = - SumOf(f, I) /\ SumOf(f, I) \in Int
<1> DEFINE B == {s \in SUBSET I : SumOf(g, s) # - SumOf(f, s)}
<1>1. SUFFICES ASSUME B # {} PROVE FALSE
  BY SumOfInt
<1>2. PICK s \in B : IsFiniteSet(s) /\ \A t \in B : t \subseteq s => t = s
  <2>1. B \in SUBSET (SUBSET I) OBVIOUS
  <2> HIDE DEF B
  <2> QED BY <1>1, <2>1, SmallestSet
<1>3. CASE s = {}
  BY <1>3, SumOfNone
<1>4. CASE s # {}
  <2>1. PICK x \in s : TRUE BY <1>4
  <2> DEFINE r == s \ {x}
  <2>2. r \notin B BY <1>2, <2>1
  <2>3. SumOf(g, r) = - SumOf(f, r) BY <2>2
  <2>4. SumOf(f, s) = f[x] + SumOf(f, r)
    <3>1. \A i \in s : f[i] \in Int OBVIOUS
    <3> QED BY <1>2, <2>1, <3>1, SumOfSplit
  <2>5. SumOf(g, s) = g[x] + SumOf(g, r)
    <3>1. \A i \in s : g[i] \in Int OBVIOUS
    <3> QED BY <1>2, <2>1, <3>1, SumOfSplit
  <2>6. SumOf(f, r) \in Int
    <3>1. IsFiniteSet(r) BY <1>2, FS_RemoveElement
    <3>2. \A i \in r : f[i] \in Int OBVIOUS
    <3> HIDE DEF r, B
    <3> QED BY <3>1, <3>2, SumOfInt
  <2>7. f[x] \in Int /\ g[x] = - f[x] OBVIOUS
  <2>8. SumOf(g, s) # - SumOf(f, s) OBVIOUS
  <2> HIDE DEF r, B
  <2> QED BY <2>3, <2>4, <2>5, <2>6, <2>7, <2>8
<1> QED BY <1>3, <1>4

-----------------------------------------------------------------------------
(* Folds over sequences of integers, as FoldLeft of SequencesExt computes  *)
(* them: the last element is folded in last.                               *)

LEMMA SmallestOf ==
  ASSUME NEW S \in SUBSET Nat, S # {}
  PROVE  Min(S) \in S /\ \A n \in S : Min(S) <= n
<1>1. IsWellFoundedOn(OpToRel(<, Nat), Nat) BY NatLessThanWellFounded
<1>2. PICK n \in S : \A m \in S : ~ (<<m, n>> \in OpToRel(<, Nat)) BY <1>1, WFMin
<1>3. \A m \in S : ~ (m < n) BY <1>2 DEF OpToRel
<1>4. \A m \in S : n <= m BY <1>3
<1> QED BY <1>4 DEF Min

LEMMA LargestOf ==
  ASSUME NEW n \in Nat, NEW S \in SUBSET (1 .. n), S # {}
  PROVE  Max(S) \in S /\ \A k \in S : k <= Max(S)
<1> DEFINE R == {n - k : k \in S}
<1>1. R \in SUBSET Nat /\ R # {}
  <2>1. \A k \in S : n - k \in Nat OBVIOUS
  <2> QED BY <2>1
<1>2. PICK m \in S : Min(R) = n - m /\ \A r \in R : Min(R) <= r
  <2>1. Min(R) \in R /\ \A r \in R : Min(R) <= r
    <3> HIDE DEF R
    <3> QED BY <1>1, SmallestOf
  <2> QED BY <2>1
<1>3. ASSUME NEW k \in S PROVE m >= k /\ k <= m
  <2>1. n - k \in R OBVIOUS
  <2>2. n - m <= n - k BY <1>2, <2>1
  <2> QED BY <2>2
<1>4. \E x \in S : \A y \in S : x >= y BY <1>3
<1>5. Max(S) \in S /\ \A y \in S : Max(S) >= y BY <1>4 DEF Max
<1> QED BY <1>5

LEMMA LargestOfInterval == ASSUME NEW n \in Nat PROVE Max(1 .. (n + 1)) = n + 1
<1>1. Max(1 .. (n + 1)) \in 1 .. (n + 1) /\ \A k \in 1 .. (n + 1) : k <= Max(1 .. (n + 1))
  <2>1. n + 1 \in Nat /\ 1 .. (n + 1) \in SUBSET (1 .. (n + 1)) /\ 1 .. (n + 1) # {} OBVIOUS
  <2> QED BY <2>1, LargestOf
<1>2. n + 1 \in 1 .. (n + 1) OBVIOUS
<1>3. n + 1 <= Max(1 .. (n + 1)) BY <1>1, <1>2
<1> QED BY <1>1, <1>3

LEMMA LargestIn ==
  ASSUME NEW n \in Nat, NEW s \in SUBSET (1 .. n), s # {}
  PROVE  Max(s) \in s
BY LargestOf

LEMMA IntervalFinite == ASSUME NEW n \in Nat PROVE IsFiniteSet(1 .. n)
<1>1. 1 \in Int /\ n \in Int OBVIOUS
<1> QED BY <1>1, FS_Interval

\* Sets of numbers that are no interval.
Numbers(S) == S \subseteq Nat

LEMMA LargestExists ==
  ASSUME NEW S, IsFiniteSet(S), Numbers(S), S # {}
  PROVE  \E m \in S : \A k \in S : k <= m
<1> DEFINE B == {s \in SUBSET S : s # {} /\ ~ \E m \in s : \A k \in s : k <= m}
<1>1. SUFFICES ASSUME B # {} PROVE FALSE
  OBVIOUS
<1>2. PICK s \in B : \A t \in B : t \subseteq s => t = s
  <2>1. B \in SUBSET (SUBSET S) OBVIOUS
  <2> HIDE DEF B
  <2> QED BY <1>1, <2>1, SmallestSet
<1>3. s # {} /\ s \subseteq Nat /\ ~ \E m \in s : \A k \in s : k <= m
  BY DEF Numbers
<1>4. PICK x \in s : TRUE BY <1>3
<1>5. s \ {x} \notin B /\ s \ {x} \in SUBSET S BY <1>2
<1>6. CASE s \ {x} = {}
  <2>1. \A k \in s : k = x BY <1>6
  <2> QED BY <1>3, <1>4, <2>1
<1>7. CASE s \ {x} # {}
  <2>1. PICK m \in s \ {x} : \A k \in s \ {x} : k <= m BY <1>5, <1>7
  <2>2. CASE m <= x
    <3>1. ASSUME NEW k \in s PROVE k <= x
      BY <1>3, <2>1, <2>2
    <3> QED BY <1>3, <3>1
  <2>3. CASE x <= m
    <3>1. ASSUME NEW k \in s PROVE k <= m
      BY <1>3, <2>1, <2>3
    <3> QED BY <1>3, <2>1, <3>1
  <2> QED BY <1>3, <2>1, <2>2, <2>3
<1> QED BY <1>6, <1>7

LEMMA LargestOfFinite ==
  ASSUME NEW S, IsFiniteSet(S), Numbers(S), S # {}
  PROVE  Max(S) \in S /\ \A k \in S : k <= Max(S)
<1>1. PICK m \in S : \A k \in S : k <= m BY LargestExists
<1>2. m \in S /\ \A k \in S : m >= k BY <1>1 DEF Numbers
<1>3. Max(S) \in S /\ \A k \in S : Max(S) >= k BY <1>2 DEF Max
<1> QED BY <1>3 DEF Numbers

LEMMA PlacesFinite ==
  ASSUME NEW n \in Nat, NEW I, I \subseteq 1 .. n
  PROVE  IsFiniteSet(I) /\ Numbers(I) /\ Cardinality(I) \in Nat
<1>1. IsFiniteSet(1 .. n) BY IntervalFinite
<1>2. IsFiniteSet(I) BY <1>1, FS_Subset
<1> QED BY <1>2, FS_CardinalityType DEF Numbers

\* g takes what the elements before the last one came to, and the last one.
FoldsLast(g, q, it, s) == IF s = {} THEN 0 ELSE g[<<it[s \ {Max(s)}], q[Max(s)]>>]
Folds(g, q, S, it) == it = [s \in SUBSET S |-> FoldsLast(g, q, it, s)]

LEMMA FoldsTo ==
  ASSUME NEW g, NEW q, NEW S, NEW it, Folds(g, q, S, it), NEW s \in SUBSET S
  PROVE  it[s] = FoldsLast(g, q, it, s)
<1>1. \A h : h = [u \in SUBSET S |-> FoldsLast(g, q, it, u)] => h[s] = FoldsLast(g, q, it, s)
  OBVIOUS
<1> QED BY <1>1 DEF Folds

\* A fold depends on the elements only.
Indices(U) == \E n \in Nat : U \subseteq 1 .. n
AgreeOn(U, q, r) == \A i \in U : q[i] = r[i]

LEMMA SameFold ==
  ASSUME NEW g, NEW q, NEW S, NEW it, Folds(g, q, S, it),
         NEW r, NEW T, NEW jt, Folds(g, r, T, jt),
         NEW U, Indices(U), U \subseteq S, U \subseteq T,
         AgreeOn(U, q, r)
  PROVE  it[U] = jt[U]
<1>6. PICK n \in Nat : U \subseteq 1 .. n BY DEF Indices
<1> DEFINE N == 1 .. n
           B == {s \in SUBSET U : it[s] # jt[s]}
<1>0. IsFiniteSet(N) BY IntervalFinite
<1>1. SUFFICES ASSUME B # {} PROVE FALSE
  OBVIOUS
<1>2. PICK s \in B : \A t \in B : t \subseteq s => t = s
  <2>1. B \in SUBSET (SUBSET N) BY <1>6
  <2> HIDE DEF B, N
  <2> QED BY <1>0, <1>1, <2>1, SmallestSet
<1>3. it[s] = FoldsLast(g, q, it, s) /\ jt[s] = FoldsLast(g, r, jt, s)
  <2>1. s \in SUBSET S /\ s \in SUBSET T OBVIOUS
  <2> HIDE DEF B, N
  <2>2. it[s] = FoldsLast(g, q, it, s) BY <2>1, FoldsTo
  <2>3. jt[s] = FoldsLast(g, r, jt, s) BY <2>1, FoldsTo
  <2> QED BY <2>2, <2>3
<1>4. CASE s = {}
  BY <1>3, <1>4 DEF FoldsLast
<1>5. CASE s # {}
  <2>1. s \in SUBSET (1 .. n) BY <1>6
  <2>2. Max(s) \in s
    <3> HIDE DEF B
    <3> QED BY <1>5, <2>1, LargestIn
  <2>3. s \ {Max(s)} \notin B BY <1>2, <2>2
  <2>4. it[s \ {Max(s)}] = jt[s \ {Max(s)}] BY <2>3
  <2>5. q[Max(s)] = r[Max(s)] BY <2>2 DEF AgreeOn
  <2> QED BY <1>3, <1>5, <2>4, <2>5 DEF FoldsLast
<1> QED BY <1>4, <1>5

LEMMA FoldIsInt ==
  ASSUME NEW g \in [Int \X Int -> Int], NEW n \in Nat, NEW q, \A i \in 1 .. n : q[i] \in Int,
         NEW it, Folds(g, q, 1 .. n, it), NEW U \in SUBSET (1 .. n)
  PROVE  it[U] \in Int
<1> DEFINE N == 1 .. n
           B == {s \in SUBSET N : it[s] \notin Int}
<1>0. IsFiniteSet(N) BY IntervalFinite
<1>1. SUFFICES ASSUME B # {} PROVE FALSE
  OBVIOUS
<1>2. PICK s \in B : \A t \in B : t \subseteq s => t = s
  <2>1. B \in SUBSET (SUBSET N) OBVIOUS
  <2> HIDE DEF B, N
  <2> QED BY <1>0, <1>1, <2>1, SmallestSet
<1>3. it[s] = FoldsLast(g, q, it, s)
  <2>1. s \in SUBSET (1 .. n) OBVIOUS
  <2> HIDE DEF B
  <2> QED BY <2>1, FoldsTo
<1>4. CASE s = {}
  BY <1>3, <1>4 DEF FoldsLast
<1>5. CASE s # {}
  <2>1. s \in SUBSET (1 .. n) OBVIOUS
  <2>2. Max(s) \in s
    <3> HIDE DEF B
    <3> QED BY <1>5, <2>1, LargestIn
  <2>3. s \ {Max(s)} \notin B BY <1>2, <2>2
  <2>4. it[s \ {Max(s)}] \in Int BY <2>1, <2>3
  <2>5. q[Max(s)] \in Int BY <2>1, <2>2
  <2>6. it[s] = g[<<it[s \ {Max(s)}], q[Max(s)]>>] BY <1>3, <1>5 DEF FoldsLast
  <2>7. it[s] \in Int BY <2>4, <2>5, <2>6
  <2> QED BY <2>7
<1> QED BY <1>4, <1>5

\* Every sequence has its fold.
LEMMA FoldExists ==
  ASSUME NEW g, NEW q, NEW n \in Nat
  PROVE  \E it : Folds(g, q, 1 .. n, it)
<1> DEFINE N == 1 .. n
           B == {s \in SUBSET N : ~ \E it : Folds(g, q, s, it)}
<1>0. IsFiniteSet(N) BY IntervalFinite
<1>1. SUFFICES ASSUME B # {} PROVE FALSE
  OBVIOUS
<1>2. PICK s \in B : \A t \in B : t \subseteq s => t = s
  <2>1. B \in SUBSET (SUBSET N) OBVIOUS
  <2> HIDE DEF B, N
  <2> QED BY <1>0, <1>1, <2>1, SmallestSet
<1>3. \A t \in SUBSET s : t # s => \E it : Folds(g, q, t, it)
  BY <1>2
<1>10. s \in SUBSET (1 .. n) OBVIOUS
<1>11. \A t \in SUBSET s : t # {} => Max(t) \in t
  <2> HIDE DEF B, N
  <2>1. SUFFICES ASSUME NEW t \in SUBSET s, t # {} PROVE Max(t) \in t OBVIOUS
  <2>2. t \in SUBSET (1 .. n) BY <1>10
  <2> QED BY <2>1, <2>2, LargestIn
<1> DEFINE It(t) == CHOOSE it : Folds(g, q, t, it)
           Rest(t) == t \ {Max(t)}
           whole == [t \in SUBSET s |-> IF t = {} THEN 0 ELSE g[<<It(Rest(t))[Rest(t)], q[Max(t)]>>]]
<1>4. \A t \in SUBSET s : t # s => Folds(g, q, t, It(t))
  BY <1>3
<1> HIDE DEF B, N
<1>5. ASSUME NEW t \in SUBSET s, t # {} PROVE Rest(t) \in SUBSET s /\ Rest(t) # s
  BY <1>11, <1>5
<1>6. ASSUME NEW t \in SUBSET s, t # {} PROVE whole[Rest(t)] = It(Rest(t))[Rest(t)]
  <2> DEFINE u == Rest(t)
  <2>1. u \in SUBSET s /\ u # s BY <1>5, <1>6
  <2>2. whole[u] = IF u = {} THEN 0 ELSE g[<<It(Rest(u))[Rest(u)], q[Max(u)]>>]
    <3> HIDE DEF u, It, Rest
    <3> QED BY <2>1
  <2>3. Folds(g, q, u, It(u)) BY <1>4, <2>1
  <2>4. It(u)[u] = IF u = {} THEN 0 ELSE g[<<It(u)[Rest(u)], q[Max(u)]>>]
    <3> HIDE DEF u, It
    <3> QED BY <2>3, FoldsTo DEF FoldsLast
  <2>5. u # {} => It(u)[Rest(u)] = It(Rest(u))[Rest(u)]
    <3>1. u # {} => Rest(u) \in SUBSET s /\ Rest(u) # s /\ Rest(u) \subseteq u
      BY <1>5, <2>1
    <3>2. u # {} => Folds(g, q, Rest(u), It(Rest(u)))
      BY <1>4, <3>1
    <3>3. u # {} => Indices(Rest(u)) BY <1>10, <3>1 DEF Indices
    <3> HIDE DEF u, It, Rest
    <3>5. AgreeOn(Rest(u), q, q) BY DEF AgreeOn
    <3>4. ASSUME u # {} PROVE It(u)[Rest(u)] = It(Rest(u))[Rest(u)]
      BY <2>3, <3>1, <3>2, <3>3, <3>4, <3>5, SameFold
    <3> QED BY <3>4
  <2> HIDE DEF u, It, Rest, whole
  <2>6. whole[u] = It(u)[u] BY <2>2, <2>4, <2>5
  <2> QED BY <2>6 DEF u
<1>7. whole = [t \in SUBSET s |-> IF t = {} THEN 0 ELSE g[<<whole[t \ {Max(t)}], q[Max(t)]>>]]
  <2>1. \A t \in SUBSET s : t # {} =>
          g[<<It(Rest(t))[Rest(t)], q[Max(t)]>>] = g[<<whole[Rest(t)], q[Max(t)]>>]
    BY <1>6
  <2> HIDE DEF It
  <2>2. whole = [t \in SUBSET s |-> IF t = {} THEN 0 ELSE g[<<It(Rest(t))[Rest(t)], q[Max(t)]>>]] OBVIOUS
  <2> HIDE DEF whole
  <2> QED BY <2>1, <2>2
<1>8. Folds(g, q, s, whole)
  <2> HIDE DEF whole
  <2> QED BY <1>7 DEF Folds, FoldsLast
<1> HIDE DEF whole
<1>9. s \notin B BY <1>8 DEF B
<1> QED BY <1>9

\* A sequence with one element more.
LEMMA FoldsAppend ==
  ASSUME NEW g, NEW q, NEW r, NEW n \in Nat, NEW p,
         AgreeOn(1 .. n, q, r), r[n + 1] = p,
         NEW it, Folds(g, q, 1 .. n, it), NEW jt, Folds(g, r, 1 .. (n + 1), jt)
  PROVE  jt[1 .. (n + 1)] = g[<<it[1 .. n], p>>]
<1> DEFINE N == 1 .. n
           M == 1 .. (n + 1)
<1>1. M \ {n + 1} = N /\ N \subseteq M /\ M # {} /\ Indices(N) /\ M \in SUBSET M BY DEF Indices
<1>2. Max(M) = n + 1 BY LargestOfInterval
<1>3. Folds(g, q, N, it) /\ Folds(g, r, M, jt) /\ AgreeOn(N, q, r) OBVIOUS
<1> HIDE DEF N, M
<1>4. jt[M] = FoldsLast(g, r, jt, M) BY <1>1, <1>3, FoldsTo
<1>5. it[N] = jt[N] BY <1>1, <1>3, SameFold
<1>6. jt[M] = g[<<it[N], p>>] BY <1>1, <1>2, <1>4, <1>5 DEF FoldsLast
<1> QED BY <1>6 DEF N, M
=============================================================================
