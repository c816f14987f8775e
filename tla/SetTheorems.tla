---------------------------- MODULE SetTheorems ----------------------------
(***************************************************************************)
(* Facts about sums over finite sets, as the modules form them with        *)
(* MapThenSumSet: total(f, S) adds f[x] for the elements x of S.  The fold *)
(* is a recursive function on the subsets of S; that such a function       *)
(* exists, that it is unique, and what it computes, is proved here by      *)
(* looking at a smallest subset on which a claim would fail.  The last     *)
(* lemmas are about the least and the greatest of a set of numbers.        *)
(***************************************************************************)
EXTENDS Integers, FiniteSets, FiniteSetsExt, FiniteSetTheorems, WellFoundedInduction, TLAPS

total(f, S) == MapThenSumSet(LAMBDA x : f[x], S)

\* The element a fold takes first, and the equation the fold solves.
first(s) == CHOOSE x \in s : TRUE

unrolled(f, S, it) ==
  [s \in SUBSET S |-> IF s = {} THEN 0 ELSE f[first(s)] + it[s \ { first(s) }]]

Solves(f, S, it) == it = unrolled(f, S, it)

\* Induction over the subsets of a finite set: what every subset inherits from
\* its proper subsets, all of them have.
LEMMA SubsetInduction ==
  ASSUME NEW S, IsFiniteSet(S), NEW G,
         \A T \in SUBSET S : (\A U \in SUBSET T : U # T => U \in G) => T \in G
  PROVE  SUBSET S \subseteq G
<1> DEFINE B == { T \in SUBSET S : T \notin G }
<1>1. IsWellFoundedOn(StrictSubsetOrdering(S), SUBSET S)
  BY FS_StrictSubsetOrderingWellFounded, FS_FiniteSubsetsOfFinite
<1>2. SUFFICES ASSUME B # {} PROVE FALSE
  OBVIOUS
<1>3. PICK T \in B : \A U \in B : ~ (<< U, T >> \in StrictSubsetOrdering(S))
  <2>1. B \subseteq SUBSET S
    OBVIOUS
  <2> HIDE DEF B
  <2> QED BY <1>1, <1>2, <2>1, WFMin
<1>4. \A U \in SUBSET T : U # T => U \in G
  BY <1>3 DEF StrictSubsetOrdering
<1>5. QED
  BY <1>3, <1>4

\* The first element belongs to the set.
LEMMA FirstElement == \A s : s # {} => first(s) \in s
BY DEF first

\* A fold is determined by its equation.
LEMMA SolutionUnique ==
  ASSUME NEW S, IsFiniteSet(S), NEW f, NEW i, NEW j, Solves(f, S, i), Solves(f, S, j)
  PROVE  i = j
<1> DEFINE G == { T \in SUBSET S : i[T] = j[T] }
<1>1. ASSUME NEW T \in SUBSET S, \A U \in SUBSET T : U # T => U \in G
      PROVE  T \in G
  <2>1. CASE T = {}
    BY <2>1 DEF Solves, unrolled
  <2>2. CASE T # {}
    <3>1. T \ { first(T) } \in G
      BY <1>1, <2>2, FirstElement
    <3>2. i[T] = f[first(T)] + i[T \ { first(T) }] /\ j[T] = f[first(T)] + j[T \ { first(T) }]
      BY <2>2 DEF Solves, unrolled
    <3>3. QED
      BY <3>1, <3>2
  <2>3. QED
    BY <2>1, <2>2
<1>2. SUBSET S \subseteq G
  <2> HIDE DEF G
  <2> QED BY <1>1, SubsetInduction
<1>3. QED
  BY <1>2 DEF Solves, unrolled

\* A fold over a set contains the folds over its subsets.
LEMMA SolutionRestricts ==
  ASSUME NEW S, NEW f, NEW i, Solves(f, S, i), NEW T \in SUBSET S
  PROVE  Solves(f, T, [s \in SUBSET T |-> i[s]])
<1> DEFINE j == [s \in SUBSET T |-> i[s]]
<1>1. \A s \in SUBSET T : s \ { first(s) } \in SUBSET T
  OBVIOUS
<1>2. \A s \in SUBSET T : i[s] = IF s = {} THEN 0 ELSE f[first(s)] + i[s \ { first(s) }]
  BY DEF Solves, unrolled
<1>3. \A s \in SUBSET T : j[s] = IF s = {} THEN 0 ELSE f[first(s)] + j[s \ { first(s) }]
  BY <1>1, <1>2
<1>4. QED
  BY <1>3 DEF Solves, unrolled

\* The fold over S, if there is one.
fold(f, S) == CHOOSE it : Solves(f, S, it)

\* Every finite set has a fold.
LEMMA SolutionExists ==
  ASSUME NEW S, IsFiniteSet(S), NEW f
  PROVE  Solves(f, S, fold(f, S))
<1> DEFINE G == { T \in SUBSET S : Solves(f, T, fold(f, T)) }
<1>1. ASSUME NEW T \in SUBSET S, \A U \in SUBSET T : U # T => U \in G
      PROVE  T \in G
  <2> DEFINE it == [s \in SUBSET T |-> IF s = {} THEN 0
                      ELSE f[first(s)] + fold(f, s \ { first(s) })[s \ { first(s) }]]
  <2>1. ASSUME NEW U \in SUBSET T, U # T PROVE it[U] = fold(f, U)[U]
    <3>1. Solves(f, U, fold(f, U))
      BY <1>1, <2>1
    <3>2. CASE U = {}
      BY <3>1, <3>2 DEF Solves, unrolled
    <3>3. CASE U # {}
      <4> DEFINE W == U \ { first(U) }
      <4>1. W \in SUBSET U /\ W \in SUBSET T /\ W # T /\ W \in SUBSET S
        BY <2>1, <3>3, FirstElement
      <4>2. Solves(f, W, fold(f, W))
        BY <1>1, <4>1
      <4>3. Solves(f, W, [s \in SUBSET W |-> fold(f, U)[s]])
        BY <3>1, <4>1, SolutionRestricts
      <4>4. IsFiniteSet(W)
        BY <4>1, FS_Subset
      <4>5. fold(f, W) = [s \in SUBSET W |-> fold(f, U)[s]]
        BY <4>2, <4>3, <4>4, SolutionUnique
      <4>6. fold(f, W)[W] = fold(f, U)[W]
        BY <4>5
      <4>7. fold(f, U)[U] = f[first(U)] + fold(f, U)[W]
        BY <3>1, <3>3 DEF Solves, unrolled
      <4>8. it[U] = f[first(U)] + fold(f, W)[W]
        BY <3>3
      <4>9. QED
        BY <4>6, <4>7, <4>8
    <3>4. QED
      BY <3>2, <3>3
  <2>2. \A s \in SUBSET T : s # {} =>
          /\ s \ { first(s) } \in SUBSET T
          /\ s \ { first(s) } # T
    BY FirstElement
  <2>3. it = unrolled(f, T, it)
    <3>1. \A s \in SUBSET T : it[s] = IF s = {} THEN 0 ELSE f[first(s)] + it[s \ { first(s) }]
      BY <2>1, <2>2
    <3>2. QED
      BY <3>1 DEF unrolled
  <2>4. Solves(f, T, fold(f, T))
    <3> HIDE DEF it
    <3> QED BY <2>3 DEF Solves, fold
  <2>5. QED
    BY <2>4
<1>2. SUBSET S \subseteq G
  <2> HIDE DEF G
  <2> QED BY <1>1, SubsetInduction
<1>3. QED
  BY <1>2

\* total is the value of the fold.
LEMMA TotalIsFold ==
  ASSUME NEW S, NEW f
  PROVE  total(f, S) = fold(f, S)[S]
<1>1. total(f, S) = (CHOOSE it : it = [s \in SUBSET S |->
         IF s = {} THEN 0
         ELSE f[CHOOSE x \in s : TRUE] + it[s \ { CHOOSE x \in s : TRUE }]])[S]
  BY SMT DEF total, MapThenSumSet, MapThenFoldSet
<1>2. QED
  BY <1>1 DEF fold, Solves, unrolled, first

(***************************************************************************)
(* What totals are.                                                        *)
(***************************************************************************)

\* Nothing adds up to 0; anything else to its first element and the rest.
LEMMA TotalUnrolled ==
  ASSUME NEW S, IsFiniteSet(S), NEW f
  PROVE  total(f, S) = IF S = {} THEN 0 ELSE f[first(S)] + total(f, S \ { first(S) })
<1>1. Solves(f, S, fold(f, S))
  BY SolutionExists
<1>2. CASE S = {}
  BY <1>1, <1>2, TotalIsFold DEF Solves, unrolled
<1>3. CASE S # {}
  <2> DEFINE W == S \ { first(S) }
  <2>1. Solves(f, W, [s \in SUBSET W |-> fold(f, S)[s]])
    BY <1>1, SolutionRestricts
  <2>2. IsFiniteSet(W)
    BY FS_Subset
  <2>3. Solves(f, W, fold(f, W))
    BY <2>2, SolutionExists
  <2>4. fold(f, W) = [s \in SUBSET W |-> fold(f, S)[s]]
    BY <2>1, <2>2, <2>3, SolutionUnique
  <2>5. fold(f, W)[W] = fold(f, S)[W]
    BY <2>4
  <2>6. fold(f, S)[S] = f[first(S)] + fold(f, S)[W]
    BY <1>1, <1>3 DEF Solves, unrolled
  <2>7. QED
    BY <1>3, <2>5, <2>6, TotalIsFold
<1>4. QED
  BY <1>2, <1>3

\* Whatever solves the equation of the fold has the total as its value.
LEMMA TotalOfSolution ==
  ASSUME NEW S, IsFiniteSet(S), NEW f, NEW it, Solves(f, S, it)
  PROVE  it[S] = total(f, S)
BY SolutionExists, SolutionUnique, TotalIsFold

\* The sum over no element.
LEMMA TotalEmpty == \A f : total(f, {}) = 0
BY TotalUnrolled, FS_EmptySet

\* Sums of integers are integers.
LEMMA TotalInt ==
  ASSUME NEW S, IsFiniteSet(S), NEW f, \A x \in S : f[x] \in Int
  PROVE  total(f, S) \in Int
<1> DEFINE G == { T \in SUBSET S : total(f, T) \in Int }
<1>1. ASSUME NEW T \in SUBSET S, \A U \in SUBSET T : U # T => U \in G
      PROVE  T \in G
  <2>1. IsFiniteSet(T)
    BY FS_Subset
  <2>2. total(f, T) = IF T = {} THEN 0 ELSE f[first(T)] + total(f, T \ { first(T) })
    BY <2>1, TotalUnrolled
  <2>3. T # {} => first(T) \in S /\ total(f, T \ { first(T) }) \in Int
    BY <1>1, FirstElement
  <2>4. QED
    BY <2>2, <2>3
<1>2. SUBSET S \subseteq G
  <2> HIDE DEF G
  <2> QED BY <1>1, SubsetInduction
<1>3. QED
  BY <1>2

\* A total does not fall when its terms do not; in particular it is a natural
\* number when they are.
LEMMA TotalMonotone ==
  ASSUME NEW S, IsFiniteSet(S), NEW f, NEW g,
         \A x \in S : f[x] \in Int /\ g[x] \in Int /\ f[x] <= g[x]
  PROVE  total(f, S) <= total(g, S)
<1> DEFINE G == { T \in SUBSET S : total(f, T) <= total(g, T) }
<1>1. ASSUME NEW T \in SUBSET S, \A U \in SUBSET T : U # T => U \in G
      PROVE  T \in G
  <2> DEFINE W == T \ { first(T) }
  <2>1. IsFiniteSet(T) /\ IsFiniteSet(W)
    BY FS_Subset
  <2>2. CASE T = {}
    BY <2>2, TotalEmpty
  <2>3. CASE T # {}
    <3>1. first(T) \in S /\ W \in SUBSET T /\ W # T
      BY <2>3, FirstElement
    <3>2. total(f, W) <= total(g, W)
      BY <1>1, <3>1
    <3>3. total(f, W) \in Int /\ total(g, W) \in Int
      BY <2>1, <3>1, TotalInt
    <3>4. total(f, T) = f[first(T)] + total(f, W) /\ total(g, T) = g[first(T)] + total(g, W)
      BY <2>1, <2>3, TotalUnrolled
    <3> HIDE DEF W
    <3>5. total(f, T) <= total(g, T)
      BY <3>1, <3>2, <3>3, <3>4
    <3>6. QED
      BY <3>5
  <2>4. QED
    BY <2>2, <2>3
<1>2. SUBSET S \subseteq G
  <2> HIDE DEF G
  <2> QED BY <1>1, SubsetInduction
<1>3. QED
  BY <1>2

\* A sum of zeros.
LEMMA TotalZero ==
  ASSUME NEW S, IsFiniteSet(S), NEW f, \A x \in S : f[x] = 0
  PROVE  total(f, S) = 0
<1> DEFINE G == { T \in SUBSET S : total(f, T) = 0 }
<1>1. ASSUME NEW T \in SUBSET S, \A U \in SUBSET T : U # T => U \in G
      PROVE  T \in G
  <2>1. IsFiniteSet(T)
    BY FS_Subset
  <2>2. total(f, T) = IF T = {} THEN 0 ELSE f[first(T)] + total(f, T \ { first(T) })
    BY <2>1, TotalUnrolled
  <2>3. T # {} => f[first(T)] = 0 /\ total(f, T \ { first(T) }) = 0
    BY <1>1, FirstElement
  <2>4. QED
    BY <2>2, <2>3
<1>2. SUBSET S \subseteq G
  <2> HIDE DEF G
  <2> QED BY <1>1, SubsetInduction
<1>3. QED
  BY <1>2

\* Sums of natural numbers are natural numbers.
LEMMA TotalNat ==
  ASSUME NEW S, IsFiniteSet(S), NEW f, \A x \in S : f[x] \in Nat
  PROVE  total(f, S) \in Nat
<1> DEFINE g == [x \in S |-> 0]
<1>1. total(g, S) = 0
  BY TotalZero
<1>2. total(f, S) \in Int
  BY TotalInt
<1>3. total(g, S) <= total(f, S)
  BY TotalMonotone
<1>4. QED
  BY <1>1, <1>2, <1>3

\* Equal terms have equal totals.
LEMMA TotalAgrees ==
  ASSUME NEW S, IsFiniteSet(S), NEW f, NEW g, \A x \in S : f[x] = g[x] /\ f[x] \in Int
  PROVE  total(f, S) = total(g, S)
<1>1. total(f, S) \in Int /\ total(g, S) \in Int
  BY TotalInt
<1>2. total(f, S) <= total(g, S) /\ total(g, S) <= total(f, S)
  BY TotalMonotone
<1>3. QED
  BY <1>1, <1>2

\* Any element may be taken out of a total, not just the first.
LEMMA TotalRemove ==
  ASSUME NEW S, IsFiniteSet(S), NEW f, \A x \in S : f[x] \in Int, NEW y \in S
  PROVE  total(f, S) = f[y] + total(f, S \ { y })
<1> DEFINE G == { T \in SUBSET S : \A z \in T : total(f, T) = f[z] + total(f, T \ { z }) }
<1>1. ASSUME NEW T \in SUBSET S, \A U \in SUBSET T : U # T => U \in G
      PROVE  T \in G
  <2>1. SUFFICES ASSUME NEW z \in T PROVE total(f, T) = f[z] + total(f, T \ { z })
    OBVIOUS
  <2>2. PICK e \in T : total(f, T) = f[e] + total(f, T \ { e })
    <3>1. IsFiniteSet(T) /\ T # {}
      BY FS_Subset
    <3>2. QED
      BY <3>1, FirstElement, TotalUnrolled
  <2>3. CASE e = z
    BY <2>2, <2>3
  <2>4. CASE e # z
    <3> DEFINE W == T \ { e, z }
    <3>1. T \ { e } \in G /\ T \ { z } \in G
      BY <1>1, <2>2
    <3>2. /\ total(f, T \ { e }) = f[z] + total(f, (T \ { e }) \ { z })
          /\ total(f, T \ { z }) = f[e] + total(f, (T \ { z }) \ { e })
      BY <2>1, <2>2, <2>4, <3>1
    <3>3. (T \ { e }) \ { z } = W /\ (T \ { z }) \ { e } = W
      OBVIOUS
    <3>4. total(f, W) \in Int /\ f[e] \in Int /\ f[z] \in Int
      <4>1. IsFiniteSet(W) /\ W \subseteq S
        BY FS_Subset
      <4>2. QED
        BY <4>1, TotalInt
    <3>5. total(f, T \ { e }) = f[z] + total(f, W) /\ total(f, T \ { z }) = f[e] + total(f, W)
      BY <3>2, <3>3
    <3> HIDE DEF W
    <3>6. f[e] + (f[z] + total(f, W)) = f[z] + (f[e] + total(f, W))
      BY <3>4
    <3>7. QED
      BY <2>2, <3>5, <3>6
  <2>5. QED
    BY <2>3, <2>4
<1>2. SUBSET S \subseteq G
  <2> HIDE DEF G
  <2> QED BY <1>1, SubsetInduction
<1>3. QED
  BY <1>2

\* When one term changes, the total changes by as much.
LEMMA TotalChanged ==
  ASSUME NEW S, IsFiniteSet(S), NEW f, NEW g, NEW y \in S,
         \A x \in S : f[x] \in Int /\ g[x] \in Int,
         \A x \in S \ { y } : g[x] = f[x]
  PROVE  total(g, S) = total(f, S) + (g[y] - f[y])
<1>1. IsFiniteSet(S \ { y })
  BY FS_Subset
<1>2. total(f, S \ { y }) = total(g, S \ { y }) /\ total(f, S \ { y }) \in Int
  BY <1>1, TotalAgrees, TotalInt
<1>3. total(f, S) = f[y] + total(f, S \ { y }) /\ total(g, S) = g[y] + total(g, S \ { y })
  BY TotalRemove
<1>4. QED
  BY <1>2, <1>3

\* A set of numbers within bounds has a least member.
LEMMA LeastExists ==
  ASSUME NEW n \in Nat, NEW S \in SUBSET (0..n), S # {}
  PROVE  \E m \in S : \A k \in S : m <= k
<1> DEFINE G == { T \in SUBSET (0..n) : T # {} => \E m \in T : \A k \in T : m <= k }
<1>1. ASSUME NEW T \in SUBSET (0..n), \A U \in SUBSET T : U # T => U \in G
      PROVE  T \in G
  <2>1. SUFFICES ASSUME T # {} PROVE \E m \in T : \A k \in T : m <= k
    OBVIOUS
  <2>2. PICK x \in T : TRUE
    BY <2>1
  <2> DEFINE U == T \ { x }
  <2>3. U \in G
    BY <1>1
  <2>4. CASE U = {}
    BY <2>4
  <2>5. CASE U # {}
    <3>1. PICK m \in U : \A k \in U : m <= k
      BY <2>3, <2>5
    <3>2. CASE m <= x
      BY <3>1, <3>2
    <3>3. CASE ~ (m <= x)
      <4>1. \A k \in T : x <= k
        <5>1. \A k \in T : k = x \/ k \in U
          OBVIOUS
        <5>2. \A k \in T : k \in Int
          OBVIOUS
        <5> QED BY <3>1, <3>3, <5>1, <5>2
      <4> QED BY <4>1
    <3>4. QED
      BY <3>2, <3>3
  <2>6. QED
    BY <2>4, <2>5
<1>2. IsFiniteSet(0..n)
  BY FS_Interval
<1>3. SUBSET (0..n) \subseteq G
  <2> DEFINE B == 0..n
  <2>1. IsFiniteSet(B) /\ \A T \in SUBSET B : (\A U \in SUBSET T : U # T => U \in G) => T \in G
    BY <1>1, <1>2
  <2> HIDE DEF B, G
  <2>2. SUBSET B \subseteq G
    BY <2>1, SubsetInduction
  <2> QED BY <2>2 DEF B
<1>4. QED
  BY <1>3

\* Min takes it.
LEMMA MinLeast ==
  ASSUME NEW n \in Nat, NEW S \in SUBSET (0..n), S # {}
  PROVE  Min(S) \in S /\ \A k \in S : Min(S) <= k
<1>1. \E m \in S : \A k \in S : m <= k
  BY LeastExists
<1>2. QED
  BY <1>1 DEF Min

\* Max takes the greatest, the least distance from the bound.
LEMMA MaxGreatest ==
  ASSUME NEW n \in Nat, NEW S \in SUBSET (0..n), S # {}
  PROVE  Max(S) \in S /\ \A k \in S : k <= Max(S)
<1> DEFINE T == { n - k : k \in S }
<1>1. T \in SUBSET (0..n) /\ T # {}
  <2>1. \A k \in 0..n : n - k \in 0..n
    OBVIOUS
  <2>2. \A k \in S : k \in 0..n /\ n - k \in T
    OBVIOUS
  <2>3. \E k : k \in S
    OBVIOUS
  <2>4. QED
    BY <2>1, <2>2, <2>3
<1>2. PICK m \in T : \A k \in T : m <= k
  <2> HIDE DEF T
  <2> QED BY <1>1, LeastExists
<1>3. PICK x \in S : m = n - x
  BY <1>2
<1>4. \A k \in S : k <= x
  <2>1. SUFFICES ASSUME NEW k \in S PROVE k <= x
    OBVIOUS
  <2>2. n - x <= n - k
    BY <1>2, <1>3
  <2>3. x \in 0..n /\ k \in 0..n
    BY <1>3
  <2>4. QED
    BY <2>2, <2>3
<1>5. \E y \in S : \A k \in S : y >= k
  BY <1>3, <1>4
<1>6. \A y, k \in S : (y >= k) <=> (k <= y)
  OBVIOUS
<1>7. QED
  BY <1>5, <1>6 DEF Max
=============================================================================
