---------------------------- MODULE SumTheorems ----------------------------
(***************************************************************************)
(* Induction on natural numbers and the sum of a function over a finite    *)
(* set: what the community module's MapThenSumSet computes, that the order *)
(* in which it picks the elements is of no consequence, and how the sum    *)
(* changes with the function.                                              *)
(***************************************************************************)
EXTENDS Integers, FiniteSetsExt, FiniteSetTheorems, WellFoundedInduction,
        TLAPS

(***************************************************************************)
(* Induction on natural numbers, for a property given as the set of the    *)
(* numbers that have it.                                                   *)
(***************************************************************************)
\* A set that has 0 and the successor of each of its numbers has them all.
LEMMA SetInduction ==
  ASSUME NEW S, 0 \in S, \A n \in Nat : n \in S => n + 1 \in S
  PROVE  Nat \subseteq S
<1> DEFINE R == OpToRel(<, Nat)
           T == Nat \ S
<1>1. IsWellFoundedOn(R, Nat)
  BY NatLessThanWellFounded
<1>2. \A x, y \in Nat : <<y, x>> \in R <=> y < x
  BY DEF OpToRel
<1> SUFFICES ASSUME T # {}
             PROVE  FALSE
  OBVIOUS
<1>3. PICK x \in T : \A y \in T : <<y, x>> \notin R
  <2> HIDE DEF R
  <2>1. T \subseteq Nat
    OBVIOUS
  <2> HIDE DEF T
  <2> QED
    BY <1>1, <2>1, WFMin
<1>4. x \in Nat /\ x - 1 \in Nat /\ x - 1 < x
  OBVIOUS
<1>5. x - 1 \in S
  <2>1. <<x - 1, x>> \in R
    BY <1>2, <1>4
  <2> HIDE DEF R
  <2> QED
    BY <1>3, <1>4, <2>1
<1>6. (x - 1) + 1 \in S
  BY <1>4, <1>5
<1> QED
  BY <1>4, <1>6

-----------------------------------------------------------------------------
(***************************************************************************)
(* The recursion behind the sum, on the subsets of a set.                  *)
(***************************************************************************)
\* The sum of w over S.
SumOf(w, S) == MapThenSumSet(LAMBDA x : w[x], S)

Pick(s) == CHOOSE x \in s : TRUE
SumStep(w, f, s) == IF s = {} THEN 0 ELSE w[Pick(s)] + f[s \ {Pick(s)}]
IsSum(w, f, D) == f = [s \in D |-> SumStep(w, f, s)]
Sums(w, S) == CHOOSE f : IsSum(w, f, SUBSET S)

\* The subsets of S that have n elements at most.
UpTo(S, n) == {s \in SUBSET S : Cardinality(s) <= n}

\* MapThenSumSet is the sum, read at the whole set.
LEMMA SumIsFold ==
  ASSUME NEW w, NEW S
  PROVE  SumOf(w, S) = Sums(w, S)[S]
BY DEF SumOf, MapThenSumSet, MapThenFoldSet, Sums, IsSum, SumStep, Pick

\* Taking an element away from a finite set leaves one less.
LEMMA OneLess ==
  ASSUME NEW S, IsFiniteSet(S), NEW s \in SUBSET S, NEW n \in Nat,
         Cardinality(s) <= n + 1, NEW x \in s
  PROVE  /\ s \ {x} \in SUBSET S
         /\ Cardinality(s \ {x}) <= n
<1>1. IsFiniteSet(s) /\ Cardinality(s) \in Nat
  BY FS_Subset, FS_CardinalityType
<1>2. Cardinality(s \ {x}) = Cardinality(s) - 1
  BY <1>1, FS_RemoveElement
<1> QED
  BY <1>1, <1>2

\* A set of at most no elements is empty.
LEMMA EmptyUpTo ==
  ASSUME NEW S, IsFiniteSet(S), NEW s \in SUBSET S, Cardinality(s) <= 0
  PROVE  s = {}
<1>1. IsFiniteSet(s) /\ Cardinality(s) \in Nat
  BY FS_Subset, FS_CardinalityType
<1>2. Cardinality(s) = 0
  BY <1>1
<1> QED
  BY <1>1, <1>2, FS_EmptySet

\* The sum over the subsets of a finite set exists.
LEMMA SumExists ==
  ASSUME NEW w, NEW S, IsFiniteSet(S)
  PROVE  IsSum(w, Sums(w, S), SUBSET S)
<1> DEFINE Good == {n \in Nat : \E f : IsSum(w, f, UpTo(S, n))}
<1>1. 0 \in Good
  <2> DEFINE f == [s \in UpTo(S, 0) |-> 0]
  <2>1. \A s \in UpTo(S, 0) : s = {}
    BY EmptyUpTo DEF UpTo
  <2>2. IsSum(w, f, UpTo(S, 0))
    BY <2>1 DEF IsSum, SumStep
  <2> QED
    BY <2>2
<1>2. ASSUME NEW n \in Nat, n \in Good
      PROVE  n + 1 \in Good
  <2>1. PICK f : IsSum(w, f, UpTo(S, n))
    BY <1>2
  <2> DEFINE g == [s \in UpTo(S, n + 1) |-> SumStep(w, f, s)]
  <2>2. ASSUME NEW s \in UpTo(S, n + 1)
        PROVE  SumStep(w, f, s) = SumStep(w, g, s)
    <3>1. CASE s = {}
      BY <3>1 DEF SumStep
    <3>2. CASE s # {}
      <4> DEFINE t == s \ {Pick(s)}
      <4>1. Pick(s) \in s
        BY <3>2 DEF Pick
      <4>2. t \in UpTo(S, n)
        BY <4>1, OneLess DEF UpTo
      <4>3. t \in UpTo(S, n + 1)
        <5>1. IsFiniteSet(t) /\ Cardinality(t) \in Nat
          BY <4>2, FS_Subset, FS_CardinalityType DEF UpTo
        <5> QED
          BY <4>2, <5>1 DEF UpTo
      <4>4. f[t] = SumStep(w, f, t)
        BY <2>1, <4>2 DEF IsSum
      <4>5. g[t] = f[t]
        BY <4>3, <4>4
      <4> HIDE DEF g
      <4> QED
        BY <3>2, <4>5 DEF SumStep
    <3> QED
      BY <3>1, <3>2
  <2>3. IsSum(w, g, UpTo(S, n + 1))
    <3>1. g = [s \in UpTo(S, n + 1) |-> SumStep(w, g, s)]
      <4>1. g = [s \in UpTo(S, n + 1) |-> SumStep(w, f, s)]
        OBVIOUS
      <4> HIDE DEF g
      <4> QED
        BY <2>2, <4>1
    <3> QED
      BY <3>1 DEF IsSum
  <2> QED
    BY <2>3
<1>3. Cardinality(S) \in Good
  <2> HIDE DEF Good
  <2> QED
    BY <1>1, <1>2, SetInduction, FS_CardinalityType
<1>4. UpTo(S, Cardinality(S)) = SUBSET S
  BY FS_Subset DEF UpTo
<1>5. \E f : IsSum(w, f, SUBSET S)
  BY <1>3, <1>4
<1> QED
  BY <1>5 DEF Sums

\* The sum over a set is that over the others and the weight of any one of
\* its elements.
LEMMA SumAnyOrder ==
  ASSUME NEW w, NEW S, IsFiniteSet(S), \A x \in S : w[x] \in Nat,
         NEW f, IsSum(w, f, SUBSET S), NEW s \in SUBSET S
  PROVE  /\ f[s] \in Nat
         /\ \A x \in s : f[s] = w[x] + f[s \ {x}]
<1> DEFINE Right(r) == /\ f[r] \in Nat
                       /\ \A x \in r : f[r] = w[x] + f[r \ {x}]
           Good == {n \in Nat : \A r \in UpTo(S, n) : Right(r)}
<1>0. \A r \in SUBSET S : f[r] = SumStep(w, f, r)
  BY DEF IsSum
<1>1. 0 \in Good
  <2>1. \A r \in UpTo(S, 0) : r = {}
    BY EmptyUpTo DEF UpTo
  <2>2. f[{}] = 0
    BY <1>0 DEF SumStep
  <2>3. Right({})
    BY <2>2
  <2> QED
    BY <2>1, <2>3
<1>2. ASSUME NEW n \in Nat, n \in Good
      PROVE  n + 1 \in Good
  <2> SUFFICES ASSUME NEW r \in UpTo(S, n + 1)
               PROVE  Right(r)
    OBVIOUS
  <2>1. CASE r = {}
    <3>1. f[{}] = 0
      BY <1>0 DEF SumStep
    <3> QED
      BY <2>1, <3>1
  <2>2. CASE r # {}
    <3> DEFINE y == Pick(r)
    <3>1. y \in r /\ r \in SUBSET S
      BY <2>2 DEF Pick, UpTo
    <3>2. \A x \in r : r \ {x} \in UpTo(S, n)
      BY OneLess DEF UpTo
    <3>3. \A x \in r : Right(r \ {x})
      BY <1>2, <3>2
    <3>4. f[r] = w[y] + f[r \ {y}]
      BY <1>0, <2>2, <3>1 DEF SumStep
    <3>5. \A x \in r : w[x] \in Nat
      BY <3>1
    <3> HIDE DEF y
    <3>6. f[r] \in Nat
      <4>1. w[y] \in Nat /\ f[r \ {y}] \in Nat
        BY <3>1, <3>3, <3>5
      <4> QED
        BY <3>4, <4>1
    <3>7. ASSUME NEW x \in r, x # y
          PROVE  f[r] = w[x] + f[r \ {x}]
      <4> DEFINE t == r \ {x, y}
      <4>1. (r \ {y}) \ {x} = t /\ (r \ {x}) \ {y} = t
        OBVIOUS
      <4>2. f[r \ {y}] = w[x] + f[t]
        BY <3>1, <3>3, <3>7, <4>1
      <4>3. f[r \ {x}] = w[y] + f[t]
        BY <3>1, <3>3, <3>7, <4>1
      <4>4. f[t] \in Nat
        <5>1. r \ {x} \in UpTo(S, n) /\ y \in r \ {x}
          BY <3>1, <3>2, <3>7
        <5>2. t \in UpTo(S, n)
          <6>1. IsFiniteSet(r \ {x}) /\ Cardinality(r \ {x}) \in Nat
            BY <5>1, FS_Subset, FS_CardinalityType DEF UpTo
          <6>2. Cardinality((r \ {x}) \ {y}) = Cardinality(r \ {x}) - 1
            BY <5>1, <6>1, FS_RemoveElement
          <6>3. t \in SUBSET S
            BY <5>1 DEF UpTo
          <6>4. Cardinality(t) = Cardinality(r \ {x}) - 1
            BY <4>1, <6>2
          <6>5. Cardinality(r \ {x}) <= n
            BY <5>1 DEF UpTo
          <6> HIDE DEF t
          <6> QED
            BY <6>1, <6>3, <6>4, <6>5 DEF UpTo
        <5> QED
          BY <1>2, <5>2
      <4> HIDE DEF t
      <4> QED
        BY <3>1, <3>4, <3>5, <4>2, <4>3, <4>4
    <3> QED
      BY <3>4, <3>6, <3>7
  <2> QED
    BY <2>1, <2>2
<1>3. Cardinality(S) \in Good
  <2> HIDE DEF Good
  <2> QED
    BY <1>1, <1>2, SetInduction, FS_CardinalityType
<1>4. s \in UpTo(S, Cardinality(S))
  BY FS_Subset DEF UpTo
<1> QED
  BY <1>3, <1>4

\* The sum over a set depends on the weights of its elements alone.
LEMMA SumsAgree ==
  ASSUME NEW v, NEW w, NEW S, IsFiniteSet(S), NEW T, IsFiniteSet(T),
         NEW s \in SUBSET S, s \in SUBSET T, \A x \in s : v[x] = w[x]
  PROVE  Sums(v, S)[s] = Sums(w, T)[s]
<1> DEFINE f == Sums(v, S)
           g == Sums(w, T)
           Good == {n \in Nat : \A r \in UpTo(S, n) :
                                  r \in SUBSET s => f[r] = g[r]}
<1>0. /\ \A r \in SUBSET S : f[r] = SumStep(v, f, r)
      /\ \A r \in SUBSET T : g[r] = SumStep(w, g, r)
  <2>1. IsSum(v, f, SUBSET S) /\ IsSum(w, g, SUBSET T)
    BY SumExists
  <2> HIDE DEF f, g
  <2> QED
    BY <2>1 DEF IsSum
<1> HIDE DEF f, g
<1>1. 0 \in Good
  <2>1. \A r \in UpTo(S, 0) : r = {}
    BY EmptyUpTo DEF UpTo
  <2>2. f[{}] = 0 /\ g[{}] = 0
    BY <1>0 DEF SumStep
  <2> QED
    BY <2>1, <2>2
<1>2. ASSUME NEW n \in Nat, n \in Good
      PROVE  n + 1 \in Good
  <2> SUFFICES ASSUME NEW r \in UpTo(S, n + 1), r \in SUBSET s
               PROVE  f[r] = g[r]
    OBVIOUS
  <2>1. r \in SUBSET S
    BY DEF UpTo
  <2>2. SumStep(v, f, r) = SumStep(w, g, r)
    <3>1. CASE r = {}
      BY <3>1 DEF SumStep
    <3>2. CASE r # {}
      <4>1. Pick(r) \in r
        BY <3>2 DEF Pick
      <4>2. r \ {Pick(r)} \in UpTo(S, n)
        BY <4>1, OneLess DEF UpTo
      <4>3. f[r \ {Pick(r)}] = g[r \ {Pick(r)}]
        BY <1>2, <4>2
      <4>4. v[Pick(r)] = w[Pick(r)]
        BY <4>1
      <4> QED
        BY <3>2, <4>3, <4>4 DEF SumStep
    <3> QED
      BY <3>1, <3>2
  <2> QED
    BY <1>0, <2>1, <2>2
<1>3. Cardinality(S) \in Good
  <2> HIDE DEF Good
  <2> QED
    BY <1>1, <1>2, SetInduction, FS_CardinalityType
<1>4. s \in UpTo(S, Cardinality(S))
  BY FS_Subset DEF UpTo
<1>5. f[s] = g[s]
  BY <1>3, <1>4
<1> QED
  BY <1>5 DEF f, g

-----------------------------------------------------------------------------
(***************************************************************************)
(* What the sum is, and how it changes with the function.                  *)
(***************************************************************************)
\* Nothing to add up.
LEMMA SumEmpty ==
  ASSUME NEW w
  PROVE  SumOf(w, {}) = 0
<1>1. SumOf(w, {}) = Sums(w, {})[{}] /\ IsSum(w, Sums(w, {}), SUBSET {})
  BY FS_EmptySet, SumExists, SumIsFold
<1> QED
  BY <1>1 DEF IsSum, SumStep

\* The functions that agree on the set have the same sum.
LEMMA SumSame ==
  ASSUME NEW v, NEW w, NEW S, IsFiniteSet(S), \A x \in S : v[x] = w[x]
  PROVE  SumOf(v, S) = SumOf(w, S)
BY SumIsFold, SumsAgree

\* One of the elements is added to the others.
LEMMA SumTake ==
  ASSUME NEW w, NEW S, IsFiniteSet(S), \A x \in S : w[x] \in Nat
  PROVE  /\ SumOf(w, S) \in Nat
         /\ \A x \in S : SumOf(w, S) = w[x] + SumOf(w, S \ {x})
<1> DEFINE f == Sums(w, S)
<1>1. /\ IsSum(w, f, SUBSET S)
      /\ SumOf(w, S) = f[S]
  BY SumExists, SumIsFold
<1>2. \A r \in SUBSET S : SumOf(w, r) = f[r]
  <2> SUFFICES ASSUME NEW r \in SUBSET S
               PROVE  SumOf(w, r) = f[r]
    OBVIOUS
  <2>1. IsFiniteSet(r) /\ SumOf(w, r) = Sums(w, r)[r]
    BY FS_Subset, SumIsFold
  <2>2. r \in SUBSET r
    OBVIOUS
  <2> QED
    BY <2>1, <2>2, SumsAgree
<1> HIDE DEF f
<1>3. /\ f[S] \in Nat
      /\ \A x \in S : f[S] = w[x] + f[S \ {x}]
  <2>1. S \in SUBSET S
    OBVIOUS
  <2> QED
    BY <1>1, <2>1, SumAnyOrder
<1> QED
  BY <1>1, <1>2, <1>3

\* When the function changes at one element, the sum changes as much.
LEMMA SumChange ==
  ASSUME NEW v, NEW w, NEW S, IsFiniteSet(S), NEW x \in S,
         \A y \in S : v[y] \in Nat /\ w[y] \in Nat,
         \A y \in S \ {x} : v[y] = w[y]
  PROVE  SumOf(v, S) + w[x] = SumOf(w, S) + v[x]
<1>1. SumOf(v, S) = v[x] + SumOf(v, S \ {x})
  BY SumTake
<1>2. SumOf(w, S) = w[x] + SumOf(w, S \ {x})
  BY SumTake
<1>3. IsFiniteSet(S \ {x})
  BY FS_Subset
<1>4. SumOf(v, S \ {x}) = SumOf(w, S \ {x})
  BY <1>3, SumSame
<1>5. SumOf(v, S \ {x}) \in Nat /\ v[x] \in Nat /\ w[x] \in Nat
  BY <1>3, SumTake
<1> QED
  BY <1>1, <1>2, <1>4, <1>5

\* The sum is monotone in the function.
LEMMA SumAtMost ==
  ASSUME NEW v, NEW w, NEW S, IsFiniteSet(S),
         \A x \in S : v[x] \in Nat /\ w[x] \in Nat /\ v[x] <= w[x]
  PROVE  SumOf(v, S) <= SumOf(w, S)
<1> DEFINE Good == {n \in Nat : \A r \in UpTo(S, n) :
                                 SumOf(v, r) <= SumOf(w, r)}
<1>1. 0 \in Good
  <2>1. \A r \in UpTo(S, 0) : r = {}
    BY EmptyUpTo DEF UpTo
  <2>2. SumOf(v, {}) <= SumOf(w, {})
    BY SumEmpty
  <2> QED
    BY <2>1, <2>2
<1>2. ASSUME NEW n \in Nat, n \in Good
      PROVE  n + 1 \in Good
  <2> SUFFICES ASSUME NEW r \in UpTo(S, n + 1)
               PROVE  SumOf(v, r) <= SumOf(w, r)
    OBVIOUS
  <2>1. CASE r = {}
    <3>1. SumOf(v, {}) <= SumOf(w, {})
      BY SumEmpty
    <3> QED
      BY <2>1, <3>1
  <2>2. CASE r # {}
    <3>1. PICK x \in r : TRUE
      BY <2>2
    <3>2. /\ r \in SUBSET S /\ IsFiniteSet(r)
          /\ r \ {x} \in UpTo(S, n) /\ IsFiniteSet(r \ {x})
      BY <3>1, OneLess, FS_Subset DEF UpTo
    <3>3. /\ SumOf(v, r) = v[x] + SumOf(v, r \ {x})
          /\ SumOf(w, r) = w[x] + SumOf(w, r \ {x})
          /\ SumOf(v, r \ {x}) \in Nat /\ SumOf(w, r \ {x}) \in Nat
      <4>1. \A y \in r : v[y] \in Nat /\ w[y] \in Nat
        BY <3>2
      <4>2. \A y \in r \ {x} : v[y] \in Nat /\ w[y] \in Nat
        BY <4>1
      <4>3. SumOf(v, r) = v[x] + SumOf(v, r \ {x})
        BY <3>1, <3>2, <4>1, SumTake
      <4>4. SumOf(w, r) = w[x] + SumOf(w, r \ {x})
        BY <3>1, <3>2, <4>1, SumTake
      <4>5. SumOf(v, r \ {x}) \in Nat /\ SumOf(w, r \ {x}) \in Nat
        BY <3>2, <4>2, SumTake
      <4> QED
        BY <4>3, <4>4, <4>5
    <3>4. SumOf(v, r \ {x}) <= SumOf(w, r \ {x})
      BY <1>2, <3>2
    <3>5. v[x] \in Nat /\ w[x] \in Nat /\ v[x] <= w[x]
      BY <3>1, <3>2
    <3> QED
      BY <3>3, <3>4, <3>5
  <2> QED
    BY <2>1, <2>2
<1>3. Cardinality(S) \in Good
  <2> HIDE DEF Good
  <2> QED
    BY <1>1, <1>2, SetInduction, FS_CardinalityType
<1>4. S \in UpTo(S, Cardinality(S))
  BY FS_CardinalityType DEF UpTo
<1> QED
  BY <1>3, <1>4

\* Zeros add up to zero.
LEMMA SumOfZero ==
  ASSUME NEW w, NEW S, IsFiniteSet(S), \A x \in S : w[x] = 0
  PROVE  SumOf(w, S) = 0
<1> DEFINE Good == {n \in Nat : \A r \in UpTo(S, n) : SumOf(w, r) = 0}
<1>1. 0 \in Good
  <2>1. \A r \in UpTo(S, 0) : r = {}
    BY EmptyUpTo DEF UpTo
  <2> QED
    BY <2>1, SumEmpty
<1>2. ASSUME NEW n \in Nat, n \in Good
      PROVE  n + 1 \in Good
  <2> SUFFICES ASSUME NEW r \in UpTo(S, n + 1)
               PROVE  SumOf(w, r) = 0
    OBVIOUS
  <2>1. CASE r = {}
    BY <2>1, SumEmpty
  <2>2. CASE r # {}
    <3>1. PICK x \in r : TRUE
      BY <2>2
    <3>2. /\ r \in SUBSET S /\ IsFiniteSet(r) /\ r \ {x} \in UpTo(S, n)
      BY <3>1, OneLess, FS_Subset DEF UpTo
    <3>3. SumOf(w, r) = w[x] + SumOf(w, r \ {x})
      BY <3>1, <3>2, SumTake
    <3>4. w[x] = 0 /\ SumOf(w, r \ {x}) = 0
      BY <1>2, <3>1, <3>2
    <3> QED
      BY <3>3, <3>4
  <2> QED
    BY <2>1, <2>2
<1>3. Cardinality(S) \in Good
  <2> HIDE DEF Good
  <2> QED
    BY <1>1, <1>2, SetInduction, FS_CardinalityType
<1>4. S \in UpTo(S, Cardinality(S))
  BY FS_CardinalityType DEF UpTo
<1> QED
  BY <1>3, <1>4
=============================================================================
