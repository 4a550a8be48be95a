----------------------------- MODULE Inductions -----------------------------
(***************************************************************************)
(* Induction over the natural numbers and over the subsets of a finite     *)
(* set, and what it gives for sums of functions.  A hypothesis of          *)
(* induction is a set here, of the numbers or subsets that have the        *)
(* property: the least one that is not in it cannot exist.                 *)
(***************************************************************************)
EXTENDS Integers, FiniteSets, FiniteSetTheorems, Functions, TLAPS

\* A set of finite sets has a least one, in the order of inclusion.
LEMMA LeastSubset ==
  ASSUME NEW S, NEW F \in SUBSET FiniteSubsetsOf(S), F # {}
  PROVE  \E T \in F : \A U \in F : U \subseteq T => U = T
<1>1. F \subseteq FiniteSubsetsOf(S)
  OBVIOUS
<1>2. PICK T \in F : \A U \in F : ~ (<<U, T>> \in StrictSubsetOrdering(S))
  <2>1. IsWellFoundedOn(StrictSubsetOrdering(S), FiniteSubsetsOf(S))
    BY FS_StrictSubsetOrderingWellFounded
  <2> QED  BY <1>1, <2>1, WFMin
<1>3. \A U \in F : U \subseteq T => U = T
  BY <1>1, <1>2 DEF StrictSubsetOrdering, FiniteSubsetsOf
<1> QED  BY <1>3

\* Induction over a finite set, for a set of its subsets.
LEMMA SetInduction ==
  ASSUME NEW S, IsFiniteSet(S), NEW F,
         \A T \in SUBSET S : (\A U \in SUBSET T : U # T => U \in F) => T \in F
  PROVE  \A T \in SUBSET S : T \in F
<1> DEFINE G == { T \in SUBSET S : T \notin F }
<1> SUFFICES ASSUME G # {} PROVE FALSE
  OBVIOUS
<1>0. G \subseteq SUBSET S /\ \A T \in SUBSET S : T \in G <=> T \notin F
  OBVIOUS
<1>1. G \in SUBSET FiniteSubsetsOf(S)
  BY <1>0, FS_Subset DEF FiniteSubsetsOf
<1> HIDE DEF G
<1>2. PICK T \in G : \A U \in G : U \subseteq T => U = T
  BY <1>1, LeastSubset
<1>3. T \subseteq S /\ T \notin F
  BY <1>0
<1>4. \A U \in SUBSET T : U # T => U \in F
  BY <1>0, <1>2, <1>3
<1> QED  BY <1>3, <1>4

\* A set of natural numbers has a least one: its interval 0 .. n is the least.
LEMMA LeastNumber ==
  ASSUME NEW T, T \subseteq Nat, T # {}
  PROVE  \E n \in T : \A m \in T : n <= m
<1> DEFINE F == { 0 .. n : n \in T }
<1>1. F \subseteq SUBSET Nat /\ F # {}
  <2>1. \A n \in T : 0 .. n \subseteq Nat
    OBVIOUS
  <2>2. \E n \in T : TRUE
    OBVIOUS
  <2> QED  BY <2>1, <2>2
<1>2. F \in SUBSET FiniteSubsetsOf(Nat)
  <2>1. \A n \in T : IsFiniteSet(0 .. n)
    BY FS_Interval
  <2> QED  BY <1>1, <2>1 DEF FiniteSubsetsOf
<1> HIDE DEF F
<1>3. PICK U \in F : \A V \in F : V \subseteq U => V = U
  BY <1>1, <1>2, LeastSubset
<1>4. PICK n \in T : U = 0 .. n
  BY <1>3 DEF F
<1>5. ASSUME NEW m \in T PROVE n <= m
  <2>1. 0 .. m \in F
    BY DEF F
  <2>2. SUFFICES ASSUME m < n PROVE FALSE
    OBVIOUS
  <2>3. 0 .. m \subseteq 0 .. n /\ n \in 0 .. n /\ n \notin 0 .. m
    BY <2>2
  <2> QED  BY <1>3, <1>4, <2>1, <2>3
<1> QED  BY <1>5

\* Induction over the natural numbers, for a set of them.
LEMMA NumberInduction ==
  ASSUME NEW F, 0 \in F, \A n \in Nat : n \in F => n + 1 \in F
  PROVE  \A n \in Nat : n \in F
<1> DEFINE T == { n \in Nat : n \notin F }
<1> SUFFICES ASSUME T # {} PROVE FALSE
  OBVIOUS
<1>1. PICK n \in T : \A m \in T : n <= m
  BY LeastNumber
<1>2. n # 0 /\ n - 1 \in Nat /\ n - 1 \notin T
  BY <1>1
<1>3. n - 1 + 1 = n
  BY <1>1
<1> QED  BY <1>2, <1>3

-----------------------------------------------------------------------------
(* Sums *)

\* The element that a fold over T takes first.
Pick(T) == CHOOSE x \in T : TRUE

\* What SumFunctionOnSet computes, for every subset of S.
IsSum(iter, f, F) ==
  iter = [T \in F |-> IF T = {} THEN 0 ELSE f[Pick(T)] + iter[T \ {Pick(T)}]]

\* It is an element of T.
LEMMA PickIsElement == \A T : T # {} => Pick(T) \in T
BY DEF Pick

\* There is a function that satisfies these equations.
LEMMA SumExists ==
  ASSUME NEW S, IsFiniteSet(S), NEW f
  PROVE  \E iter : IsSum(iter, f, SUBSET S)
<1> DEFINE Upto(n) == { T \in SUBSET S : Cardinality(T) <= n }
           F == { n \in Nat : \E iter : IsSum(iter, f, Upto(n)) }
<1>1. 0 \in F
  <2> DEFINE g == [T \in Upto(0) |-> 0]
  <2>1. \A T \in Upto(0) : T = {}
    BY FS_Subset, FS_EmptySet, FS_CardinalityType
  <2>2. IsSum(g, f, Upto(0))
    BY <2>1 DEF IsSum
  <2> QED  BY <2>2
<1>2. ASSUME NEW n \in Nat, n \in F PROVE n + 1 \in F
  <2>1. PICK iter : IsSum(iter, f, Upto(n))
    BY <1>2
  <2> DEFINE g == [T \in Upto(n + 1) |->
                     IF T = {} THEN 0 ELSE f[Pick(T)] + iter[T \ {Pick(T)}]]
  <2>2. ASSUME NEW T \in Upto(n + 1), T # {}
        PROVE  T \ {Pick(T)} \in Upto(n) /\ T \ {Pick(T)} \in Upto(n + 1)
    <3>1. /\ IsFiniteSet(T) /\ Pick(T) \in T /\ T \ {Pick(T)} \subseteq S
          /\ Cardinality(T) \in Nat /\ Cardinality(T) <= n + 1
      BY <2>2, FS_Subset, FS_CardinalityType, PickIsElement
    <3>2. Cardinality(T \ {Pick(T)}) = Cardinality(T) - 1
      BY <3>1, FS_RemoveElement
    <3> QED  BY <3>1, <3>2
  <2>3. \A T \in Upto(n) : T \in Upto(n + 1) /\ g[T] = iter[T]
    <3> SUFFICES ASSUME NEW T \in Upto(n) PROVE T \in Upto(n + 1) /\ g[T] = iter[T]
      OBVIOUS
    <3>1. T \in Upto(n + 1)
      BY FS_Subset, FS_CardinalityType
    <3>2. iter[T] = IF T = {} THEN 0 ELSE f[Pick(T)] + iter[T \ {Pick(T)}]
      BY <2>1 DEF IsSum
    <3> QED  BY <3>1, <3>2
  <2>4. IsSum(g, f, Upto(n + 1))
    BY <2>2, <2>3 DEF IsSum
  <2> HIDE DEF g, Upto
  <2>5. n + 1 \in Nat /\ \E h : IsSum(h, f, Upto(n + 1))
    BY <2>4
  <2> QED  BY <2>5
<1> HIDE DEF F
<1>3. Cardinality(S) \in F
  BY <1>1, <1>2, NumberInduction, FS_CardinalityType
<1>4. Upto(Cardinality(S)) = SUBSET S
  BY FS_Subset
<1> QED  BY <1>3, <1>4 DEF F

\* SumFunctionOnSet is such a function, at S.
LEMMA SumUnfolds ==
  ASSUME NEW S, IsFiniteSet(S), NEW f
  PROVE  \E iter : IsSum(iter, f, SUBSET S) /\ SumFunctionOnSet(f, S) = iter[S]
<1> DEFINE sum[T \in SUBSET S] == IF T = {} THEN 0 ELSE f[Pick(T)] + sum[T \ {Pick(T)}]
<1>1. SumFunctionOnSet(f, S) = sum[S]
  BY DEF SumFunctionOnSet, FoldFunctionOnSet, MapThenFoldSet, Pick
<1>2. sum = CHOOSE iter : IsSum(iter, f, SUBSET S)
  BY DEF IsSum
<1>3. IsSum(sum, f, SUBSET S)
  BY <1>2, SumExists
<1> QED  BY <1>1, <1>3

\* The equations that the sums over the subsets of S satisfy.
SumsUp(iter, f, S) ==
  /\ iter[{}] = 0
  /\ \A T \in SUBSET S : T # {} => iter[T] = f[Pick(T)] + iter[T \ {Pick(T)}]

\* The same, one subset at a time.
LEMMA SumSteps ==
  ASSUME NEW S, IsFiniteSet(S), NEW f
  PROVE  \E iter : SumsUp(iter, f, S) /\ SumFunctionOnSet(f, S) = iter[S]
BY SumUnfolds DEF IsSum, SumsUp

\* Without its first element, a subset of S is a smaller one.
LEMMA PickLeaves ==
  ASSUME NEW S, NEW T \in SUBSET S, T # {}
  PROVE  /\ Pick(T) \in T /\ Pick(T) \in S
         /\ T \ {Pick(T)} \in SUBSET T /\ T \ {Pick(T)} # T
BY PickIsElement

\* Sums of integers are integers, and larger terms have larger sums.
LEMMA SumMonotone ==
  ASSUME NEW S, IsFiniteSet(S), NEW f \in [S -> Int], NEW g \in [S -> Int],
         \A x \in S : f[x] <= g[x]
  PROVE  /\ SumFunctionOnSet(f, S) \in Int /\ SumFunctionOnSet(g, S) \in Int
         /\ SumFunctionOnSet(f, S) <= SumFunctionOnSet(g, S)
<1>1. PICK i : SumsUp(i, f, S) /\ SumFunctionOnSet(f, S) = i[S]
  BY SumSteps
<1>2. PICK j : SumsUp(j, g, S) /\ SumFunctionOnSet(g, S) = j[S]
  BY SumSteps
<1> DEFINE F == { T \in SUBSET S : i[T] \in Int /\ j[T] \in Int /\ i[T] <= j[T] }
<1>3. ASSUME NEW T \in SUBSET S, \A U \in SUBSET T : U # T => U \in F
      PROVE  T \in F
  <2>1. CASE T = {}
    BY <1>1, <1>2, <2>1 DEF SumsUp
  <2>2. CASE T # {}
    <3> DEFINE x == Pick(T)
               U == T \ {x}
    <3>1. /\ x \in S /\ U \in F
          /\ i[T] = f[x] + i[U] /\ j[T] = g[x] + j[U]
      BY <1>1, <1>2, <1>3, <2>2, PickLeaves DEF SumsUp
    <3> HIDE DEF x, U
    <3>2. f[x] \in Int /\ g[x] \in Int /\ f[x] <= g[x]
      BY <3>1
    <3> QED  BY <3>1, <3>2
  <2> QED  BY <2>1, <2>2
<1> HIDE DEF F
<1>4. S \in F
  BY <1>3, SetInduction
<1> QED  BY <1>1, <1>2, <1>4 DEF F

\* The sum of sums.
LEMMA SumAdds ==
  ASSUME NEW S, IsFiniteSet(S), NEW f \in [S -> Int], NEW g \in [S -> Int],
         NEW h \in [S -> Int], \A x \in S : h[x] = f[x] + g[x]
  PROVE  SumFunctionOnSet(h, S) = SumFunctionOnSet(f, S) + SumFunctionOnSet(g, S)
<1>1. PICK i : SumsUp(i, f, S) /\ SumFunctionOnSet(f, S) = i[S]
  BY SumSteps
<1>2. PICK j : SumsUp(j, g, S) /\ SumFunctionOnSet(g, S) = j[S]
  BY SumSteps
<1>3. PICK k : SumsUp(k, h, S) /\ SumFunctionOnSet(h, S) = k[S]
  BY SumSteps
<1> DEFINE F == { T \in SUBSET S : i[T] \in Int /\ j[T] \in Int /\ k[T] = i[T] + j[T] }
<1>4. ASSUME NEW T \in SUBSET S, \A U \in SUBSET T : U # T => U \in F
      PROVE  T \in F
  <2>1. CASE T = {}
    BY <1>1, <1>2, <1>3, <2>1 DEF SumsUp
  <2>2. CASE T # {}
    <3> DEFINE x == Pick(T)
               U == T \ {x}
    <3>1. /\ x \in S /\ U \in F
          /\ i[T] = f[x] + i[U] /\ j[T] = g[x] + j[U] /\ k[T] = h[x] + k[U]
      BY <1>1, <1>2, <1>3, <1>4, <2>2, PickLeaves DEF SumsUp
    <3> HIDE DEF x, U
    <3>2. f[x] \in Int /\ g[x] \in Int /\ h[x] = f[x] + g[x]
      BY <3>1
    <3> QED  BY <3>1, <3>2
  <2> QED  BY <2>1, <2>2
<1> HIDE DEF F
<1>5. S \in F
  BY <1>4, SetInduction
<1> QED  BY <1>1, <1>2, <1>3, <1>5 DEF F

\* A sum of zeros.
LEMMA SumOfNothing ==
  ASSUME NEW S, IsFiniteSet(S)
  PROVE  SumFunctionOnSet([x \in S |-> 0], S) = 0
<1> DEFINE zero == [x \in S |-> 0]
<1>1. zero \in [S -> Int] /\ \A x \in S : zero[x] = zero[x] + zero[x] /\ zero[x] <= zero[x]
  OBVIOUS
<1> HIDE DEF zero
<1>2. SumFunctionOnSet(zero, S) = SumFunctionOnSet(zero, S) + SumFunctionOnSet(zero, S)
  BY <1>1, SumAdds
<1>3. SumFunctionOnSet(zero, S) \in Int
  BY <1>1, SumMonotone
<1>4. \A n \in Int : n = n + n => n = 0
  OBVIOUS
<1>5. SumFunctionOnSet(zero, S) = 0
  BY <1>2, <1>3, <1>4, Zenon
<1> QED  BY <1>5 DEF zero

\* A sum with one term that is not 0.
LEMMA SumOfOne ==
  ASSUME NEW S, IsFiniteSet(S), NEW p \in S, NEW c \in Int
  PROVE  SumFunctionOnSet([x \in S |-> IF x = p THEN c ELSE 0], S) = c
<1> DEFINE f == [x \in S |-> IF x = p THEN c ELSE 0]
<1>1. PICK i : SumsUp(i, f, S) /\ SumFunctionOnSet(f, S) = i[S]
  BY SumSteps
<1> DEFINE F == { T \in SUBSET S : i[T] = IF p \in T THEN c ELSE 0 }
<1>2. ASSUME NEW T \in SUBSET S, \A U \in SUBSET T : U # T => U \in F
      PROVE  T \in F
  <2>1. CASE T = {}
    BY <1>1, <2>1 DEF SumsUp
  <2>2. CASE T # {}
    <3> DEFINE x == Pick(T)
               U == T \ {x}
    <3>1. x \in T /\ U \in F /\ i[T] = f[x] + i[U]
      BY <1>1, <1>2, <2>2, PickLeaves DEF SumsUp
    <3>2. p \in U <=> p \in T /\ x # p
      OBVIOUS
    <3>3. f[x] = IF x = p THEN c ELSE 0
      BY <3>1
    <3> HIDE DEF x, U, f
    <3> QED  BY <3>1, <3>2, <3>3
  <2> QED  BY <2>1, <2>2
<1> HIDE DEF F
<1>3. S \in F
  BY <1>2, SetInduction
<1> QED  BY <1>1, <1>3 DEF F

\* A sum follows the one term that changes.
LEMMA SumFollows ==
  ASSUME NEW S, IsFiniteSet(S), NEW f \in [S -> Int], NEW g \in [S -> Int],
         NEW p \in S, \A x \in S \ {p} : g[x] = f[x]
  PROVE  SumFunctionOnSet(g, S) = SumFunctionOnSet(f, S) + (g[p] - f[p])
<1> DEFINE d == [x \in S |-> IF x = p THEN g[p] - f[p] ELSE 0]
<1>1. g[p] \in Int /\ f[p] \in Int
  OBVIOUS
<1>2. d \in [S -> Int]
  BY <1>1
<1>3. \A x \in S : g[x] = f[x] + d[x]
  BY <1>1
<1>4. SumFunctionOnSet(d, S) = g[p] - f[p]
  BY <1>1, SumOfOne
<1> HIDE DEF d
<1>5. SumFunctionOnSet(g, S) = SumFunctionOnSet(f, S) + SumFunctionOnSet(d, S)
  BY <1>2, <1>3, SumAdds
<1> QED  BY <1>4, <1>5
=============================================================================
