---------------------------- MODULE FoldTheorems ----------------------------
(***************************************************************************)
(* Facts about finite sets of integers that the proofs share.              *)
(*                                                                         *)
(* SumFunctionOnSet (of the community module Functions), which the models  *)
(* compare their running totals with, does not depend on the order its     *)
(* definition picks the elements in: one element more or less, or one      *)
(* value changed, changes the sum by just that.  Max and Min (of           *)
(* FiniteSetsExt) are the greatest and the least element.                  *)
(*                                                                         *)
(* Induction is over sets of subsets: SubsetInduction takes the set Good   *)
(* of the subsets a fact holds for, which is a value and not an operator.  *)
(***************************************************************************)
EXTENDS Integers, FiniteSetsExt, FiniteSetTheorems, TLAPS

\* A set of subsets of a finite set that has every subset all of whose proper
\* subsets it has, has all of them.
LEMMA SubsetInduction ==
    ASSUME NEW S, IsFiniteSet(S), NEW Good,
           \A T \in SUBSET S : (\A U \in SUBSET T : U # T => U \in Good) => T \in Good
    PROVE  \A T \in SUBSET S : T \in Good
<1> DEFINE R == StrictSubsetOrdering(S)
           Bad == {T \in SUBSET S : T \notin Good}
<1> SUFFICES ASSUME Bad # {} PROVE FALSE
    OBVIOUS
<1>1. IsWellFoundedOn(R, SUBSET S)
  <2>1. IsWellFoundedOn(R, FiniteSubsetsOf(S))
    BY FS_StrictSubsetOrderingWellFounded
  <2>2. FiniteSubsetsOf(S) = SUBSET S
    BY FS_FiniteSubsetsOfFinite
  <2> QED BY <2>1, <2>2
<1>2. Bad \subseteq SUBSET S
    OBVIOUS
<1>3. PICK T \in Bad : \A U \in Bad : ~(<<U, T>> \in R)
  <2> HIDE DEF Bad, R
  <2> QED BY <1>1, <1>2, WFMin
<1>4. ASSUME NEW U \in SUBSET T, U # T PROVE U \in Good
  <2>1. U \in SUBSET S /\ T \in SUBSET S
    BY <1>3
  <2>2. <<U, T>> \in R
    BY <1>4, <2>1 DEF StrictSubsetOrdering
  <2> QED BY <1>3, <2>1, <2>2
<1> QED BY <1>3, <1>4

-----------------------------------------------------------------------------
\* The element the fold takes first, and one unfolding of its recursion.
Pick(s) == CHOOSE x \in s : TRUE
Fold(f, g, s) == IF s = {} THEN 0 ELSE f[Pick(s)] + g[s \ {Pick(s)}]
IsFold(f, g, S) == g = [s \in SUBSET S |-> Fold(f, g, s)]

LEMMA SumUnfold ==
    ASSUME NEW f, NEW S
    PROVE  SumFunctionOnSet(f, S) = (CHOOSE g : IsFold(f, g, S))[S]
BY DEF SumFunctionOnSet, FoldFunctionOnSet, MapThenFoldSet, IsFold, Fold, Pick

LEMMA PickIn ==
    ASSUME NEW s, s # {}
    PROVE  Pick(s) \in s
BY DEF Pick

\* The recursion holds for the sum itself.
LEMMA SumRecursion ==
    ASSUME NEW f, NEW S, IsFiniteSet(S)
    PROVE  \A s \in SUBSET S :
              SumFunctionOnSet(f, s) =
                  IF s = {} THEN 0
                  ELSE f[Pick(s)] + SumFunctionOnSet(f, s \ {Pick(s)})
<1> DEFINE Sum(s) == SumFunctionOnSet(f, s)
           Rec(s) == Sum(s) = IF s = {} THEN 0 ELSE f[Pick(s)] + Sum(s \ {Pick(s)})
           Good == {s \in SUBSET S : Rec(s)}
<1> HIDE DEF Sum
<1>1. ASSUME NEW T \in SUBSET S, \A U \in SUBSET T : U # T => U \in Good
      PROVE  T \in Good
  <2> DEFINE r == IF T = {} THEN 0 ELSE f[Pick(T)] + Sum(T \ {Pick(T)})
             g0 == [s \in SUBSET T |-> IF s = T THEN r ELSE Sum(s)]
             g == CHOOSE h : IsFold(f, h, T)
  <2>1. IsFold(f, g0, T)
    <3>1. ASSUME NEW s \in SUBSET T PROVE g0[s] = Fold(f, g0, s)
      <4>1. CASE s = {}
        <5>1. CASE s = T
          BY <4>1, <5>1 DEF Fold
        <5>2. CASE s # T
          <6>1. Rec(s)
            BY <1>1, <5>2
          <6> QED BY <4>1, <5>2, <6>1 DEF Fold
        <5> QED BY <5>1, <5>2
      <4>2. CASE s # {}
        <5>1. Pick(s) \in s
          BY <4>2, PickIn
        <5>2. s \ {Pick(s)} \in SUBSET T /\ s \ {Pick(s)} # T
          BY <5>1
        <5>3. g0[s \ {Pick(s)}] = Sum(s \ {Pick(s)})
          BY <5>2
        <5>4. g0[s] = f[Pick(s)] + Sum(s \ {Pick(s)})
          <6>1. CASE s = T
            BY <4>2, <6>1
          <6>2. CASE s # T
            <7>1. Rec(s)
              BY <1>1, <6>2
            <7> QED BY <4>2, <6>2, <7>1
          <6> QED BY <6>1, <6>2
        <5> HIDE DEF g0
        <5> QED BY <4>2, <5>3, <5>4 DEF Fold
      <4> QED BY <4>1, <4>2
    <3>2. g0 = [s \in SUBSET T |-> g0[s]]
      OBVIOUS
    <3> HIDE DEF g0
    <3>3. [s \in SUBSET T |-> g0[s]] = [s \in SUBSET T |-> Fold(f, g0, s)]
      BY <3>1
    <3> QED BY <3>2, <3>3 DEF IsFold
  <2>2. IsFold(f, g, T)
    BY <2>1, Zenon
  <2> HIDE DEF g, g0
  <2>3. \A s \in SUBSET T : g[s] = Fold(f, g, s)
    BY <2>2 DEF IsFold
  <2>4. \A s \in SUBSET T : s # T => g[s] = Sum(s)
    <3> DEFINE Same == {s \in SUBSET T : s # T => g[s] = Sum(s)}
    <3>1. ASSUME NEW s \in SUBSET T, \A U \in SUBSET s : U # s => U \in Same
          PROVE  s \in Same
      <4> SUFFICES ASSUME s # T PROVE g[s] = Sum(s)
        OBVIOUS
      <4>1. Rec(s)
        BY <1>1
      <4>2. g[s] = Fold(f, g, s)
        BY <2>3
      <4>3. CASE s = {}
        BY <4>1, <4>2, <4>3 DEF Fold
      <4>4. CASE s # {}
        <5>1. Pick(s) \in s
          BY <4>4, PickIn
        <5>2. s \ {Pick(s)} \in Same /\ s \ {Pick(s)} # T
          BY <3>1, <5>1
        <5>3. g[s \ {Pick(s)}] = Sum(s \ {Pick(s)})
          BY <5>2
        <5> QED BY <4>1, <4>2, <4>4, <5>3 DEF Fold
      <4> QED BY <4>3, <4>4
    <3>2. IsFiniteSet(T)
      BY FS_Subset
    <3> HIDE DEF Same
    <3>3. \A s \in SUBSET T : s \in Same
      BY <3>1, <3>2, SubsetInduction
    <3> QED BY <3>3 DEF Same
  <2>5. Sum(T) = g[T]
    BY SumUnfold DEF Sum, g
  <2>6. Rec(T)
    <3>1. CASE T = {}
      BY <2>3, <2>5, <3>1 DEF Fold
    <3>2. CASE T # {}
      <4>1. Pick(T) \in T
        BY <3>2, PickIn
      <4>2. g[T \ {Pick(T)}] = Sum(T \ {Pick(T)})
        BY <2>4, <4>1
      <4>3. g[T] = f[Pick(T)] + g[T \ {Pick(T)}]
        BY <2>3, <3>2 DEF Fold
      <4> QED BY <2>5, <3>2, <4>2, <4>3
    <3> QED BY <3>1, <3>2
  <2> QED BY <2>6
<1> HIDE DEF Good
<1>2. \A s \in SUBSET S : s \in Good
  BY <1>1, SubsetInduction
<1> QED BY <1>2 DEF Good, Sum

LEMMA SumEmpty ==
    ASSUME NEW f
    PROVE  SumFunctionOnSet(f, {}) = 0
BY SumRecursion, FS_EmptySet

LEMMA SumType ==
    ASSUME NEW S, IsFiniteSet(S), NEW f, \A x \in S : f[x] \in Int
    PROVE  SumFunctionOnSet(f, S) \in Int
<1> DEFINE Good == {s \in SUBSET S : SumFunctionOnSet(f, s) \in Int}
<1>1. ASSUME NEW T \in SUBSET S, \A U \in SUBSET T : U # T => U \in Good
      PROVE  T \in Good
  <2>1. CASE T = {}
    BY <2>1, SumEmpty
  <2>2. CASE T # {}
    <3>1. Pick(T) \in T
      BY <2>2, PickIn
    <3>2. SumFunctionOnSet(f, T \ {Pick(T)}) \in Int
      BY <1>1, <3>1
    <3>3. SumFunctionOnSet(f, T) = f[Pick(T)] + SumFunctionOnSet(f, T \ {Pick(T)})
      BY <2>2, SumRecursion
    <3> QED BY <3>1, <3>2, <3>3
  <2> QED BY <2>1, <2>2
<1> HIDE DEF Good
<1>2. \A s \in SUBSET S : s \in Good
  BY <1>1, SubsetInduction
<1> QED BY <1>2 DEF Good

\* The element a sum is split at may be any.
LEMMA SumRemove ==
    ASSUME NEW S, IsFiniteSet(S), NEW f, \A x \in S : f[x] \in Int, NEW y \in S
    PROVE  SumFunctionOnSet(f, S) = f[y] + SumFunctionOnSet(f, S \ {y})
<1> DEFINE Sum(s) == SumFunctionOnSet(f, s)
           Good == {s \in SUBSET S : \A x \in s : Sum(s) = f[x] + Sum(s \ {x})}
<1>0. \A s \in SUBSET S : Sum(s) \in Int
  BY SumType, FS_Subset
<1>r. \A s \in SUBSET S : s # {} => Sum(s) = f[Pick(s)] + Sum(s \ {Pick(s)})
  BY SumRecursion
<1> HIDE DEF Sum
<1>1. ASSUME NEW T \in SUBSET S, \A U \in SUBSET T : U # T => U \in Good
      PROVE  T \in Good
  <2> SUFFICES ASSUME NEW x \in T PROVE Sum(T) = f[x] + Sum(T \ {x})
    OBVIOUS
  <2> DEFINE p == Pick(T)
  <2>1. p \in T /\ Sum(T) = f[p] + Sum(T \ {p})
    BY <1>r, PickIn
  <2> HIDE DEF p
  <2>2. CASE x = p
    BY <2>1, <2>2
  <2>3. CASE x # p
    <3>1. T \ {p} \in Good /\ x \in T \ {p}
      BY <1>1, <2>1, <2>3
    <3>2. Sum(T \ {p}) = f[x] + Sum((T \ {p}) \ {x})
      BY <3>1
    <3>3. T \ {x} \in Good /\ p \in T \ {x}
      BY <1>1, <2>1, <2>3
    <3>4. Sum(T \ {x}) = f[p] + Sum((T \ {x}) \ {p})
      BY <3>3
    <3>5. (T \ {p}) \ {x} = (T \ {x}) \ {p}
      OBVIOUS
    <3>6. /\ f[x] \in Int /\ f[p] \in Int /\ Sum((T \ {x}) \ {p}) \in Int
          /\ Sum(T \ {x}) \in Int /\ Sum(T \ {p}) \in Int
      BY <1>0, <2>1
    <3>7. Sum(T \ {p}) = f[x] + Sum((T \ {x}) \ {p})
      BY <3>2, <3>5
    <3> QED BY <2>1, <3>4, <3>6, <3>7
  <2> QED BY <2>2, <2>3
<1> HIDE DEF Good
<1>2. \A s \in SUBSET S : s \in Good
  BY <1>1, SubsetInduction
<1> QED BY <1>2 DEF Good, Sum

LEMMA SumAdd ==
    ASSUME NEW S, IsFiniteSet(S), NEW f, NEW y, y \notin S,
           \A x \in S \cup {y} : f[x] \in Int
    PROVE  SumFunctionOnSet(f, S \cup {y}) = f[y] + SumFunctionOnSet(f, S)
<1>1. IsFiniteSet(S \cup {y})
  BY FS_AddElement
<1>2. (S \cup {y}) \ {y} = S
  OBVIOUS
<1>3. SumFunctionOnSet(f, S \cup {y}) = f[y] + SumFunctionOnSet(f, (S \cup {y}) \ {y})
  BY <1>1, SumRemove
<1> QED BY <1>2, <1>3

\* Only the values on the set count.
LEMMA SumSame ==
    ASSUME NEW S, IsFiniteSet(S), NEW f, NEW g, \A x \in S : f[x] = g[x]
    PROVE  SumFunctionOnSet(f, S) = SumFunctionOnSet(g, S)
<1> DEFINE Good == {s \in SUBSET S : SumFunctionOnSet(f, s) = SumFunctionOnSet(g, s)}
<1>1. ASSUME NEW T \in SUBSET S, \A U \in SUBSET T : U # T => U \in Good
      PROVE  T \in Good
  <2>1. CASE T = {}
    BY <2>1, SumEmpty
  <2>2. CASE T # {}
    <3>1. Pick(T) \in T
      BY <2>2, PickIn
    <3>2. SumFunctionOnSet(f, T \ {Pick(T)}) = SumFunctionOnSet(g, T \ {Pick(T)})
      BY <1>1, <3>1
    <3>3. /\ SumFunctionOnSet(f, T) = f[Pick(T)] + SumFunctionOnSet(f, T \ {Pick(T)})
          /\ SumFunctionOnSet(g, T) = g[Pick(T)] + SumFunctionOnSet(g, T \ {Pick(T)})
      BY <2>2, SumRecursion
    <3> QED BY <3>1, <3>2, <3>3
  <2> QED BY <2>1, <2>2
<1> HIDE DEF Good
<1>2. \A s \in SUBSET S : s \in Good
  BY <1>1, SubsetInduction
<1> QED BY <1>2 DEF Good

\* One value changed.
LEMMA SumChange ==
    ASSUME NEW S, IsFiniteSet(S), NEW f, NEW g, NEW y \in S,
           \A x \in S : f[x] \in Int /\ g[x] \in Int,
           \A x \in S \ {y} : f[x] = g[x]
    PROVE  SumFunctionOnSet(g, S) = SumFunctionOnSet(f, S) + (g[y] - f[y])
<1>1. IsFiniteSet(S \ {y})
  BY FS_RemoveElement
<1>2. SumFunctionOnSet(f, S \ {y}) = SumFunctionOnSet(g, S \ {y})
  BY <1>1, SumSame
<1>3. SumFunctionOnSet(f, S \ {y}) \in Int
  BY <1>1, SumType
<1>4. /\ SumFunctionOnSet(f, S) = f[y] + SumFunctionOnSet(f, S \ {y})
      /\ SumFunctionOnSet(g, S) = g[y] + SumFunctionOnSet(g, S \ {y})
  BY SumRemove
<1> QED BY <1>2, <1>3, <1>4

LEMMA SumNat ==
    ASSUME NEW S, IsFiniteSet(S), NEW f, \A x \in S : f[x] \in Nat
    PROVE  SumFunctionOnSet(f, S) \in Nat
<1> DEFINE Good == {s \in SUBSET S : SumFunctionOnSet(f, s) \in Nat}
<1>1. ASSUME NEW T \in SUBSET S, \A U \in SUBSET T : U # T => U \in Good
      PROVE  T \in Good
  <2>1. CASE T = {}
    BY <2>1, SumEmpty
  <2>2. CASE T # {}
    <3>1. Pick(T) \in T
      BY <2>2, PickIn
    <3>2. SumFunctionOnSet(f, T \ {Pick(T)}) \in Nat
      BY <1>1, <3>1
    <3>3. SumFunctionOnSet(f, T) = f[Pick(T)] + SumFunctionOnSet(f, T \ {Pick(T)})
      BY <2>2, SumRecursion
    <3> QED BY <3>1, <3>2, <3>3
  <2> QED BY <2>1, <2>2
<1> HIDE DEF Good
<1>2. \A s \in SUBSET S : s \in Good
  BY <1>1, SubsetInduction
<1> QED BY <1>2 DEF Good

-----------------------------------------------------------------------------
LEMMA MaxIs ==
    ASSUME NEW S, IsFiniteSet(S), S \subseteq Int, S # {}
    PROVE  Max(S) \in S /\ \A y \in S : y <= Max(S)
<1> DEFINE HasMax(s) == \E x \in s : \A y \in s : x >= y
           Good == {s \in SUBSET S : s # {} => HasMax(s)}
<1>1. ASSUME NEW T \in SUBSET S, \A U \in SUBSET T : U # T => U \in Good
      PROVE  T \in Good
  <2> SUFFICES ASSUME NEW p \in T PROVE HasMax(T)
    OBVIOUS
  <2>1. CASE T \ {p} = {}
    <3>1. T = {p}
      BY <2>1
    <3> QED BY <3>1
  <2>2. CASE T \ {p} # {}
    <3>0. T \ {p} \in Good
      BY <1>1
    <3>1. PICK x \in T \ {p} : \A y \in T \ {p} : x >= y
      BY <2>2, <3>0
    <3>2. x \in Int /\ p \in Int /\ T \subseteq Int
      BY <3>1
    <3>3. CASE x >= p
      <4>1. \A y \in T : x >= y
        BY <3>1, <3>2, <3>3
      <4> QED BY <3>1, <4>1
    <3>4. CASE ~(x >= p)
      <4>1. \A y \in T : p >= y
        BY <3>1, <3>2, <3>4
      <4> QED BY <4>1
    <3> QED BY <3>3, <3>4
  <2> QED BY <2>1, <2>2
<1> HIDE DEF Good
<1>2. S \in Good
  BY <1>1, SubsetInduction
<1>3. \E x \in S : \A y \in S : x >= y
  BY <1>2 DEF Good
<1>4. Max(S) \in S /\ \A y \in S : Max(S) >= y
  BY <1>3 DEF Max
<1> QED BY <1>4

LEMMA MinIs ==
    ASSUME NEW S, IsFiniteSet(S), S \subseteq Int, S # {}
    PROVE  Min(S) \in S /\ \A y \in S : Min(S) <= y
<1> DEFINE HasMin(s) == \E x \in s : \A y \in s : x <= y
           Good == {s \in SUBSET S : s # {} => HasMin(s)}
<1>1. ASSUME NEW T \in SUBSET S, \A U \in SUBSET T : U # T => U \in Good
      PROVE  T \in Good
  <2> SUFFICES ASSUME NEW p \in T PROVE HasMin(T)
    OBVIOUS
  <2>1. CASE T \ {p} = {}
    <3>1. T = {p}
      BY <2>1
    <3> QED BY <3>1
  <2>2. CASE T \ {p} # {}
    <3>0. T \ {p} \in Good
      BY <1>1
    <3>1. PICK x \in T \ {p} : \A y \in T \ {p} : x <= y
      BY <2>2, <3>0
    <3>2. x \in Int /\ p \in Int /\ T \subseteq Int
      BY <3>1
    <3>3. CASE x <= p
      <4>1. \A y \in T : x <= y
        BY <3>1, <3>2, <3>3
      <4> QED BY <3>1, <4>1
    <3>4. CASE ~(x <= p)
      <4>1. \A y \in T : p <= y
        BY <3>1, <3>2, <3>4
      <4> QED BY <4>1
    <3> QED BY <3>3, <3>4
  <2> QED BY <2>1, <2>2
<1> HIDE DEF Good
<1>2. S \in Good
  BY <1>1, SubsetInduction
<1>3. \E x \in S : \A y \in S : x <= y
  BY <1>2 DEF Good
<1> QED BY <1>3 DEF Min

-----------------------------------------------------------------------------
\* Induction over an interval, with a set of the numbers a fact holds for.
LEMMA IntervalInduction ==
    ASSUME NEW n \in Nat, NEW Good, n >= 1 => 1 \in Good,
           \A k \in 1..n : k \in Good /\ k < n => k + 1 \in Good
    PROVE  \A k \in 1..n : k \in Good
<1> DEFINE Bad == {k \in 1..n : k \notin Good}
<1> SUFFICES ASSUME Bad # {} PROVE FALSE
    OBVIOUS
<1>1. IsFiniteSet(Bad) /\ Bad \subseteq Int
  <2>1. IsFiniteSet(1..n)
    BY FS_Interval
  <2>2. Bad \in SUBSET (1..n) /\ Bad \subseteq Int
    OBVIOUS
  <2> HIDE DEF Bad
  <2>3. IsFiniteSet(Bad)
    BY <2>1, <2>2, FS_Subset
  <2> QED BY <2>2, <2>3
<1>2. PICK m \in Bad : \A y \in Bad : m <= y
  <2> HIDE DEF Bad
  <2> QED BY <1>1, MinIs
<1>3. m # 1 /\ m - 1 \in 1..n /\ m - 1 < n
  BY <1>2
<1>4. m - 1 \notin Bad
  BY <1>2, <1>3
<1>5. (m - 1) + 1 \in Good
  BY <1>3, <1>4
<1> QED BY <1>2, <1>5
=============================================================================
