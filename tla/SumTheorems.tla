----------------------------- MODULE SumTheorems -----------------------------
(***************************************************************************)
(* What the proofs about money need of SumFunctionOnSet: the sum of a      *)
(* function with natural values over a finite set, taken apart by its      *)
(* elements.  The library folds in an order CHOOSE picks; that the order   *)
(* does not matter follows from reading the sum as a number of units, one  *)
(* pair <<x, n>> for each unit n of each x.                                *)
(*                                                                         *)
(* Induction over finite sets is by a minimal counterexample: the strict   *)
(* subset ordering of a finite set is well founded.  The last part is      *)
(* about the least and the greatest of a set of numbers.                   *)
(***************************************************************************)
EXTENDS FiniteSetTheorems, FunctionTheorems, FiniteSetsExt, TLAPS

\* Every property of subsets of a finite set that some subset has, a minimal
\* subset has.
LEMMA MinimalSubset ==
    ASSUME NEW S, IsFiniteSet(S), NEW T, T \subseteq SUBSET S, T # {}
    PROVE  \E x \in T : \A y \in T : ~(y \subseteq x /\ y # x)
<1>1. IsWellFoundedOn(StrictSubsetOrdering(S), SUBSET S)
  BY FS_StrictSubsetOrderingWellFounded, FS_FiniteSubsetsOfFinite
<1>2. PICK x \in T : \A y \in T : <<y, x>> \notin StrictSubsetOrdering(S)
  BY <1>1, WFMin
<1>3. QED
  BY <1>2 DEF StrictSubsetOrdering

\* The units of f over S.
Units(f, S) == {p \in S \X Nat : p[2] < f[p[1]]}

IsNatOn(f, S) == \A x \in S : f[x] \in Nat

LEMMA UnitsOfOne ==
    ASSUME NEW f, NEW e, f[e] \in Nat
    PROVE  /\ IsFiniteSet(Units(f, {e}))
           /\ Cardinality(Units(f, {e})) = f[e]
<1> DEFINE I == 0 .. (f[e] - 1)
<1>1. IsFiniteSet(I) /\ Cardinality(I) = f[e]
  <2> DEFINE b == f[e] - 1
  <2>1. 0 \in Int /\ b \in Int
    OBVIOUS
  <2>2. (IF 0 > b THEN 0 ELSE b - 0 + 1) = f[e]
    OBVIOUS
  <2> HIDE DEF b
  <2>3. IsFiniteSet(0 .. b) /\ Cardinality(0 .. b) = IF 0 > b THEN 0 ELSE b - 0 + 1
    BY <2>1, FS_Interval, Zenon
  <2>4. QED
    BY <2>2, <2>3 DEF b
<1>2. IsFiniteSet({e}) /\ Cardinality({e}) = 1
  BY FS_Singleton
<1>3. IsFiniteSet({e} \X I) /\ Cardinality({e} \X I) = 1 * f[e]
  BY <1>1, <1>2, FS_Product
<1>4. Units(f, {e}) = {e} \X I
  BY DEF Units
<1>5. 1 * f[e] = f[e]
  OBVIOUS
<1> HIDE DEF I
<1>6. QED
  BY <1>3, <1>4, <1>5

LEMMA UnitsSplit ==
    ASSUME NEW f, NEW S, NEW e \in S
    PROVE  /\ Units(f, S) = Units(f, S \ {e}) \cup Units(f, {e})
           /\ Units(f, S \ {e}) \cap Units(f, {e}) = {}
  BY DEF Units

LEMMA UnitsFinite ==
    ASSUME NEW S, IsFiniteSet(S), NEW f, IsNatOn(f, S)
    PROVE  IsFiniteSet(Units(f, S))
<1> DEFINE Bad == {s \in SUBSET S : ~IsFiniteSet(Units(f, s))}
<1> SUFFICES ASSUME Bad # {} PROVE FALSE
  OBVIOUS
<1>1. PICK s \in Bad : \A y \in Bad : ~(y \subseteq s /\ y # s)
  <2>1. Bad \subseteq SUBSET S
    OBVIOUS
  <2> HIDE DEF Bad
  <2>2. QED
    BY <2>1, MinimalSubset
<1>2. CASE s = {}
  BY <1>1, <1>2, FS_EmptySet DEF Units
<1>3. CASE s # {}
  <2>1. PICK e \in s : TRUE
    BY <1>3
  <2>2. IsFiniteSet(Units(f, s \ {e}))
    BY <1>1, <2>1
  <2>3. IsFiniteSet(Units(f, {e}))
    BY <1>1, <2>1, UnitsOfOne DEF IsNatOn
  <2>4. Units(f, s) = Units(f, s \ {e}) \cup Units(f, {e})
    BY <2>1, UnitsSplit
  <2> HIDE DEF Bad
  <2>5. IsFiniteSet(Units(f, s))
    BY <2>2, <2>3, <2>4, FS_Union
  <2>6. QED
    BY <1>1, <2>5 DEF Bad
<1>4. QED
  BY <1>2, <1>3

LEMMA DisjointUnion ==
    ASSUME NEW A, IsFiniteSet(A), NEW B, IsFiniteSet(B), A \cap B = {}
    PROVE  /\ Cardinality(A) \in Nat /\ Cardinality(B) \in Nat
           /\ Cardinality(A \cup B) = Cardinality(A) + Cardinality(B)
<1>1. Cardinality(A \cup B) = Cardinality(A) + Cardinality(B) - Cardinality({})
  BY FS_Union
<1>2. Cardinality(A) \in Nat /\ Cardinality(B) \in Nat
  BY FS_CardinalityType
<1>3. Cardinality({}) = 0
  BY FS_EmptySet
<1>4. QED
  BY <1>1, <1>2, <1>3

LEMMA UnitsRemove ==
    ASSUME NEW S, IsFiniteSet(S), NEW f, IsNatOn(f, S), NEW e \in S
    PROVE  Cardinality(Units(f, S)) = f[e] + Cardinality(Units(f, S \ {e}))
<1>1. IsFiniteSet(S \ {e}) /\ IsNatOn(f, S \ {e})
  BY FS_RemoveElement DEF IsNatOn
<1>2. IsFiniteSet(Units(f, S \ {e})) /\ IsFiniteSet(Units(f, {e}))
        /\ Cardinality(Units(f, {e})) = f[e]
  BY <1>1, UnitsFinite, UnitsOfOne DEF IsNatOn
<1>3. /\ Units(f, S) = Units(f, S \ {e}) \cup Units(f, {e})
      /\ Units(f, S \ {e}) \cap Units(f, {e}) = {}
  BY UnitsSplit
<1>4. /\ Cardinality(Units(f, S \ {e})) \in Nat
      /\ Cardinality(Units(f, S)) = Cardinality(Units(f, S \ {e})) + f[e]
  BY <1>2, <1>3, DisjointUnion
<1>5. QED
  BY <1>4 DEF IsNatOn

\* The sum of f over S is the number of its units.
LEMMA SumIsUnits ==
    ASSUME NEW S, IsFiniteSet(S), NEW f, IsNatOn(f, S)
    PROVE  SumFunctionOnSet(f, S) = Cardinality(Units(f, S))
<1> DEFINE c(s) == CHOOSE x \in s : TRUE
           Folds(g) == g = [s \in SUBSET S |-> IF s = {} THEN 0 ELSE f[c(s)] + g[s \ {c(s)}]]
           h == [s \in SUBSET S |-> Cardinality(Units(f, s))]
<1>1. ASSUME NEW s \in SUBSET S, s # {}
      PROVE  /\ c(s) \in s
             /\ s \ {c(s)} \in SUBSET S
             /\ Cardinality(Units(f, s)) = f[c(s)] + Cardinality(Units(f, s \ {c(s)}))
  <2>1. c(s) \in s
    BY <1>1
  <2>2. IsFiniteSet(s) /\ IsNatOn(f, s)
    BY FS_Subset DEF IsNatOn
  <2> HIDE DEF c
  <2>3. QED
    BY <2>1, <2>2, UnitsRemove
<1>2. Cardinality(Units(f, {})) = 0
  BY FS_EmptySet DEF Units
<1> HIDE DEF c
<1>3. Folds(h)
  <2>1. \A s \in SUBSET S : h[s] = IF s = {} THEN 0 ELSE f[c(s)] + h[s \ {c(s)}]
    BY <1>1, <1>2
  <2>2. QED
    BY <2>1
<1>4. SumFunctionOnSet(f, S) = (CHOOSE g : Folds(g))[S]
  BY DEF SumFunctionOnSet, FoldFunctionOnSet, MapThenFoldSet, c
<1>5. PICK g : g = (CHOOSE k : Folds(k)) /\ Folds(g)
  BY <1>3
<1>6. \A s \in SUBSET S : g[s] = IF s = {} THEN 0 ELSE f[c(s)] + g[s \ {c(s)}]
  BY <1>5
<1> HIDE DEF Folds, h
<1>7. g[S] = Cardinality(Units(f, S))
  <2> DEFINE Bad == {s \in SUBSET S : g[s] # Cardinality(Units(f, s))}
  <2> SUFFICES ASSUME Bad # {} PROVE FALSE
    OBVIOUS
  <2>1. PICK s \in Bad : \A y \in Bad : ~(y \subseteq s /\ y # s)
    <3>1. Bad \subseteq SUBSET S
      OBVIOUS
    <3> HIDE DEF Bad
    <3>2. QED
      BY <3>1, MinimalSubset
  <2>2. s # {}
    BY <1>2, <1>6, <2>1
  <2>3. g[s \ {c(s)}] = Cardinality(Units(f, s \ {c(s)}))
    BY <1>1, <2>1, <2>2
  <2>4. QED
    BY <1>1, <1>6, <2>1, <2>2, <2>3
<1>8. QED
  BY <1>4, <1>5, <1>7
-----------------------------------------------------------------------------
(* The facts the proofs cite.                                              *)

LEMMA SumType ==
    ASSUME NEW S, IsFiniteSet(S), NEW f, IsNatOn(f, S)
    PROVE  SumFunctionOnSet(f, S) \in Nat
  BY SumIsUnits, UnitsFinite, FS_CardinalityType

LEMMA SumRemove ==
    ASSUME NEW S, IsFiniteSet(S), NEW f, IsNatOn(f, S), NEW e \in S
    PROVE  /\ SumFunctionOnSet(f, S) = f[e] + SumFunctionOnSet(f, S \ {e})
           /\ SumFunctionOnSet(f, S \ {e}) \in Nat
<1>1. IsFiniteSet(S \ {e}) /\ IsNatOn(f, S \ {e})
  BY FS_RemoveElement DEF IsNatOn
<1>2. QED
  BY <1>1, SumIsUnits, UnitsRemove, SumType

\* A sum depends only on the values it adds.
LEMMA SumSame ==
    ASSUME NEW S, IsFiniteSet(S), NEW f, IsNatOn(f, S), NEW g, \A x \in S : g[x] = f[x]
    PROVE  SumFunctionOnSet(g, S) = SumFunctionOnSet(f, S)
<1>1. IsNatOn(g, S)
  BY DEF IsNatOn
<1>2. Units(g, S) = Units(f, S)
  BY DEF Units
<1>3. QED
  BY <1>1, <1>2, SumIsUnits

\* Changing one term changes the sum by the difference.
LEMMA SumUpdate ==
    ASSUME NEW S, IsFiniteSet(S), NEW f, IsNatOn(f, S), NEW g, IsNatOn(g, S), NEW e \in S,
           \A x \in S : x # e => g[x] = f[x]
    PROVE  SumFunctionOnSet(g, S) + f[e] = SumFunctionOnSet(f, S) + g[e]
<1>1. IsFiniteSet(S \ {e}) /\ IsNatOn(f, S \ {e})
  BY FS_RemoveElement DEF IsNatOn
<1>2. SumFunctionOnSet(g, S \ {e}) = SumFunctionOnSet(f, S \ {e})
  BY <1>1, SumSame
<1>3. f[e] \in Nat /\ g[e] \in Nat
  BY DEF IsNatOn
<1>4. /\ SumFunctionOnSet(f, S) = f[e] + SumFunctionOnSet(f, S \ {e})
      /\ SumFunctionOnSet(g, S) = g[e] + SumFunctionOnSet(g, S \ {e})
      /\ SumFunctionOnSet(f, S \ {e}) \in Nat
  BY SumRemove
<1>5. QED
  BY <1>2, <1>3, <1>4

\* A sum of larger terms is larger, and so is a sum of more of them.
LEMMA SumMonotone ==
    ASSUME NEW S, IsFiniteSet(S), NEW T, T \subseteq S, NEW f, IsNatOn(f, T),
           NEW g, IsNatOn(g, S), \A x \in T : f[x] <= g[x]
    PROVE  SumFunctionOnSet(f, T) <= SumFunctionOnSet(g, S)
<1>1. IsFiniteSet(T)
  BY FS_Subset
<1>2. Units(f, T) \subseteq Units(g, S)
  BY DEF Units, IsNatOn
<1>3. IsFiniteSet(Units(g, S))
  BY UnitsFinite
<1>4. Cardinality(Units(f, T)) <= Cardinality(Units(g, S))
  BY <1>2, <1>3, FS_Subset
<1>5. QED
  BY <1>1, <1>4, SumIsUnits

LEMMA SumZero ==
    ASSUME NEW S, IsFiniteSet(S), NEW f, \A x \in S : f[x] = 0
    PROVE  SumFunctionOnSet(f, S) = 0
<1>1. IsNatOn(f, S)
  BY DEF IsNatOn
<1>2. Units(f, S) = {}
  BY DEF Units
<1>3. QED
  BY <1>1, <1>2, SumIsUnits, FS_EmptySet

\* The sum of sums.
LEMMA SumAdd ==
    ASSUME NEW S, IsFiniteSet(S), NEW f, IsNatOn(f, S), NEW g, IsNatOn(g, S),
           NEW h, \A x \in S : h[x] = f[x] + g[x]
    PROVE  SumFunctionOnSet(h, S) = SumFunctionOnSet(f, S) + SumFunctionOnSet(g, S)
<1> DEFINE Sums(s) == SumFunctionOnSet(h, s) = SumFunctionOnSet(f, s) + SumFunctionOnSet(g, s)
           Bad == {s \in SUBSET S : ~Sums(s)}
<1> SUFFICES ASSUME Bad # {} PROVE FALSE
  OBVIOUS
<1>1. PICK s \in Bad : \A y \in Bad : ~(y \subseteq s /\ y # s)
  <2>1. Bad \subseteq SUBSET S
    OBVIOUS
  <2> HIDE DEF Bad
  <2>2. QED
    BY <2>1, MinimalSubset
<1>2. s \subseteq S /\ IsFiniteSet(s) /\ ~Sums(s)
  BY <1>1, FS_Subset
<1>3. IsNatOn(f, s) /\ IsNatOn(g, s) /\ IsNatOn(h, s)
  BY <1>2 DEF IsNatOn
<1>4. CASE s = {}
  <2>1. /\ SumFunctionOnSet(h, s) = 0 /\ SumFunctionOnSet(f, s) = 0
        /\ SumFunctionOnSet(g, s) = 0
    BY <1>2, <1>4, SumZero
  <2>2. QED
    BY <1>2, <2>1
<1>5. CASE s # {}
  <2>1. PICK e \in s : TRUE
    BY <1>5
  <2>2. s \ {e} \notin Bad /\ s \ {e} \in SUBSET S
    BY <1>1, <1>2, <2>1
  <2>3. Sums(s \ {e})
    BY <2>2
  <2>4. /\ SumFunctionOnSet(h, s) = h[e] + SumFunctionOnSet(h, s \ {e})
        /\ SumFunctionOnSet(f, s) = f[e] + SumFunctionOnSet(f, s \ {e})
        /\ SumFunctionOnSet(g, s) = g[e] + SumFunctionOnSet(g, s \ {e})
        /\ SumFunctionOnSet(f, s \ {e}) \in Nat /\ SumFunctionOnSet(g, s \ {e}) \in Nat
    BY <1>2, <1>3, <2>1, SumRemove
  <2>5. h[e] = f[e] + g[e] /\ f[e] \in Nat /\ g[e] \in Nat
    BY <1>2, <1>3, <2>1 DEF IsNatOn
  <2>6. Sums(s)
    BY <2>3, <2>4, <2>5
  <2>7. QED
    BY <1>2, <2>6
<1>6. QED
  BY <1>4, <1>5

\* The terms that are zero add nothing.
LEMMA SumSupport ==
    ASSUME NEW S, IsFiniteSet(S), NEW f, IsNatOn(f, S), NEW T, T \subseteq S, NEW g,
           \A x \in T : g[x] = f[x], \A x \in S \ T : f[x] = 0
    PROVE  SumFunctionOnSet(g, T) = SumFunctionOnSet(f, S)
<1>1. IsFiniteSet(T) /\ IsNatOn(g, T)
  BY FS_Subset DEF IsNatOn
<1>2. Units(g, T) = Units(f, S)
  BY DEF Units
<1>3. QED
  BY <1>1, <1>2, SumIsUnits

\* A sum over pairs with a constant is the sum over their first components.
LEMMA SumPaired ==
    ASSUME NEW S, IsFiniteSet(S), NEW f, IsNatOn(f, S), NEW a, NEW g,
           \A x \in S : g[<<x, a>>] = f[x]
    PROVE  /\ SumFunctionOnSet(g, S \X {a}) = SumFunctionOnSet(f, S)
           /\ IsFiniteSet(S \X {a}) /\ IsNatOn(g, S \X {a})
<1> DEFINE K == S \X {a}
           F == [p \in Units(f, S) |-> <<<<p[1], a>>, p[2]>>]
<1>1. IsFiniteSet(K)
  BY FS_Singleton, FS_Product
<1>2. IsNatOn(g, K)
  BY DEF IsNatOn
<1>3. ASSUME NEW p \in Units(f, S)
      PROVE  p \in S \X Nat /\ p[1] \in S /\ p[2] \in Nat /\ p = <<p[1], p[2]>> /\ p[2] < f[p[1]]
  BY <1>3 DEF Units
<1>4. F \in [Units(f, S) -> Units(g, K)]
  <2>1. ASSUME NEW p \in Units(f, S) PROVE <<<<p[1], a>>, p[2]>> \in Units(g, K)
    <3>1. <<p[1], a>> \in K /\ g[<<p[1], a>>] = f[p[1]]
      BY <1>3
    <3>2. QED
      BY <1>3, <3>1 DEF Units
  <2>2. QED
    BY <2>1
<1>5. \A p, q \in Units(f, S) : F[p] = F[q] => p = q
  <2> SUFFICES ASSUME NEW p \in Units(f, S), NEW q \in Units(f, S), F[p] = F[q] PROVE p = q
    OBVIOUS
  <2>1. <<<<p[1], a>>, p[2]>> = <<<<q[1], a>>, q[2]>>
    OBVIOUS
  <2>2. p[1] = q[1] /\ p[2] = q[2]
    BY <2>1
  <2>3. QED
    BY <1>3, <2>2
<1>6. \A t \in Units(g, K) : \E p \in Units(f, S) : F[p] = t
  <2> SUFFICES ASSUME NEW t \in Units(g, K) PROVE \E p \in Units(f, S) : F[p] = t
    OBVIOUS
  <2>1. t \in K \X Nat /\ t[2] < g[t[1]]
    BY DEF Units
  <2>2. PICK x \in S, n \in Nat : t = <<<<x, a>>, n>>
    BY <2>1
  <2>3. n < f[x]
    BY <2>1, <2>2
  <2>4. <<x, n>> \in Units(f, S)
    BY <2>3 DEF Units
  <2>5. F[<<x, n>>] = t
    BY <2>2, <2>4
  <2>6. QED
    BY <2>4, <2>5
<1> HIDE DEF F
<1>7. F \in Bijection(Units(f, S), Units(g, K))
  BY <1>4, <1>5, <1>6, Fun_IsBij
<1>8. Cardinality(Units(g, K)) = Cardinality(Units(f, S))
  BY <1>7, UnitsFinite, FS_Bijection DEF ExistsBijection
<1>9. QED
  BY <1>1, <1>2, <1>8, SumIsUnits

-----------------------------------------------------------------------------
\* Extremes of sets of numbers.

LEMMA MinOfNats ==
    ASSUME NEW S, S \subseteq Nat, S # {}
    PROVE  Min(S) \in S /\ \A y \in S : Min(S) <= y
<1> DEFINE R == OpToRel(<, Nat)
<1>1. PICK x \in S : \A y \in S : <<y, x>> \notin R
  BY NatLessThanWellFounded, WFMin
<1>2. ASSUME NEW y \in S, y < x PROVE <<y, x>> \in R
  <2>1. x \in Nat /\ y \in Nat
    BY <1>1
  <2>2. QED
    BY <1>2, <2>1 DEF OpToRel
<1> HIDE DEF R
<1>3. \A y \in S : x <= y
  <2> SUFFICES ASSUME NEW y \in S PROVE x <= y
    OBVIOUS
  <2>1. x \in Nat /\ y \in Nat /\ ~(y < x)
    BY <1>1, <1>2
  <2>2. QED
    BY <2>1
<1>4. QED
  BY <1>3 DEF Min

LEMMA MaxOfFinite ==
    ASSUME NEW S, IsFiniteSet(S)
    PROVE  S \subseteq Int /\ S # {} => Max(S) \in S /\ \A y \in S : y <= Max(S)
<1> DEFINE HasMax(s) == \E x \in s : \A y \in s : x >= y
           Bad == {s \in SUBSET S : s \subseteq Int /\ s # {} /\ ~HasMax(s)}
<1>1. Bad = {}
  <2> SUFFICES ASSUME Bad # {} PROVE FALSE
    OBVIOUS
  <2>1. PICK s \in Bad : \A y \in Bad : ~(y \subseteq s /\ y # s)
    <3>1. Bad \subseteq SUBSET S
      OBVIOUS
    <3> HIDE DEF Bad
    <3>2. QED
      BY <3>1, MinimalSubset
  <2>2. PICK e \in s : TRUE
    BY <2>1
  <2>3. CASE s = {e}
    BY <2>1, <2>2, <2>3
  <2>4. CASE s # {e}
    <3>1. s \ {e} # {} /\ s \ {e} \in SUBSET S /\ s \ {e} \subseteq Int /\ s \ {e} \notin Bad
      BY <2>1, <2>2, <2>4
    <3>2. PICK x \in s \ {e} : \A y \in s \ {e} : x >= y
      BY <3>1
    <3>3. x \in Int /\ e \in Int /\ s \subseteq Int
      BY <2>1, <2>2, <3>2
    <3>4. CASE x >= e
      BY <2>1, <3>2, <3>3, <3>4
    <3>5. CASE ~(x >= e)
      <4>1. \A y \in s : e >= y
        BY <3>2, <3>3, <3>5
      <4>2. QED
        BY <2>1, <2>2, <4>1
    <3>6. QED
      BY <3>4, <3>5
  <2>5. QED
    BY <2>3, <2>4
<1> SUFFICES ASSUME S \subseteq Int, S # {} PROVE Max(S) \in S /\ \A y \in S : y <= Max(S)
  OBVIOUS
<1>2. HasMax(S)
  BY <1>1
<1>3. Max(S) \in S /\ \A y \in S : Max(S) >= y
  BY <1>2 DEF Max
<1>4. QED
  BY <1>3

LEMMA MaxOfTwo ==
    ASSUME NEW a \in Int, NEW b \in Int
    PROVE  Max({a, b}) \in {a, b} /\ a <= Max({a, b}) /\ b <= Max({a, b})
<1>1. IsFiniteSet({a, b})
  <2>1. IsFiniteSet({b})
    BY FS_Singleton
  <2>2. IsFiniteSet({b} \cup {a}) /\ {b} \cup {a} = {a, b}
    BY <2>1, FS_AddElement
  <2>3. QED
    BY <2>2
<1>2. QED
  BY <1>1, MaxOfFinite

LEMMA MinOfTwo ==
    ASSUME NEW a \in Int, NEW b \in Int PROVE Min({a, b}) \in {a, b}
<1>1. \E x \in {a, b} : \A y \in {a, b} : x <= y
  OBVIOUS
<1>2. QED
  BY <1>1 DEF Min
=============================================================================
