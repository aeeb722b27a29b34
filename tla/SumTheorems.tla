------------------------------ MODULE SumTheorems ------------------------------
(***************************************************************************)
(* What SumFunctionOnSet of the community module Functions comes to on a   *)
(* finite set, in whatever order it adds.  The proofs go by a smallest     *)
(* counterexample, WFMin.                                                  *)
(***************************************************************************)
EXTENDS FiniteSets, Functions, FiniteSetTheorems, WellFoundedInduction, TLAPS

\* A set of naturals that is not empty has a smallest member.
LEMMA LeastMember ==
  ASSUME NEW B, B \subseteq Nat, B # {}
  PROVE  \E m \in B : \A n \in B : m <= n
<1> DEFINE Less == OpToRel(<, Nat)
<1>1. PICK m \in B : \A n \in B : <<n, m>> \notin Less
  <2>1. IsWellFoundedOn(Less, Nat)
    BY NatLessThanWellFounded, Zenon
  <2> HIDE DEF Less
  <2> QED BY <2>1, WFMin
<1>2. \A n \in B : n \in Nat /\ m \in Nat /\ ~(n < m)
  BY <1>1 DEF OpToRel
<1> HIDE DEF Less
<1>3. \A n \in B : m <= n
  BY <1>2
<1> QED BY <1>3

\* A set of subsets of a finite set that is not empty has a smallest member.
LEMMA SmallestSubset ==
  ASSUME NEW S, IsFiniteSet(S), NEW B \in SUBSET (SUBSET S), B # {}
  PROVE  \E T \in B : \A U \in B : U \subseteq T => U = T
<1>1. B \subseteq FiniteSubsetsOf(S)
  BY FS_FiniteSubsetsOfFinite
<1>2. PICK T \in B : \A U \in B : <<U, T>> \notin StrictSubsetOrdering(S)
  BY <1>1, FS_StrictSubsetOrderingWellFounded, WFMin
<1> QED BY <1>2 DEF StrictSubsetOrdering

\* g adds up f on the set s, given what it is on smaller sets.
Adds(g, f, s) ==
  g[s] = IF s = {} THEN 0 ELSE f[CHOOSE x \in s : TRUE] + g[s \ {CHOOSE x \in s : TRUE}]

\* The members of S have a weight each, and g is what subsets of S come to.
Weights(f, S) == IsFiniteSet(S) /\ \A x \in S : f[x] \in Nat
Totals(g, f, S) == g \in [SUBSET S -> Nat] /\ \A s \in SUBSET S : Adds(g, f, s)

\* There is a function that adds up f on every subset of S.
LEMMA AddsExists ==
  ASSUME NEW S, NEW f, Weights(f, S)
  PROVE  \E g : Totals(g, f, S)
<1> USE DEF Weights
<1> DEFINE Good(n) == \E g \in [SUBSET S -> Nat] :
                        \A s \in SUBSET S : Cardinality(s) <= n => Adds(g, f, s)
           Bad == {n \in Nat : ~Good(n)}
<1>1. \A s \in SUBSET S : IsFiniteSet(s) /\ Cardinality(s) \in Nat /\ Cardinality(s) <= Cardinality(S)
  BY FS_Subset, FS_CardinalityType
<1>2. \A s \in SUBSET S : s # {} =>
        LET x == CHOOSE x \in s : TRUE IN
        /\ x \in s /\ x \in S /\ f[x] \in Nat /\ s \ {x} \in SUBSET S
        /\ Cardinality(s \ {x}) = Cardinality(s) - 1
  BY <1>1, FS_RemoveElement
<1>3. Good(0)
  <2> DEFINE g == [s \in SUBSET S |-> 0]
  <2>1. g \in [SUBSET S -> Nat]
    OBVIOUS
  <2>2. ASSUME NEW s \in SUBSET S, Cardinality(s) <= 0 PROVE Adds(g, f, s)
    <3>1. s = {}
      BY <1>1, <2>2, FS_EmptySet
    <3> QED BY <3>1 DEF Adds
  <2> HIDE DEF g
  <2> QED BY <2>1, <2>2
<1>4. ASSUME NEW n \in Nat, Good(n) PROVE Good(n + 1)
  <2>1. PICK g \in [SUBSET S -> Nat] : \A s \in SUBSET S : Cardinality(s) <= n => Adds(g, f, s)
    BY <1>4
  <2> DEFINE h == [s \in SUBSET S |->
                     IF s = {} THEN 0
                     ELSE f[CHOOSE x \in s : TRUE] + g[s \ {CHOOSE x \in s : TRUE}]]
  <2>2. h \in [SUBSET S -> Nat]
    BY <1>2
  <2>3. \A s \in SUBSET S : Cardinality(s) <= n => h[s] = g[s]
    BY <2>1 DEF Adds
  <2>4. ASSUME NEW s \in SUBSET S, Cardinality(s) <= n + 1 PROVE Adds(h, f, s)
    <3>1. CASE s = {}
      BY <3>1 DEF Adds
    <3>2. CASE s # {}
      <4>1. s \ {CHOOSE x \in s : TRUE} \in SUBSET S
            /\ Cardinality(s \ {CHOOSE x \in s : TRUE}) <= n
        BY <1>1, <1>2, <2>4, <3>2
      <4>2. h[s \ {CHOOSE x \in s : TRUE}] = g[s \ {CHOOSE x \in s : TRUE}]
        BY <2>3, <4>1
      <4>3. h[s] = f[CHOOSE x \in s : TRUE] + g[s \ {CHOOSE x \in s : TRUE}]
        BY <3>2
      <4> HIDE DEF h
      <4> QED BY <3>2, <4>2, <4>3 DEF Adds
    <3> QED BY <3>1, <3>2
  <2> HIDE DEF h
  <2> QED BY <2>2, <2>4
<1> HIDE DEF Good
<1>5. Bad = {}
  <2> SUFFICES ASSUME Bad # {} PROVE FALSE
    OBVIOUS
  <2>0. Bad \subseteq Nat
    OBVIOUS
  <2>1. PICK m \in Bad : \A n \in Bad : m <= n
    <3> HIDE DEF Bad
    <3> QED BY <2>0, LeastMember
  <2>2. m # 0
    BY <1>3, <2>1
  <2>3. m - 1 \in Nat /\ m - 1 \notin Bad
    BY <2>1, <2>2
  <2>4. Good(m - 1 + 1)
    BY <1>4, <2>3
  <2> QED BY <2>1, <2>4
<1>6. Good(Cardinality(S))
  BY <1>1, <1>5
<1> QED BY <1>1, <1>6 DEF Good, Totals

\* So SumFunctionOnSet is the value of such a function.
LEMMA SumIsAdded ==
  ASSUME NEW S, NEW f, Weights(f, S)
  PROVE  \E g : Totals(g, f, S) /\ SumFunctionOnSet(f, S) = g[S]
<1> DEFINE Body(g) == [s \in SUBSET S |->
                         IF s = {} THEN 0
                         ELSE f[CHOOSE x \in s : TRUE] + g[s \ {CHOOSE x \in s : TRUE}]]
<1>1. SumFunctionOnSet(f, S) = (CHOOSE g : g = Body(g))[S]
  BY DEF SumFunctionOnSet, FoldFunctionOnSet, MapThenFoldSet
<1>2. PICK g : Totals(g, f, S)
  BY AddsExists
<1> DEFINE c == CHOOSE h : h = Body(h)
<1>3. g = Body(g)
  BY <1>2 DEF Adds, Totals
<1>4. c = Body(c)
  BY <1>3
<1>5. \A s \in SUBSET S :
        /\ c[s] = IF s = {} THEN 0
                  ELSE f[CHOOSE x \in s : TRUE] + c[s \ {CHOOSE x \in s : TRUE}]
        /\ g[s] = IF s = {} THEN 0
                  ELSE f[CHOOSE x \in s : TRUE] + g[s \ {CHOOSE x \in s : TRUE}]
  <2> HIDE DEF c
  <2> QED BY <1>2, <1>4 DEF Adds, Totals
<1> HIDE DEF c
<1> DEFINE Differ == {s \in SUBSET S : c[s] # g[s]}
<1>6. Differ = {}
  <2> SUFFICES ASSUME Differ # {} PROVE FALSE
    OBVIOUS
  <2>1. Differ \in SUBSET (SUBSET S)
    OBVIOUS
  <2>2. PICK T \in Differ : \A U \in Differ : U \subseteq T => U = T
    <3> HIDE DEF Differ
    <3> QED BY <2>1, SmallestSubset DEF Weights
  <2>3. T # {}
    BY <1>5
  <2> DEFINE x == CHOOSE x \in T : TRUE
  <2>4. x \in T
    BY <2>3
  <2>5. T \ {x} \in SUBSET S /\ T \ {x} \notin Differ
    BY <2>2, <2>4
  <2>6. c[T \ {x}] = g[T \ {x}]
    BY <2>5
  <2> QED BY <1>5, <2>3, <2>6
<1>7. c[S] = g[S]
  BY <1>6
<1> QED BY <1>1, <1>2, <1>7 DEF c

\* Any member of a set may be added last.
Splits(g, f, S) == \A s \in SUBSET S : \A y \in s : g[s] = f[y] + g[s \ {y}]

\* Whatever member is taken out of the sum first.
LEMMA SumSplits ==
  ASSUME NEW S, NEW f, Weights(f, S), NEW g, Totals(g, f, S)
  PROVE  Splits(g, f, S)
<1> USE DEF Weights, Totals, Splits
<1> DEFINE Bad == {s \in SUBSET S : \E y \in s : g[s] # f[y] + g[s \ {y}]}
<1>1. Bad = {}
  <2> SUFFICES ASSUME Bad # {} PROVE FALSE
    OBVIOUS
  <2>1. Bad \in SUBSET (SUBSET S)
    OBVIOUS
  <2>2. PICK T \in Bad : \A U \in Bad : U \subseteq T => U = T
    <3> HIDE DEF Bad
    <3> QED BY <2>1, SmallestSubset
  <2>3. PICK y \in T : g[T] # f[y] + g[T \ {y}]
    BY <2>2
  <2>4. PICK c \in T : g[T] = f[c] + g[T \ {c}] /\ c = CHOOSE x \in T : TRUE
    BY <2>2, <2>3 DEF Adds
  <2>5. c # y
    BY <2>3, <2>4
  <2> DEFINE Tc == T \ {c}
             Ty == T \ {y}
  <2>6. Tc \in SUBSET S /\ Tc \notin Bad /\ y \in Tc
    BY <2>2, <2>4, <2>5
  <2>7. Ty \in SUBSET S /\ Ty \notin Bad /\ c \in Ty
    BY <2>2, <2>3, <2>5
  <2>8. g[Tc] = f[y] + g[Tc \ {y}]
    BY <2>6
  <2>9. g[Ty] = f[c] + g[Ty \ {c}]
    BY <2>7
  <2>10. Tc \ {y} = Ty \ {c} /\ Tc \ {y} \in SUBSET S
    BY <2>6
  <2>11. g[Tc \ {y}] \in Nat /\ f[y] \in Nat /\ f[c] \in Nat /\ g[Tc] \in Nat /\ g[Ty] \in Nat
    BY <2>2, <2>4, <2>6, <2>7, <2>10
  <2>12. g[T] = f[c] + (f[y] + g[Tc \ {y}]) /\ g[Ty] = f[c] + g[Tc \ {y}]
    BY <2>4, <2>8, <2>9, <2>10
  <2> HIDE DEF Tc
  <2>13. g[T] = f[y] + g[Ty]
    BY <2>11, <2>12
  <2> QED BY <2>3, <2>13
<1> QED BY <1>1

\* A sum of naturals is one.
LEMMA SumType ==
  ASSUME NEW S, NEW f, Weights(f, S)
  PROVE  SumFunctionOnSet(f, S) \in Nat
<1>1. PICK g : Totals(g, f, S) /\ SumFunctionOnSet(f, S) = g[S]
  BY SumIsAdded
<1> QED BY <1>1 DEF Totals

\* When every term is at most its fellow, so is the sum of any of them.
LEMMA AddsMonotone ==
  ASSUME NEW S, NEW f, NEW h, Weights(f, S), Weights(h, S),
         NEW F, NEW H, Totals(F, f, S), Totals(H, h, S),
         NEW D \in SUBSET S, \A x \in D : f[x] <= h[x]
  PROVE  F[D] <= H[D]
<1>1. Splits(F, f, S) /\ Splits(H, h, S)
  BY SumSplits
<1> DEFINE Bad == {s \in SUBSET D : ~(F[s] <= H[s])}
<1>3. Bad = {}
  <2> SUFFICES ASSUME Bad # {} PROVE FALSE
    OBVIOUS
  <2>1. Bad \in SUBSET (SUBSET S)
    OBVIOUS
  <2>2. PICK T \in Bad : \A U \in Bad : U \subseteq T => U = T
    <3> HIDE DEF Bad
    <3> QED BY <2>1, SmallestSubset DEF Weights
  <2>3. F[{}] = 0 /\ H[{}] = 0
    BY DEF Adds, Totals
  <2>4. T \in SUBSET S /\ T \in SUBSET D /\ ~(F[T] <= H[T]) /\ T # {}
    <3>1. T \in SUBSET S /\ T \in SUBSET D /\ ~(F[T] <= H[T])
      OBVIOUS
    <3>2. ASSUME T = {} PROVE F[T] = 0 /\ H[T] = 0
      BY <2>3, <3>2
    <3>3. ASSUME T = {} PROVE F[T] <= H[T]
      BY <3>2, <3>3
    <3> QED BY <3>1, <3>3
  <2> DEFINE c == CHOOSE x \in T : TRUE
  <2>5. /\ c \in T
        /\ F[T] = f[c] + F[T \ {c}] /\ H[T] = h[c] + H[T \ {c}]
    <3>1. c \in T
      BY <2>4
    <3> HIDE DEF c, Bad
    <3> QED BY <2>4, <3>1, <1>1 DEF Splits
  <2> HIDE DEF c
  <2>6. T \ {c} \in SUBSET S /\ T \ {c} \in SUBSET D /\ T \ {c} \notin Bad
    BY <2>2, <2>5
  <2>7. F[T \ {c}] <= H[T \ {c}] /\ f[c] <= h[c]
    BY <2>2, <2>5, <2>6
  <2>8. f[c] \in Nat /\ h[c] \in Nat /\ F[T \ {c}] \in Nat /\ H[T \ {c}] \in Nat
    BY <2>2, <2>5, <2>6 DEF Weights, Totals
  <2>9. F[T] <= H[T]
    BY <2>5, <2>7, <2>8
  <2> QED BY <2>2, <2>9
<1> QED BY <1>3

\* A sum of zeros is zero.
LEMMA SumOfNothing ==
  ASSUME NEW S, NEW f, Weights(f, S), \A x \in S : f[x] = 0
  PROVE  SumFunctionOnSet(f, S) = 0
<1>1. PICK g : Totals(g, f, S) /\ SumFunctionOnSet(f, S) = g[S]
  BY SumIsAdded
<1>2. Splits(g, f, S)
  BY <1>1, SumSplits
<1> DEFINE Bad == {s \in SUBSET S : g[s] # 0}
<1>3. Bad = {}
  <2> SUFFICES ASSUME Bad # {} PROVE FALSE
    OBVIOUS
  <2>1. Bad \in SUBSET (SUBSET S)
    OBVIOUS
  <2>2. PICK T \in Bad : \A U \in Bad : U \subseteq T => U = T
    <3> HIDE DEF Bad
    <3> QED BY <2>1, SmallestSubset DEF Weights
  <2>3. T # {}
    BY <1>1, <2>2 DEF Totals, Adds
  <2>4. PICK y \in T : TRUE
    BY <2>3
  <2>5. g[T] = f[y] + g[T \ {y}] /\ T \ {y} \in SUBSET S
    BY <1>2, <2>4 DEF Splits
  <2>6. T \ {y} \notin Bad
    BY <2>2, <2>4
  <2>7. g[T \ {y}] = 0 /\ f[y] = 0
    BY <2>4, <2>5, <2>6
  <2> QED BY <2>2, <2>5, <2>7
<1> QED BY <1>1, <1>3

\* When every term is at most its fellow, so is the sum.
THEOREM SumMonotone ==
  ASSUME NEW S, NEW f, NEW h, Weights(f, S), Weights(h, S),
         \A x \in S : f[x] <= h[x]
  PROVE  SumFunctionOnSet(f, S) <= SumFunctionOnSet(h, S)
<1>1. PICK F : Totals(F, f, S) /\ SumFunctionOnSet(f, S) = F[S]
  BY SumIsAdded
<1>2. PICK H : Totals(H, h, S) /\ SumFunctionOnSet(h, S) = H[S]
  BY SumIsAdded
<1>3. F[S] <= H[S]
  BY <1>1, <1>2, AddsMonotone
<1> QED BY <1>1, <1>2, <1>3

\* The same when one term, y, may be more: the sums differ by no more than the two terms do.
THEOREM SumButOne ==
  ASSUME NEW S, NEW f, NEW h, Weights(f, S), Weights(h, S),
         NEW y \in S, \A x \in S \ {y} : f[x] <= h[x]
  PROVE  SumFunctionOnSet(f, S) + h[y] <= SumFunctionOnSet(h, S) + f[y]
<1>1. PICK F : Totals(F, f, S) /\ SumFunctionOnSet(f, S) = F[S]
  BY SumIsAdded
<1>2. PICK H : Totals(H, h, S) /\ SumFunctionOnSet(h, S) = H[S]
  BY SumIsAdded
<1>3. F[S] = f[y] + F[S \ {y}] /\ H[S] = h[y] + H[S \ {y}]
  <2>1. Splits(F, f, S) /\ Splits(H, h, S)
    BY <1>1, <1>2, SumSplits
  <2> QED BY <2>1 DEF Splits
<1>4. F[S \ {y}] <= H[S \ {y}]
  BY <1>1, <1>2, AddsMonotone
<1>5. f[y] \in Nat /\ h[y] \in Nat /\ F[S \ {y}] \in Nat /\ H[S \ {y}] \in Nat
  BY <1>1, <1>2 DEF Weights, Totals
<1> QED BY <1>1, <1>2, <1>3, <1>4, <1>5
===============================================================================
