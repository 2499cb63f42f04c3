--------------------------- MODULE TreasuryBooks ---------------------------
(***************************************************************************)
(* The books of the treasury: the supplies of both assets against what     *)
(* accounts, pools and accumulators hold, for all accounts, fees, amounts, *)
(* percentages and rates.  This module has the lemmas about the sums, the  *)
(* inductive invariant Books, and the operations that pay their fee from   *)
(* the account and leave the assets themselves alone.  TreasuryProofs has  *)
(* the others and the theorems.                                            *)
(***************************************************************************)
EXTENDS Treasury, FiniteSetTheorems, TLAPS

-----------------------------------------------------------------------------
(* Sums over finite sets *)

\* Induction over the subsets of a finite set: what follows from all smaller
\* subsets holds of the set.
LEMMA FiniteInduction ==
   ASSUME NEW S, IsFiniteSet(S), NEW P,
          \A T \in SUBSET S : (\A U \in SUBSET T : U # T => U \in P) => T \in P
   PROVE  S \in P
<1>. DEFINE R == StrictSubsetOrdering(S)
            Bad == (SUBSET S) \ P
<1>1. IsWellFoundedOn(R, SUBSET S)
   BY FS_StrictSubsetOrderingWellFounded, FS_FiniteSubsetsOfFinite, Zenon
<1>2. ASSUME Bad # {} PROVE FALSE
   <2>. HIDE DEF R
   <2>1. PICK T \in Bad : \A U \in Bad : ~(<<U, T>> \in R)
      <3>1. Bad \subseteq SUBSET S
         BY Zenon
      <3>. HIDE DEF Bad
      <3>. QED BY <1>1, <1>2, <3>1, WFMin
   <2>2. ASSUME NEW U \in SUBSET T, U # T PROVE U \in P
      <3>1. <<U, T>> \in R
         BY <2>2, Zenon DEF R, StrictSubsetOrdering
      <3>. QED BY <2>1, <3>1, Zenon
   <2>3. \A U \in SUBSET T : U # T => U \in P
      BY <2>2, Zenon
   <2>4. T \in SUBSET S /\ T \notin P
      BY Zenon
   <2>. QED BY <2>3, <2>4, Zenon
<1>. QED BY <1>2, Zenon

\* The element that a fold takes out of a set.
PickOf(S) == CHOOSE x \in S : TRUE

\* The equation of the fold that sums a function over the subsets of a set.
SumEquation(g, f, S) ==
   g = [T \in SUBSET S |-> IF T = {} THEN 0 ELSE f[PickOf(T)] + g[T \ {PickOf(T)}]]

\* What SumFunctionOnSet is, in terms of that equation.
LEMMA SumIsFold ==
   ASSUME NEW f, NEW S
   PROVE  SumFunctionOnSet(f, S) = (CHOOSE g : SumEquation(g, f, S))[S]
BY Zenon DEF SumFunctionOnSet, FoldFunctionOnSet, MapThenFoldSet, SumEquation, PickOf

\* A non-empty set has the element that is taken out of it.
LEMMA PickIn ==
   ASSUME NEW S, S # {}
   PROVE  PickOf(S) \in S
BY Zenon DEF PickOf

\* The equation has at most one solution.
LEMMA SumUnique ==
   ASSUME NEW S, IsFiniteSet(S), NEW f, NEW g, NEW h,
          SumEquation(g, f, S), SumEquation(h, f, S)
   PROVE  g[S] = h[S]
<1>. DEFINE P == {T \in SUBSET S : g[T] = h[T]}
<1>1. ASSUME NEW T \in SUBSET S, \A U \in SUBSET T : U # T => U \in P
      PROVE  T \in P
   <2>1. CASE T = {}
      BY <2>1, Zenon DEF SumEquation
   <2>2. CASE T # {}
      <3>1. PickOf(T) \in T
         BY <2>2, PickIn, Zenon
      <3>2. T \ {PickOf(T)} \in P
         BY <1>1, <3>1, Zenon
      <3>3. /\ g[T] = f[PickOf(T)] + g[T \ {PickOf(T)}]
            /\ h[T] = f[PickOf(T)] + h[T \ {PickOf(T)}]
         BY <2>2, Zenon DEF SumEquation
      <3>. QED BY <3>2, <3>3, Zenon
   <2>. QED BY <2>1, <2>2, Zenon
<1>2. S \in P
   <2>. HIDE DEF P
   <2>. QED BY <1>1, FiniteInduction, Zenon
<1>. QED BY <1>2, Zenon

\* A solution for a set gives one for each of its subsets.
LEMMA SumRestrict ==
   ASSUME NEW S, NEW f, NEW g, SumEquation(g, f, S), NEW T \in SUBSET S
   PROVE  SumEquation([U \in SUBSET T |-> g[U]], f, T)
<1>. DEFINE h == [U \in SUBSET T |-> g[U]]
<1>1. ASSUME NEW U \in SUBSET T
      PROVE  h[U] = IF U = {} THEN 0 ELSE f[PickOf(U)] + h[U \ {PickOf(U)}]
   <2>1. g[U] = IF U = {} THEN 0 ELSE f[PickOf(U)] + g[U \ {PickOf(U)}]
      BY Zenon DEF SumEquation
   <2>. QED BY <2>1, Zenon
<1>2. h = [U \in SUBSET T |-> IF U = {} THEN 0 ELSE f[PickOf(U)] + h[U \ {PickOf(U)}]]
   BY <1>1, Zenon
<1>. QED BY <1>2, Zenon DEF SumEquation

\* The equation has a solution: the sums of the smaller subsets, put together.
LEMMA SumExists ==
   ASSUME NEW S, IsFiniteSet(S), NEW f
   PROVE  \E g : SumEquation(g, f, S)
<1>. DEFINE P == {T \in SUBSET S : \E g : SumEquation(g, f, T)}
            G(T) == CHOOSE g : SumEquation(g, f, T)
<1>1. ASSUME NEW T \in SUBSET S, \A U \in SUBSET T : U # T => U \in P
      PROVE  T \in P
   <2>. DEFINE val(U) == G(U)[U]
               h == [U \in SUBSET T |->
                       IF U = {} THEN 0
                       ELSE IF U = T THEN f[PickOf(T)] + val(T \ {PickOf(T)}) ELSE val(U)]
   <2>1. ASSUME NEW U \in SUBSET T, U # T PROVE SumEquation(G(U), f, U)
      BY <1>1, <2>1, Zenon
   <2>2. ASSUME NEW U \in SUBSET T, U # T, U # {}
         PROVE  val(U) = f[PickOf(U)] + val(U \ {PickOf(U)})
      <3>. DEFINE V == U \ {PickOf(U)}
                  k == [W \in SUBSET V |-> G(U)[W]]
      <3>1. SumEquation(G(U), f, U)
         BY <2>1, <2>2, Zenon
      <3>2. V \in SUBSET U /\ V \in SUBSET T /\ V # T /\ IsFiniteSet(V)
         <4>1. PickOf(U) \in U
            BY <2>2, PickIn, Zenon
         <4>2. V \in SUBSET S
            BY Zenon
         <4>. QED BY <4>1, <4>2, FS_Subset, Zenon
      <3>3. val(U) = f[PickOf(U)] + G(U)[V]
         BY <2>2, <3>1, Zenon DEF SumEquation
      <3>. HIDE DEF G
      <3>4. SumEquation(k, f, V) /\ SumEquation(G(V), f, V)
         <4>. HIDE DEF V
         <4>1. SumEquation(k, f, V)
            BY <3>1, <3>2, SumRestrict, ZenonT(30)
         <4>. QED BY <2>1, <3>2, <4>1, Zenon
      <3>. HIDE DEF V
      <3>5. k[V] = G(V)[V]
         <4>. HIDE DEF k
         <4>. QED BY <3>2, <3>4, SumUnique, Zenon
      <3>6. k[V] = G(U)[V]
         BY Zenon
      <3>. QED BY <3>3, <3>5, <3>6, Zenon DEF V
   <2>. HIDE DEF G, val
   <2>3. ASSUME NEW U \in SUBSET T
         PROVE  h[U] = IF U = {} THEN 0 ELSE f[PickOf(U)] + h[U \ {PickOf(U)}]
      <3>1. CASE U = {}
         BY <3>1, Zenon
      <3>2. CASE U # {}
         <4>. DEFINE V == U \ {PickOf(U)}
         <4>1. PickOf(U) \in U
            BY <3>2, PickIn, Zenon
         <4>2. V \in SUBSET T /\ V # T
            BY <4>1, Zenon
         <4>3. h[V] = val(V)
            <5>1. ASSUME V = {} PROVE val(V) = 0
               <6>1. SumEquation(G(V), f, V)
                  BY <2>1, <4>2, Zenon
               <6>2. G(V)[V] = 0
                  BY <5>1, <6>1, Zenon DEF SumEquation
               <6>. QED BY <6>2, Zenon DEF val
            <5>. QED BY <4>2, <5>1, Zenon
         <4>4. h[U] = f[PickOf(U)] + val(V)
            <5>1. CASE U = T
               BY <3>2, <5>1, Zenon
            <5>2. CASE U # T
               BY <2>2, <3>2, <5>2, Zenon
            <5>. QED BY <5>1, <5>2, Zenon
         <4>. QED BY <3>2, <4>3, <4>4, Zenon
      <3>. QED BY <3>1, <3>2, Zenon
   <2>4. SumEquation(h, f, T)
      BY <2>3, Zenon DEF SumEquation
   <2>. QED BY <2>4, Zenon
<1>2. S \in P
   <2>. HIDE DEF P
   <2>. QED BY <1>1, FiniteInduction, Zenon
<1>. QED BY <1>2, Zenon

\* The sum over the empty set, and the sum over a set by the element that the fold
\* takes out of it.
LEMMA SumByPick ==
   ASSUME NEW S, IsFiniteSet(S), NEW f
   PROVE  SumFunctionOnSet(f, S) =
             IF S = {} THEN 0 ELSE f[PickOf(S)] + SumFunctionOnSet(f, S \ {PickOf(S)})
<1>. DEFINE G(T) == CHOOSE g : SumEquation(g, f, T)
<1>1. \A T \in SUBSET S : SumEquation(G(T), f, T)
   BY SumExists, FS_Subset, Zenon
<1>2. \A T \in SUBSET S : SumFunctionOnSet(f, T) = G(T)[T]
   BY SumIsFold, Zenon
<1>. HIDE DEF G
<1>3. CASE S = {}
   BY <1>1, <1>2, <1>3, Zenon DEF SumEquation
<1>4. CASE S # {}
   <2>. DEFINE V == S \ {PickOf(S)}
               k == [W \in SUBSET V |-> G(S)[W]]
   <2>1. G(S)[S] = f[PickOf(S)] + G(S)[V]
      BY <1>1, <1>4, Zenon DEF SumEquation
   <2>2. V \in SUBSET S /\ IsFiniteSet(V)
      BY FS_Subset, Zenon
   <2>. HIDE DEF V
   <2>3. SumEquation(k, f, V) /\ SumEquation(G(V), f, V)
      BY <1>1, <2>2, SumRestrict, Zenon
   <2>4. k[V] = G(V)[V]
      <3>. HIDE DEF k
      <3>. QED BY <2>2, <2>3, SumUnique, Zenon
   <2>5. k[V] = G(S)[V]
      BY Zenon
   <2>6. SumFunctionOnSet(f, S) = G(S)[S] /\ SumFunctionOnSet(f, V) = G(V)[V]
      BY <1>2, <2>2, Zenon
   <2>. QED BY <1>4, <2>1, <2>4, <2>5, <2>6, Zenon DEF V
<1>. QED BY <1>3, <1>4, Zenon

\* A sum of integers is an integer, a sum of naturals a natural.
LEMMA SumType ==
   ASSUME NEW S, IsFiniteSet(S), NEW f
   PROVE  /\ (\A x \in S : f[x] \in Int) => SumFunctionOnSet(f, S) \in Int
          /\ (\A x \in S : f[x] \in Nat) => SumFunctionOnSet(f, S) \in Nat
<1>1. ASSUME NEW N \in {Int, Nat}, \A x \in S : f[x] \in N
      PROVE  SumFunctionOnSet(f, S) \in N
   <2>. DEFINE P == {T \in SUBSET S : SumFunctionOnSet(f, T) \in N}
   <2>1. ASSUME NEW T \in SUBSET S, \A U \in SUBSET T : U # T => U \in P
         PROVE  T \in P
      <3>1. IsFiniteSet(T)
         BY FS_Subset, Zenon
      <3>2. CASE T = {}
         BY <3>1, <3>2, SumByPick
      <3>3. CASE T # {}
         <4>1. PickOf(T) \in T
            BY <3>3, PickIn, Zenon
         <4>2. T \ {PickOf(T)} \in P
            BY <2>1, <4>1, Zenon
         <4>3. SumFunctionOnSet(f, T) = f[PickOf(T)] + SumFunctionOnSet(f, T \ {PickOf(T)})
            BY <3>1, <3>3, SumByPick, Zenon
         <4>. QED BY <1>1, <4>1, <4>2, <4>3
      <3>. QED BY <3>2, <3>3, Zenon
   <2>2. S \in P
      <3>. HIDE DEF P
      <3>. QED BY <2>1, FiniteInduction, Zenon
   <2>. QED BY <2>2, Zenon
<1>. QED BY <1>1, Zenon

\* Any element can be taken out first.
LEMMA SumTakeOut ==
   ASSUME NEW S, IsFiniteSet(S), NEW f, \A x \in S : f[x] \in Int
   PROVE  \A x \in S : SumFunctionOnSet(f, S) = f[x] + SumFunctionOnSet(f, S \ {x})
<1>. DEFINE Sum(T) == SumFunctionOnSet(f, T)
            P == {T \in SUBSET S : \A x \in T : Sum(T) = f[x] + Sum(T \ {x})}
<1>0. \A T \in SUBSET S : Sum(T) \in Int /\ IsFiniteSet(T)
   BY SumType, FS_Subset, Zenon
<1>1. ASSUME NEW T \in SUBSET S, \A U \in SUBSET T : U # T => U \in P
      PROVE  T \in P
   <2>1. ASSUME NEW x \in T PROVE Sum(T) = f[x] + Sum(T \ {x})
      <3>. DEFINE p == PickOf(T)
                  W == T \ {x, p}
      <3>1. p \in T
         BY PickIn, Zenon
      <3>2. Sum(T) = f[p] + Sum(T \ {p})
         BY <1>0, <3>1, SumByPick, Zenon
      <3>3. CASE x = p
         BY <3>2, <3>3, Zenon
      <3>4. CASE x # p
         <4>1. T \ {p} \in P /\ T \ {x} \in P /\ W \in SUBSET S
            BY <1>1, <3>1, Zenon
         <4>2. (T \ {p}) \ {x} = W /\ (T \ {x}) \ {p} = W
            BY Zenon
         <4>3. Sum(T \ {p}) = f[x] + Sum(W) /\ Sum(T \ {x}) = f[p] + Sum(W)
            BY <3>1, <3>4, <4>1, <4>2, Zenon
         <4>4. f[x] \in Int /\ f[p] \in Int /\ Sum(W) \in Int
            BY <1>0, <3>1, <4>1, Zenon
         <4>. HIDE DEF Sum, p, W
         <4>. QED BY <3>2, <4>3, <4>4
      <3>. QED BY <3>3, <3>4, Zenon
   <2>. QED BY <2>1, Zenon
<1>2. S \in P
   <2>. HIDE DEF P
   <2>. QED BY <1>1, FiniteInduction, Zenon
<1>. QED BY <1>2, Zenon

\* Functions that agree but in one place have sums that differ by what they differ
\* there.
LEMMA SumUpdate ==
   ASSUME NEW S, IsFiniteSet(S), NEW f, NEW g, NEW a,
          \A x \in S : f[x] \in Int /\ g[x] \in Int,
          \A x \in S \ {a} : f[x] = g[x]
   PROVE  SumFunctionOnSet(g, S) =
             SumFunctionOnSet(f, S) + (IF a \in S THEN g[a] - f[a] ELSE 0)
<1>. DEFINE F(T) == SumFunctionOnSet(f, T)
            G(T) == SumFunctionOnSet(g, T)
            P == {T \in SUBSET S : G(T) = F(T) + (IF a \in T THEN g[a] - f[a] ELSE 0)}
<1>0. \A T \in SUBSET S : F(T) \in Int /\ G(T) \in Int /\ IsFiniteSet(T)
   BY SumType, FS_Subset, Zenon
<1>1. ASSUME NEW T \in SUBSET S, \A U \in SUBSET T : U # T => U \in P
      PROVE  T \in P
   <2>1. CASE T = {}
      <3>1. F(T) = 0 /\ G(T) = 0
         BY <1>0, <2>1, SumByPick, Zenon
      <3>. HIDE DEF F, G
      <3>. QED BY <2>1, <3>1
   <2>2. CASE T # {}
      <3>. DEFINE p == PickOf(T)
                  U == T \ {p}
      <3>1. p \in T
         BY <2>2, PickIn, Zenon
      <3>2. F(T) = f[p] + F(U) /\ G(T) = g[p] + G(U)
         BY <1>0, <2>2, SumByPick, Zenon
      <3>3. U \in P /\ U \in SUBSET S
         BY <1>1, <3>1
      <3>4. G(U) = F(U) + (IF a \in U THEN g[a] - f[a] ELSE 0)
         BY <3>3, Zenon
      <3>5. f[p] \in Int /\ g[p] \in Int /\ F(U) \in Int /\ G(U) \in Int
         BY <1>0, <3>1, <3>3, Zenon
      <3>6. CASE p = a
         <4>1. a \notin U /\ a \in T
            BY <3>1, <3>6, Zenon
         <4>. HIDE DEF F, G, p, U
         <4>. QED BY <3>2, <3>4, <3>5, <3>6, <4>1
      <3>7. CASE p # a
         <4>1. f[p] = g[p] /\ (a \in U <=> a \in T)
            BY <3>1, <3>7, Zenon
         <4>2. a \in T => f[a] \in Int /\ g[a] \in Int
            BY Zenon
         <4>. HIDE DEF F, G, p, U
         <4>. QED BY <3>2, <3>4, <3>5, <4>1, <4>2
      <3>. QED BY <3>6, <3>7, Zenon
   <2>. QED BY <2>1, <2>2, Zenon
<1>2. S \in P
   <2>. HIDE DEF P
   <2>. QED BY <1>1, FiniteInduction, Zenon
<1>. QED BY <1>2, Zenon

\* Sums are added place by place.
LEMMA SumAdd ==
   ASSUME NEW S, IsFiniteSet(S), NEW f, NEW g, NEW h,
          \A x \in S : f[x] \in Int /\ g[x] \in Int /\ h[x] = f[x] + g[x]
   PROVE  SumFunctionOnSet(h, S) = SumFunctionOnSet(f, S) + SumFunctionOnSet(g, S)
<1>. DEFINE F(T) == SumFunctionOnSet(f, T)
            G(T) == SumFunctionOnSet(g, T)
            H(T) == SumFunctionOnSet(h, T)
            P == {T \in SUBSET S : H(T) = F(T) + G(T)}
<1>0. \A T \in SUBSET S : F(T) \in Int /\ G(T) \in Int /\ IsFiniteSet(T)
   BY SumType, FS_Subset, Zenon
<1>1. ASSUME NEW T \in SUBSET S, \A U \in SUBSET T : U # T => U \in P
      PROVE  T \in P
   <2>1. CASE T = {}
      <3>1. F(T) = 0 /\ G(T) = 0 /\ H(T) = 0
         BY <1>0, <2>1, SumByPick, Zenon
      <3>. HIDE DEF F, G, H
      <3>. QED BY <3>1
   <2>2. CASE T # {}
      <3>. DEFINE p == PickOf(T)
                  U == T \ {p}
      <3>1. p \in T
         BY <2>2, PickIn, Zenon
      <3>2. F(T) = f[p] + F(U) /\ G(T) = g[p] + G(U) /\ H(T) = h[p] + H(U)
         BY <1>0, <2>2, SumByPick, Zenon
      <3>3. U \in P /\ U \in SUBSET S
         BY <1>1, <3>1, Zenon
      <3>4. H(U) = F(U) + G(U)
         BY <3>3, Zenon
      <3>5. /\ f[p] \in Int /\ g[p] \in Int /\ h[p] = f[p] + g[p]
            /\ F(U) \in Int /\ G(U) \in Int
         BY <1>0, <3>1, <3>3, Zenon
      <3>. HIDE DEF F, G, H, p, U
      <3>. QED BY <3>2, <3>4, <3>5
   <2>. QED BY <2>1, <2>2, Zenon
<1>2. S \in P
   <2>. HIDE DEF P
   <2>. QED BY <1>1, FiniteInduction, Zenon
<1>. QED BY <1>2, Zenon

\* The sum of a function that is c on a subset and 0 elsewhere.
LEMMA SumConstant ==
   ASSUME NEW S, IsFiniteSet(S), NEW f, NEW U \in SUBSET S, NEW c \in Nat,
          \A x \in S : f[x] = IF x \in U THEN c ELSE 0
   PROVE  SumFunctionOnSet(f, S) = c * Cardinality(U)
<1>. DEFINE F(T) == SumFunctionOnSet(f, T)
            P == {T \in SUBSET S : F(T) = c * Cardinality(T \cap U)}
<1>0. \A T \in SUBSET S : F(T) \in Int /\ IsFiniteSet(T) /\ IsFiniteSet(T \cap U)
   BY SumType, FS_Subset
<1>1. ASSUME NEW T \in SUBSET S, \A V \in SUBSET T : V # T => V \in P
      PROVE  T \in P
   <2>1. CASE T = {}
      <3>1. F(T) = 0
         BY <1>0, <2>1, SumByPick, Zenon
      <3>2. Cardinality(T \cap U) = 0
         <4>1. T \cap U = {}
            BY <2>1, Zenon
         <4>. QED BY <4>1, FS_EmptySet, Zenon
      <3>. HIDE DEF F
      <3>. QED BY <3>1, <3>2
   <2>2. CASE T # {}
      <3>. DEFINE p == PickOf(T)
                  V == T \ {p}
      <3>1. p \in T
         BY <2>2, PickIn, Zenon
      <3>2. F(T) = f[p] + F(V)
         BY <1>0, <2>2, SumByPick, Zenon
      <3>3. V \in P
         BY <1>1, <3>1, Zenon
      <3>4. F(V) = c * Cardinality(V \cap U)
         BY <3>3, Zenon
      <3>5. f[p] = IF p \in U THEN c ELSE 0
         BY <3>1, Zenon
      <3>6. Cardinality(T \cap U) \in Nat /\ Cardinality(V \cap U) \in Nat
         BY <1>0, FS_CardinalityType, Zenon
      <3>7. Cardinality(V \cap U) = IF p \in U THEN Cardinality(T \cap U) - 1
                                    ELSE Cardinality(T \cap U)
         <4>1. (T \cap U) \ {p} = V \cap U
            BY Zenon
         <4>2. p \in T \cap U <=> p \in U
            BY <3>1, Zenon
         <4>. QED BY <1>0, <4>1, <4>2, FS_RemoveElement, Zenon
      <3>. DEFINE m == Cardinality(V \cap U)
                  n == Cardinality(T \cap U)
      <3>. HIDE DEF F, p, V, m, n
      <3>8. c * (m + 1) = c * m + c
         BY <3>6 DEF m
      <3>9. F(T) = c * n
         <4>1. CASE p \in U
            <5>1. n = m + 1
               BY <3>6, <3>7, <4>1 DEF m, n
            <5>2. F(T) = c + c * m
               BY <3>2, <3>4, <3>5, <4>1, Zenon DEF m
            <5>3. c * m \in Int
               BY <3>6 DEF m
            <5>. QED BY <3>8, <5>1, <5>2, <5>3
         <4>2. CASE p \notin U
            <5>1. n = m
               BY <3>7, <4>2, Zenon DEF m, n
            <5>2. F(T) = 0 + c * m
               BY <3>2, <3>4, <3>5, <4>2, Zenon DEF m
            <5>3. c * m \in Int
               BY <3>6 DEF m
            <5>. QED BY <5>1, <5>2, <5>3
         <4>. QED BY <4>1, <4>2, Zenon
      <3>. QED BY <3>9, Zenon DEF n
   <2>. QED BY <2>1, <2>2, Zenon
<1>2. S \in P
   <2>. HIDE DEF P
   <2>. QED BY <1>1, FiniteInduction, Zenon
<1>3. S \cap U = U
   BY Zenon
<1>. QED BY <1>2, <1>3, Zenon

\* A sum over three places.
LEMMA SumOfThree ==
   ASSUME NEW S, NEW f, \A x \in S : f[x] \in Int
   PROVE  \A a, b, c \in S : a # b /\ a # c /\ b # c /\ S = {a, b, c} =>
             SumFunctionOnSet(f, S) = f[a] + f[b] + f[c]
<1>. SUFFICES ASSUME NEW a \in S, NEW b \in S, NEW c \in S, a # b, a # c, b # c,
                     S = {a, b, c}
              PROVE  SumFunctionOnSet(f, S) = f[a] + f[b] + f[c]
   OBVIOUS
<1>. DEFINE F(T) == SumFunctionOnSet(f, T)
<1>1. IsFiniteSet({}) /\ IsFiniteSet({c}) /\ IsFiniteSet({b, c}) /\ IsFiniteSet({a, b, c})
   <2>1. IsFiniteSet({})
      BY FS_EmptySet, Zenon
   <2>2. IsFiniteSet({c}) /\ {c} \cup {b} = {b, c} /\ {b, c} \cup {a} = {a, b, c}
      BY FS_Singleton, Zenon
   <2>3. IsFiniteSet({b, c})
      BY <2>2, FS_AddElement
   <2>4. IsFiniteSet({a, b, c})
      BY <2>2, <2>3, FS_AddElement, SMTT(30)
   <2>. QED BY <2>1, <2>2, <2>3, <2>4, Zenon
<1>2. {a, b, c} \ {a} = {b, c} /\ {b, c} \ {b} = {c} /\ {c} \ {c} = {}
   BY Zenon
<1>3. F({}) = 0
   BY <1>1, SumByPick, Zenon
<1>4. F({c}) = f[c] + F({})
   BY <1>1, <1>2, SumTakeOut, Zenon
<1>5. F({b, c}) = f[b] + F({c})
   BY <1>1, <1>2, SumTakeOut, Zenon
<1>6. F({a, b, c}) = f[a] + F({b, c})
   BY <1>1, <1>2, SumTakeOut, Zenon
<1>. HIDE DEF F
<1>7. F({a, b, c}) = f[a] + f[b] + f[c]
   <2>1. f[a] \in Int /\ f[b] \in Int /\ f[c] \in Int
      BY Zenon
   <2>. QED BY <1>3, <1>4, <1>5, <1>6, <2>1
<1>. QED BY <1>7, Zenon DEF F

-----------------------------------------------------------------------------
(* What accounts, asset data and pending fees hold.                         *)

Ledger == [Account -> [Asset -> Int]]
Entry == [current_supply : Int, accumulated_fees : Int, fee_pool : Int,
          confidential_supply : Int, max_supply : Int]
Book == [Asset -> Entry]
Waiting == [Account -> [fees : Int, vested : Int]]

Total(bal, s) == SumFunctionOnSet([a \in Account |-> bal[a][s]], Account)
PendingTotal(p) == SumFunctionOnSet([a \in Account |-> p[a].fees + p[a].vested], Account)

\* 1.3.0 and 1.3.1 in the balances bal, and what of their supply is not in the data dd.
CoreIn(bal) == Total(bal, Core) + Total(bal, Old)
CoreOf(dd) ==
     dd[Core].current_supply - dd[Core].accumulated_fees - dd[Core].confidential_supply
   + dd[Old].current_supply - dd[Old].accumulated_fees - dd[Old].confidential_supply
   - dd[Old].fee_pool - dd[Core].fee_pool - dd[Uia].fee_pool

\* The same of the issued asset.
IssuedIn(bal) == Total(bal, Uia)
IssuedOf(dd) ==
   dd[Uia].current_supply - dd[Uia].accumulated_fees - dd[Uia].confidential_supply

\* The accounts are finitely many, and the three assets are different.
LEMMA Accounts ==
   /\ IsFiniteSet(Account) /\ User \subseteq Account /\ Special \subseteq Account
   /\ Temp \in Account /\ Buyback \in Account /\ Designer \in Account
   /\ Old \in Asset /\ Core \in Asset /\ Uia \in Asset
   /\ \A s \in Asset : s = Old \/ s = Core \/ s = Uia
   /\ Old # Core /\ Old # Uia /\ Core # Uia
<1>1. IsFiniteSet(Account)
   BY TreasuryAssumption, FS_Union, Zenon DEF Account
<1>2. User \subseteq Account /\ Special \subseteq Account
   BY Zenon DEF Account
<1>3. Temp \in Account /\ Buyback \in Account /\ Designer \in Account
   BY <1>2, TreasuryAssumption, Zenon
<1>. QED BY <1>1, <1>2, <1>3 DEF Asset, Old, Core, Uia

\* Totals are numbers.
LEMMA TotalType ==
   ASSUME NEW bal \in Ledger
   PROVE  /\ \A s \in Asset : Total(bal, s) \in Int
          /\ CoreIn(bal) \in Int /\ IssuedIn(bal) \in Int
<1>1. ASSUME NEW s \in Asset PROVE Total(bal, s) \in Int
   <2>. DEFINE f == [a \in Account |-> bal[a][s]]
   <2>1. \A a \in Account : f[a] \in Int
      BY Zenon DEF Ledger
   <2>. HIDE DEF f
   <2>2. SumFunctionOnSet(f, Account) \in Int
      BY <2>1, Accounts, SumType, Zenon
   <2>. QED BY <2>2, Zenon DEF f, Total
<1>. QED BY <1>1, Accounts DEF CoreIn, IssuedIn

\* So is what the asset data leave of the supplies.
LEMMA DataTypes ==
   ASSUME NEW dd \in Book
   PROVE  CoreOf(dd) \in Int /\ IssuedOf(dd) \in Int
BY Accounts DEF Book, Entry, CoreOf, IssuedOf

\* Adjusting one balance of an asset changes the total of that asset by the amount.
LEMMA AdjustedTotal ==
   ASSUME NEW bal \in Ledger, NEW a \in Account, NEW s \in Asset, NEW x \in Int
   PROVE  /\ Adjusted(bal, a, s, x) \in Ledger
          /\ \A t \in Asset : Total(Adjusted(bal, a, s, x), t) =
                              Total(bal, t) + IF t = s THEN x ELSE 0
<1>. DEFINE adj == Adjusted(bal, a, s, x)
<1>1. adj \in Ledger
   BY DEF Adjusted, Ledger
<1>2. \A b \in Account : \A t \in Asset :
         adj[b][t] = IF b = a /\ t = s THEN bal[b][t] + x ELSE bal[b][t]
   BY Zenon DEF Adjusted, Ledger
<1>3. ASSUME NEW t \in Asset
      PROVE  Total(adj, t) = Total(bal, t) + IF t = s THEN x ELSE 0
   <2>. DEFINE f == [b \in Account |-> bal[b][t]]
               g == [b \in Account |-> adj[b][t]]
               d == IF t = s THEN x ELSE 0
   <2>. HIDE DEF adj
   <2>1. \A b \in Account : f[b] \in Int /\ g[b] \in Int
      BY <1>1, Zenon DEF Ledger
   <2>2. \A b \in Account \ {a} : f[b] = g[b]
      BY <1>2, Zenon
   <2>3. g[a] - f[a] = d
      BY <1>2 DEF Ledger
   <2>. HIDE DEF f, g, d
   <2>4. SumFunctionOnSet(g, Account) = SumFunctionOnSet(f, Account) + d
      BY <2>1, <2>2, <2>3, Accounts, SumUpdate
   <2>. QED BY <2>4, Zenon DEF f, g, d, Total
<1>. QED BY <1>1, <1>3, Zenon

\* The two sums of the balances after an adjustment.
LEMMA AdjustedSums ==
   ASSUME NEW bal \in Ledger, NEW a \in Account, NEW s \in Asset, NEW x \in Int
   PROVE  /\ Adjusted(bal, a, s, x) \in Ledger
          /\ CoreIn(Adjusted(bal, a, s, x)) = CoreIn(bal) + IF s = Uia THEN 0 ELSE x
          /\ IssuedIn(Adjusted(bal, a, s, x)) = IssuedIn(bal) + IF s = Uia THEN x ELSE 0
<1>. DEFINE adj == Adjusted(bal, a, s, x)
<1>1. adj \in Ledger
   BY AdjustedTotal, Zenon
<1>2. \A t \in Asset : Total(adj, t) = Total(bal, t) + IF t = s THEN x ELSE 0
   BY AdjustedTotal
<1>3. \A t \in Asset : Total(bal, t) \in Int
   BY TotalType, Zenon
<1>. HIDE DEF adj
<1>4. /\ CoreIn(adj) = CoreIn(bal) + IF s = Uia THEN 0 ELSE x
      /\ IssuedIn(adj) = IssuedIn(bal) + IF s = Uia THEN x ELSE 0
   BY <1>2, <1>3, Accounts DEF CoreIn, IssuedIn
<1>. QED BY <1>1, <1>4, Zenon DEF adj

\* What the data of one asset changes, and nothing else of the data.
LEMMA DataChange ==
   ASSUME NEW dd \in Book, NEW ee \in Book, NEW s \in Asset,
          \A t \in Asset : t # s => ee[t] = dd[t],
          NEW c \in Int, ee[s].current_supply = dd[s].current_supply + c,
          NEW x \in Int, ee[s].accumulated_fees = dd[s].accumulated_fees + x,
          NEW p \in Int, ee[s].fee_pool = dd[s].fee_pool + p,
          NEW b \in Int, ee[s].confidential_supply = dd[s].confidential_supply + b
   PROVE  /\ CoreOf(ee) = CoreOf(dd) + IF s = Uia THEN 0 - p ELSE c - x - p - b
          /\ IssuedOf(ee) = IssuedOf(dd) + IF s = Uia THEN c - x - b ELSE 0
<1>1. /\ \A t \in Asset : dd[t] \in Entry
      /\ dd[Old] \in Entry /\ dd[Core] \in Entry /\ dd[Uia] \in Entry
   BY Accounts, Zenon DEF Book
<1>2. CASE s = Old
   <2>1. ee[Core] = dd[Core] /\ ee[Uia] = dd[Uia]
      BY <1>2, Accounts, Zenon
   <2>. QED BY <1>1, <1>2, <2>1, Accounts, SMTT(30), Z3T(30) DEF Entry, CoreOf, IssuedOf
<1>3. CASE s = Core
   <2>1. ee[Old] = dd[Old] /\ ee[Uia] = dd[Uia]
      BY <1>3, Accounts, ZenonT(30)
   <2>. QED BY <1>1, <1>3, <2>1, Accounts DEF Entry, CoreOf, IssuedOf
<1>4. CASE s = Uia
   <2>1. ee[Old] = dd[Old] /\ ee[Core] = dd[Core]
      BY <1>4, Accounts, Zenon
   <2>. QED BY <1>1, <1>4, <2>1, Accounts, SMTT(30), Z3T(30) DEF Entry, CoreOf, IssuedOf
<1>. QED BY <1>2, <1>3, <1>4, Accounts, Zenon

\* The fee an operation names is a number, and so is its value in the core asset.
LEMMA FeeTypes ==
   ASSUME NEW f \in Fee
   PROVE  /\ f.asset \in Asset /\ f.asset \in {Core, Uia}
          /\ f.amount \in Nat /\ core_fee(f) \in Nat
<1>1. Fees \subseteq Nat /\ Rate \in Nat
   BY TreasuryAssumption, Zenon
<1>2. f.asset \in {Core, Uia} /\ f.amount \in Fees
   BY Zenon DEF Fee
<1>3. f.amount \in Nat /\ f.asset \in Asset
   BY <1>1, <1>2, Accounts, Zenon
<1>4. f.amount * Rate \in Nat
   BY <1>1, <1>3
<1>. QED BY <1>2, <1>3, <1>4, Zenon DEF core_fee

\* convert_fee keeps the sum of what it takes out of the pool of an asset and what it
\* adds to the asset's fees: the core asset it frees is the fee's, and the issued
\* asset it books is the payer's.
LEMMA ConvertSums ==
   ASSUME dyn \in Book, NEW f \in Fee
   PROVE  /\ convert_fee(f) \in Book
          /\ CoreOf(convert_fee(f)) = CoreOf(dyn) + IF f.asset = Uia THEN core_fee(f) ELSE 0
          /\ IssuedOf(convert_fee(f)) = IssuedOf(dyn) - IF f.asset = Uia THEN f.amount ELSE 0
<1>. DEFINE v == core_fee(f)
            ee == convert_fee(f)
<1>1. f.asset \in Asset /\ f.asset \in {Core, Uia} /\ f.amount \in Int /\ v \in Int
   BY FeeTypes
<1>. HIDE DEF v
<1>2. CASE f.asset = Core
   <2>1. ee = dyn
      BY <1>2, Zenon DEF convert_fee
   <2>. QED BY <1>2, <2>1, Accounts, DataTypes
<1>3. CASE f.asset = Uia
   <2>1. ee = [dyn EXCEPT ![Uia].accumulated_fees = @ + f.amount,
                          ![Uia].fee_pool = @ - v]
      BY <1>3, Accounts, Zenon DEF convert_fee, v
   <2>2. dyn[Uia] \in Entry /\ DOMAIN dyn = Asset /\ Uia \in Asset
      BY Accounts, Zenon DEF Book
   <2>3. ee[Uia] = [current_supply |-> dyn[Uia].current_supply,
                    accumulated_fees |-> dyn[Uia].accumulated_fees + f.amount,
                    fee_pool |-> dyn[Uia].fee_pool - v,
                    confidential_supply |-> dyn[Uia].confidential_supply,
                    max_supply |-> dyn[Uia].max_supply]
      BY <2>1, <2>2, Zenon DEF Entry
   <2>4. /\ ee[Uia] \in Entry
         /\ ee[Uia].current_supply = dyn[Uia].current_supply + 0
         /\ ee[Uia].accumulated_fees = dyn[Uia].accumulated_fees + f.amount
         /\ ee[Uia].fee_pool = dyn[Uia].fee_pool + (0 - v)
         /\ ee[Uia].confidential_supply = dyn[Uia].confidential_supply + 0
      BY <1>1, <2>2, <2>3 DEF Entry
   <2>5. ee \in Book
      BY <2>1, <2>2, <2>4, Zenon DEF Book
   <2>6. \A t \in Asset : t # Uia => ee[t] = dyn[t]
      BY <2>1, <2>2, Zenon
   <2>. HIDE DEF ee
   <2>7. /\ CoreOf(ee) = CoreOf(dyn) + (0 - (0 - v))
         /\ IssuedOf(ee) = IssuedOf(dyn) + (0 - f.amount - 0)
      BY <1>1, <2>2, <2>4, <2>5, <2>6, DataChange, SMTT(30), Z3T(30)
   <2>8. CoreOf(dyn) \in Int /\ IssuedOf(dyn) \in Int
      BY DataTypes, Zenon
   <2>9. /\ CoreOf(ee) = CoreOf(dyn) + v /\ IssuedOf(ee) = IssuedOf(dyn) - f.amount
      BY <1>1, <2>7, <2>8, SMTT(30)
   <2>. QED BY <1>3, <2>5, <2>9, Zenon DEF ee, v
<1>. QED BY <1>1, <1>2, <1>3, Zenon

\* pay_fee adds the fee to the pending fees, to those of one kind.
LEMMA PaySum ==
   ASSUME pending \in Waiting, NEW a \in Account, NEW v \in Int
   PROVE  /\ pay_fee(a, v) \in Waiting
          /\ PendingTotal(pay_fee(a, v)) = PendingTotal(pending) + v
<1>. DEFINE new == pay_fee(a, v)
            f == [b \in Account |-> pending[b].fees + pending[b].vested]
            g == [b \in Account |-> new[b].fees + new[b].vested]
<1>1. /\ new \in Waiting
      /\ \A b \in Account \ {a} : new[b] = pending[b]
      /\ new[a].fees + new[a].vested = pending[a].fees + pending[a].vested + v
   <2>1. /\ pending[a] \in [fees : Int, vested : Int] /\ DOMAIN pending = Account
         /\ Threshold \in Int
      BY TreasuryAssumption DEF Waiting
   <2>2. CASE v > Threshold
      <3>1. new = [pending EXCEPT ![a].fees = @ + v]
         BY <2>2, Zenon DEF pay_fee
      <3>. QED BY <2>1, <3>1 DEF Waiting
   <2>3. CASE ~(v > Threshold)
      <3>1. new = [pending EXCEPT ![a].vested = @ + v]
         BY <2>3, Zenon DEF pay_fee
      <3>. QED BY <2>1, <3>1 DEF Waiting
   <2>. QED BY <2>2, <2>3, Zenon
<1>. HIDE DEF new
<1>2. \A b \in Account : f[b] \in Int /\ g[b] \in Int
   BY <1>1 DEF Waiting
<1>3. \A b \in Account \ {a} : f[b] = g[b]
   BY <1>1, Zenon
<1>4. g[a] - f[a] = v
   BY <1>1, SMTT(30), Z3T(30) DEF Waiting
<1>. HIDE DEF f, g
<1>5. SumFunctionOnSet(g, Account) = SumFunctionOnSet(f, Account) + v
   BY <1>2, <1>3, <1>4, Accounts, SumUpdate, SMTT(30), Z3T(30)
<1>. QED BY <1>1, <1>5, Zenon DEF f, g, new, PendingTotal

\* A change of the supply of one asset.
LEMMA SupplyMove ==
   ASSUME NEW dd \in Book, NEW s \in Asset, NEW v \in Int
   PROVE  LET ee == [dd EXCEPT ![s].current_supply = v]
          IN  /\ ee \in Book
              /\ CoreOf(ee) = CoreOf(dd) + (IF s = Uia THEN 0 ELSE v - dd[s].current_supply)
              /\ IssuedOf(ee) = IssuedOf(dd) + (IF s = Uia THEN v - dd[s].current_supply ELSE 0)
<1>. DEFINE ee == [dd EXCEPT ![s].current_supply = v]
            d == v - dd[s].current_supply
<1>1. dd[s] \in Entry /\ DOMAIN dd = Asset
   BY Zenon DEF Book
<1>2. ee[s] = [current_supply |-> v,
               accumulated_fees |-> dd[s].accumulated_fees,
               fee_pool |-> dd[s].fee_pool,
               confidential_supply |-> dd[s].confidential_supply,
               max_supply |-> dd[s].max_supply]
   BY <1>1, Zenon DEF Entry
<1>3. /\ ee[s] \in Entry /\ d \in Int
      /\ ee[s].current_supply = dd[s].current_supply + d
      /\ ee[s].accumulated_fees = dd[s].accumulated_fees + 0
      /\ ee[s].fee_pool = dd[s].fee_pool + 0
      /\ ee[s].confidential_supply = dd[s].confidential_supply + 0
   BY <1>1, <1>2 DEF Entry
<1>4. ee \in Book /\ \A t \in Asset : t # s => ee[t] = dd[t]
   BY <1>1, <1>3, Zenon DEF Book
<1>. HIDE DEF ee, d
<1>5. /\ CoreOf(ee) = CoreOf(dd) + IF s = Uia THEN 0 - 0 ELSE d - 0 - 0 - 0
      /\ IssuedOf(ee) = IssuedOf(dd) + IF s = Uia THEN d - 0 - 0 ELSE 0
   BY <1>3, <1>4, DataChange
<1>6. CoreOf(dd) \in Int /\ IssuedOf(dd) \in Int /\ dd[s].current_supply \in Int
   BY <1>1, DataTypes, Zenon DEF Entry
<1>7. /\ CoreOf(ee) = CoreOf(dd) + (IF s = Uia THEN 0 ELSE v - dd[s].current_supply)
      /\ IssuedOf(ee) = IssuedOf(dd) + (IF s = Uia THEN v - dd[s].current_supply ELSE 0)
   BY <1>3, <1>5, <1>6 DEF d
<1>. QED BY <1>4, <1>7, Zenon DEF ee

\* A change of the fees accumulated in one asset.
LEMMA FeesMove ==
   ASSUME NEW dd \in Book, NEW s \in Asset, NEW v \in Int
   PROVE  LET ee == [dd EXCEPT ![s].accumulated_fees = v]
          IN  /\ ee \in Book
              /\ CoreOf(ee) = CoreOf(dd) + (IF s = Uia THEN 0 ELSE dd[s].accumulated_fees - v)
              /\ IssuedOf(ee) = IssuedOf(dd) + (IF s = Uia THEN dd[s].accumulated_fees - v ELSE 0)
<1>. DEFINE ee == [dd EXCEPT ![s].accumulated_fees = v]
            d == v - dd[s].accumulated_fees
<1>1. dd[s] \in Entry /\ DOMAIN dd = Asset
   BY Zenon DEF Book
<1>2. ee[s] = [current_supply |-> dd[s].current_supply,
               accumulated_fees |-> v,
               fee_pool |-> dd[s].fee_pool,
               confidential_supply |-> dd[s].confidential_supply,
               max_supply |-> dd[s].max_supply]
   BY <1>1, Zenon DEF Entry
<1>3. /\ ee[s] \in Entry /\ d \in Int
      /\ ee[s].current_supply = dd[s].current_supply + 0
      /\ ee[s].accumulated_fees = dd[s].accumulated_fees + d
      /\ ee[s].fee_pool = dd[s].fee_pool + 0
      /\ ee[s].confidential_supply = dd[s].confidential_supply + 0
   BY <1>1, <1>2 DEF Entry
<1>4. ee \in Book /\ \A t \in Asset : t # s => ee[t] = dd[t]
   BY <1>1, <1>3, Zenon DEF Book
<1>. HIDE DEF ee, d
<1>5. /\ CoreOf(ee) = CoreOf(dd) + IF s = Uia THEN 0 - 0 ELSE 0 - d - 0 - 0
      /\ IssuedOf(ee) = IssuedOf(dd) + IF s = Uia THEN 0 - d - 0 ELSE 0
   BY <1>3, <1>4, DataChange
<1>6. CoreOf(dd) \in Int /\ IssuedOf(dd) \in Int /\ dd[s].accumulated_fees \in Int
   BY <1>1, DataTypes, Zenon DEF Entry
<1>7. /\ CoreOf(ee) = CoreOf(dd) + (IF s = Uia THEN 0 ELSE dd[s].accumulated_fees - v)
      /\ IssuedOf(ee) = IssuedOf(dd) + (IF s = Uia THEN dd[s].accumulated_fees - v ELSE 0)
   BY <1>3, <1>5, <1>6 DEF d
<1>. QED BY <1>4, <1>7, Zenon DEF ee

\* A change of the blinded balances of one asset.
LEMMA BlindMove ==
   ASSUME NEW dd \in Book, NEW s \in Asset, NEW v \in Int
   PROVE  LET ee == [dd EXCEPT ![s].confidential_supply = v]
          IN  /\ ee \in Book
              /\ CoreOf(ee) = CoreOf(dd) + (IF s = Uia THEN 0 ELSE dd[s].confidential_supply - v)
              /\ IssuedOf(ee) = IssuedOf(dd) + (IF s = Uia THEN dd[s].confidential_supply - v ELSE 0)
<1>. DEFINE ee == [dd EXCEPT ![s].confidential_supply = v]
            d == v - dd[s].confidential_supply
<1>1. dd[s] \in Entry /\ DOMAIN dd = Asset
   BY Zenon DEF Book
<1>2. ee[s] = [current_supply |-> dd[s].current_supply,
               accumulated_fees |-> dd[s].accumulated_fees,
               fee_pool |-> dd[s].fee_pool,
               confidential_supply |-> v,
               max_supply |-> dd[s].max_supply]
   BY <1>1, Zenon DEF Entry
<1>3. /\ ee[s] \in Entry /\ d \in Int
      /\ ee[s].current_supply = dd[s].current_supply + 0
      /\ ee[s].accumulated_fees = dd[s].accumulated_fees + 0
      /\ ee[s].fee_pool = dd[s].fee_pool + 0
      /\ ee[s].confidential_supply = dd[s].confidential_supply + d
   BY <1>1, <1>2 DEF Entry
<1>4. ee \in Book /\ \A t \in Asset : t # s => ee[t] = dd[t]
   BY <1>1, <1>3, Zenon DEF Book
<1>. HIDE DEF ee, d
<1>5. /\ CoreOf(ee) = CoreOf(dd) + IF s = Uia THEN 0 - 0 ELSE 0 - 0 - 0 - d
      /\ IssuedOf(ee) = IssuedOf(dd) + IF s = Uia THEN 0 - 0 - d ELSE 0
   BY <1>3, <1>4, DataChange
<1>6. CoreOf(dd) \in Int /\ IssuedOf(dd) \in Int /\ dd[s].confidential_supply \in Int
   BY <1>1, DataTypes, Zenon DEF Entry
<1>7. /\ CoreOf(ee) = CoreOf(dd) + (IF s = Uia THEN 0 ELSE dd[s].confidential_supply - v)
      /\ IssuedOf(ee) = IssuedOf(dd) + (IF s = Uia THEN dd[s].confidential_supply - v ELSE 0)
   BY <1>3, <1>5, <1>6 DEF d
<1>. QED BY <1>4, <1>7, Zenon DEF ee

\* A change of the fee pool of one asset, which is core asset.
LEMMA PoolMove ==
   ASSUME NEW dd \in Book, NEW s \in Asset, NEW v \in Int
   PROVE  LET ee == [dd EXCEPT ![s].fee_pool = v]
          IN  /\ ee \in Book
              /\ CoreOf(ee) = CoreOf(dd) + (dd[s].fee_pool - v)
              /\ IssuedOf(ee) = IssuedOf(dd)
<1>. DEFINE ee == [dd EXCEPT ![s].fee_pool = v]
            d == v - dd[s].fee_pool
<1>1. dd[s] \in Entry /\ DOMAIN dd = Asset
   BY Zenon DEF Book
<1>2. ee[s] = [current_supply |-> dd[s].current_supply,
               accumulated_fees |-> dd[s].accumulated_fees,
               fee_pool |-> v,
               confidential_supply |-> dd[s].confidential_supply,
               max_supply |-> dd[s].max_supply]
   BY <1>1, Zenon DEF Entry
<1>3. /\ ee[s] \in Entry /\ d \in Int
      /\ ee[s].current_supply = dd[s].current_supply + 0
      /\ ee[s].accumulated_fees = dd[s].accumulated_fees + 0
      /\ ee[s].fee_pool = dd[s].fee_pool + d
      /\ ee[s].confidential_supply = dd[s].confidential_supply + 0
   BY <1>1, <1>2 DEF Entry
<1>4. ee \in Book /\ \A t \in Asset : t # s => ee[t] = dd[t]
   BY <1>1, <1>3, Zenon DEF Book
<1>. HIDE DEF ee, d
<1>5. /\ CoreOf(ee) = CoreOf(dd) + IF s = Uia THEN 0 - d ELSE 0 - 0 - d - 0
      /\ IssuedOf(ee) = IssuedOf(dd) + IF s = Uia THEN 0 - 0 - 0 ELSE 0
   BY <1>3, <1>4, DataChange
<1>6. CoreOf(dd) \in Int /\ IssuedOf(dd) \in Int /\ dd[s].fee_pool \in Int
   BY <1>1, DataTypes, ZenonT(30) DEF Entry
<1>7. /\ CoreOf(ee) = CoreOf(dd) + (dd[s].fee_pool - v)
      /\ IssuedOf(ee) = IssuedOf(dd)
   BY <1>3, <1>5, <1>6 DEF d
<1>. QED BY <1>4, <1>7, Zenon DEF ee

-----------------------------------------------------------------------------
(* The invariant of conservation.                                           *)

\* Everything is a number, of which kind conservation does not ask, and the fee pool of
\* an asset is empty until asset_create makes the asset.
Shape ==
   /\ balance \in Ledger /\ dyn \in Book /\ pending \in Waiting
   /\ vesting \in Int /\ locked \in Int /\ witness_budget \in Int
   /\ reward_pool \in Int /\ cleared \in Int
   /\ fba \in [FbaId -> Int] /\ issuer \in [Asset -> User \cup {NoIssuer}]
   /\ issuer[Uia] = NoIssuer => dyn[Uia].fee_pool = 0

FbaTotal(x) == SumFunctionOnSet(x, FbaId)

\* What holds the core asset besides balances, asset data and pending fees.
Elsewhere == vesting + locked + witness_budget + reward_pool + FbaTotal(fba) + cleared

\* The three accumulators.
LEMMA FbaSum ==
   ASSUME NEW x, \A i \in FbaId : x[i] \in Int
   PROVE  /\ FbaTotal(x) \in Int
          /\ FbaTotal(x) = x["transfer_to_blind"] + x["blind_transfer"] + x["transfer_from_blind"]
<1>1. /\ x["transfer_to_blind"] \in Int /\ x["blind_transfer"] \in Int
      /\ x["transfer_from_blind"] \in Int
   BY Zenon DEF FbaId
<1>2. FbaTotal(x) = x["transfer_to_blind"] + x["blind_transfer"] + x["transfer_from_blind"]
   <2>1. /\ "transfer_to_blind" # "blind_transfer" /\ "transfer_to_blind" # "transfer_from_blind"
         /\ "blind_transfer" # "transfer_from_blind"
         /\ "transfer_to_blind" \in FbaId /\ "blind_transfer" \in FbaId
         /\ "transfer_from_blind" \in FbaId
      BY Zenon DEF FbaId
   <2>2. FbaId = {"transfer_to_blind", "blind_transfer", "transfer_from_blind"}
      BY Zenon DEF FbaId
   <2>3. \A a, b, c \in FbaId : a # b /\ a # c /\ b # c /\ FbaId = {a, b, c} =>
             SumFunctionOnSet(x, FbaId) = x[a] + x[b] + x[c]
      BY SumOfThree
   <2>. QED BY <2>1, <2>2, <2>3, Zenon DEF FbaTotal
<1>. QED BY <1>1, <1>2

\* Pending fees sum to a number.
LEMMA PendingType ==
   ASSUME NEW p \in Waiting
   PROVE  PendingTotal(p) \in Int
<1>. DEFINE f == [a \in Account |-> p[a].fees + p[a].vested]
<1>1. \A a \in Account : f[a] \in Int
   BY DEF Waiting
<1>. HIDE DEF f
<1>2. SumFunctionOnSet(f, Account) \in Int
   BY <1>1, Accounts, SumType, Zenon
<1>. QED BY <1>2, Zenon DEF f, PendingTotal

\* Both conservation properties as equations between those sums.
LEMMA Equations ==
   Shape => /\ CoreConserved <=> CoreOf(dyn) = CoreIn(balance) + PendingTotal(pending) + Elsewhere
            /\ IssuedConserved <=> IssuedOf(dyn) = IssuedIn(balance)
            /\ PendingTotal(pending) \in Int /\ Elsewhere \in Int
<1>. SUFFICES ASSUME Shape
              PROVE  /\ CoreConserved <=> CoreOf(dyn) = CoreIn(balance) + PendingTotal(pending) + Elsewhere
                     /\ IssuedConserved <=> IssuedOf(dyn) = IssuedIn(balance)
                     /\ PendingTotal(pending) \in Int /\ Elsewhere \in Int
   BY Zenon
<1>1. \A s \in Asset : InBalances(s) = Total(balance, s) /\ Total(balance, s) \in Int
   BY TotalType, Zenon DEF Shape, InBalances, Total, SumFunction
<1>2. InPending = PendingTotal(pending) /\ PendingTotal(pending) \in Int
   BY PendingType, Zenon DEF Shape, InPending, PendingTotal, SumFunction
<1>3. SumFunction(fba) = FbaTotal(fba) /\ FbaTotal(fba) \in Int
   BY FbaSum, Zenon DEF Shape, FbaTotal, SumFunction
<1>4. dyn[Old] \in Entry /\ dyn[Core] \in Entry /\ dyn[Uia] \in Entry
   BY Accounts, Zenon DEF Shape, Book
<1>5. InPools = dyn[Old].fee_pool + dyn[Core].fee_pool + dyn[Uia].fee_pool
   <2>. DEFINE f == [s \in Asset |-> dyn[s].fee_pool]
   <2>1. /\ f[Old] = dyn[Old].fee_pool /\ f[Core] = dyn[Core].fee_pool
         /\ f[Uia] = dyn[Uia].fee_pool /\ DOMAIN f = Asset
      BY Accounts, Zenon
   <2>2. f[Old] \in Int /\ f[Core] \in Int /\ f[Uia] \in Int
      BY <1>4, <2>1, Zenon DEF Entry
   <2>. HIDE DEF f
   <2>3. SumFunctionOnSet(f, Asset) = f[Old] + f[Core] + f[Uia]
      <3>1. Old # Core /\ Old # Uia /\ Core # Uia /\ Old \in Asset /\ Core \in Asset /\ Uia \in Asset
         BY Accounts, Zenon
      <3>2. \A s \in Asset : f[s] \in Int
         BY <2>2, Accounts, Zenon
      <3>3. Asset = {Old, Core, Uia}
         BY Zenon DEF Asset
      <3>4. \A a, b, c \in Asset : a # b /\ a # c /\ b # c /\ Asset = {a, b, c} =>
                SumFunctionOnSet(f, Asset) = f[a] + f[b] + f[c]
         BY <3>2, SumOfThree
      <3>. QED BY <3>1, <3>3, <3>4, Zenon
   <2>. QED BY <2>1, <2>3, Zenon DEF f, InPools, SumFunction
<1>6. Elsewhere \in Int
   BY <1>3, SMTT(30), Z3T(30) DEF Shape, Elsewhere
<1>7. IssuedConserved <=> IssuedOf(dyn) = IssuedIn(balance)
   BY <1>1, <1>4, Accounts, SMTT(30), Z3T(30) DEF Entry, IssuedConserved, IssuedOf, IssuedIn, InAsset
<1>8. CoreConserved <=> CoreOf(dyn) = CoreIn(balance) + PendingTotal(pending) + Elsewhere
   <2>. DEFINE S == FbaTotal(fba)
               Q == PendingTotal(pending)
   <2>1. S \in Int /\ Q \in Int
      BY <1>2, <1>3, Zenon
   <2>2. InBalances(Core) = Total(balance, Core) /\ InBalances(Old) = Total(balance, Old)
      BY <1>1, Accounts, Zenon
   <2>3. Total(balance, Core) \in Int /\ Total(balance, Old) \in Int
      BY <1>1, Accounts, Zenon
   <2>4. SumFunction(fba) = S /\ InPending = Q
      BY <1>2, <1>3, Zenon
   <2>5. /\ vesting \in Int /\ locked \in Int /\ witness_budget \in Int
         /\ reward_pool \in Int /\ cleared \in Int
      BY Zenon DEF Shape
   <2>6. Elsewhere = vesting + locked + witness_budget + reward_pool + S + cleared
      BY Zenon DEF Elsewhere
   <2>. HIDE DEF S
   <2>. QED
      BY <1>4, <1>5, <2>1, <2>2, <2>3, <2>4, <2>5, <2>6, SMTT(30), Z3T(30)
      DEF Entry, CoreConserved, CoreOf, CoreIn, InAsset, InChain
<1>. QED BY <1>2, <1>6, <1>7, <1>8, Zenon

\* The core asset that balances, asset data and pending fees leave, and the issued one.
Free == CoreOf(dyn) - CoreIn(balance) - PendingTotal(pending)
FreeIssued == IssuedOf(dyn) - IssuedIn(balance)

\* The inductive invariant: it is both conservation properties, with Shape.
Books == Shape /\ Free = Elsewhere /\ FreeIssued = 0

\* The sums the books compare are numbers.
LEMMA BooksTypes ==
   ASSUME Shape
   PROVE  /\ CoreOf(dyn) \in Int /\ CoreIn(balance) \in Int /\ PendingTotal(pending) \in Int
          /\ IssuedOf(dyn) \in Int /\ IssuedIn(balance) \in Int
          /\ Free \in Int /\ FreeIssued \in Int /\ Elsewhere \in Int
<1>1. balance \in Ledger /\ dyn \in Book /\ pending \in Waiting
   BY Zenon DEF Shape
<1>2. /\ CoreOf(dyn) \in Int /\ CoreIn(balance) \in Int /\ PendingTotal(pending) \in Int
      /\ IssuedOf(dyn) \in Int /\ IssuedIn(balance) \in Int
   BY <1>1, TotalType, DataTypes, PendingType, Zenon
<1>. QED BY <1>2, Equations DEF Free, FreeIssued

\* The books balance exactly when both properties hold.
LEMMA BooksMeaning ==
   ASSUME Shape
   PROVE  Books <=> CoreConserved /\ IssuedConserved
<1>1. CoreConserved <=> Free = Elsewhere
   BY BooksTypes, Equations DEF Free
<1>2. IssuedConserved <=> FreeIssued = 0
   <2>1. IssuedConserved <=> IssuedOf(dyn) = IssuedIn(balance)
      BY Equations, Zenon
   <2>2. IssuedOf(dyn) \in Int /\ IssuedIn(balance) \in Int
      BY BooksTypes, Zenon
   <2>. QED BY <2>1, <2>2 DEF FreeIssued
<1>. QED BY <1>1, <1>2, Zenon DEF Books

\* What apply does to the books: the fee moves between them, so that only what do_apply
\* adds to the balances (d, and e of the issued asset) and to the data (c, and e) tells.
LEMMA ApplySums ==
   ASSUME Books, NEW a \in User, NEW f \in Fee, NEW bal \in Ledger, NEW dd \in Book,
          NEW c \in Int, NEW d \in Int, NEW e \in Int
   PROVE  /\ apply(a, f, bal, dd)
          /\ CoreOf(dd) = CoreOf(convert_fee(f)) + c /\ CoreIn(bal) = CoreIn(balance) + d
          /\ IssuedOf(dd) = IssuedOf(convert_fee(f)) + e /\ IssuedIn(bal) = IssuedIn(balance) + e
          => /\ balance' \in Ledger /\ dyn' = dd /\ pending' \in Waiting
             /\ Free' = Free + c - d /\ FreeIssued' = 0
<1>. DEFINE v == core_fee(f)
            new == Charged(bal, a, f)
            pen == pay_fee(a, v)
<1>0. SUFFICES
         ASSUME apply(a, f, bal, dd),
                CoreOf(dd) = CoreOf(convert_fee(f)) + c, CoreIn(bal) = CoreIn(balance) + d,
                IssuedOf(dd) = IssuedOf(convert_fee(f)) + e,
                IssuedIn(bal) = IssuedIn(balance) + e
         PROVE  /\ balance' \in Ledger /\ dyn' = dd /\ pending' \in Waiting
                /\ Free' = Free + c - d /\ FreeIssued' = 0
   BY Zenon
<1>1. Shape /\ a \in Account /\ FreeIssued = 0
   BY Accounts, Zenon DEF Books
<1>2. /\ f.asset \in Asset /\ f.asset \in {Core, Uia} /\ f.amount \in Int /\ v \in Int
      /\ 0 - f.amount \in Int
   BY FeeTypes
<1>3. /\ new \in Ledger
      /\ CoreIn(new) = CoreIn(bal) + IF f.asset = Uia THEN 0 ELSE 0 - f.amount
      /\ IssuedIn(new) = IssuedIn(bal) + IF f.asset = Uia THEN 0 - f.amount ELSE 0
   BY <1>1, <1>2, AdjustedSums, ZenonT(30) DEF Charged
<1>4. /\ CoreOf(convert_fee(f)) = CoreOf(dyn) + IF f.asset = Uia THEN v ELSE 0
      /\ IssuedOf(convert_fee(f)) = IssuedOf(dyn) - IF f.asset = Uia THEN f.amount ELSE 0
   BY <1>1, ConvertSums, Zenon DEF Shape
<1>5. pen \in Waiting /\ PendingTotal(pen) = PendingTotal(pending) + v
   BY <1>1, <1>2, PaySum, Zenon DEF Shape
<1>6. f.asset # Uia => v = f.amount
   BY <1>2, Accounts, Zenon DEF core_fee
<1>7. balance' = new /\ dyn' = dd /\ pending' = pen
   BY <1>0, Zenon DEF apply
<1>8. /\ CoreOf(dyn) \in Int /\ CoreIn(balance) \in Int /\ PendingTotal(pending) \in Int
      /\ IssuedOf(dyn) \in Int /\ IssuedIn(balance) \in Int
      /\ FreeIssued = IssuedOf(dyn) - IssuedIn(balance)
      /\ Free = CoreOf(dyn) - CoreIn(balance) - PendingTotal(pending)
   BY <1>1, BooksTypes, Zenon DEF Free, FreeIssued
<1>9. Free' = CoreOf(dd) - CoreIn(new) - PendingTotal(pen)
   BY <1>7, Zenon DEF Free
<1>10. FreeIssued' = IssuedOf(dd) - IssuedIn(new)
   BY <1>7, Zenon DEF FreeIssued
<1>. HIDE DEF v, new, pen
<1>11. Free' = Free + c - d
   BY <1>0, <1>2, <1>3, <1>4, <1>5, <1>6, <1>8, <1>9, SMTT(30), Z3T(30)
<1>12. FreeIssued' = 0
   BY <1>0, <1>1, <1>2, <1>3, <1>4, <1>8, <1>10, SMTT(30), Z3T(30)
<1>. QED BY <1>3, <1>5, <1>7, <1>11, <1>12, Zenon

\* An asset that does not exist has an empty fee pool after the conversion of a fee.
LEMMA ConvertPool ==
   ASSUME Shape, NEW f \in Fee, Exists(f.asset)
   PROVE  issuer[Uia] = NoIssuer => convert_fee(f)[Uia].fee_pool = 0
<1>. SUFFICES ASSUME issuer[Uia] = NoIssuer PROVE convert_fee(f)[Uia].fee_pool = 0
   BY Zenon
<1>1. f.asset = Core
   BY FeeTypes, Zenon DEF Exists
<1>. QED BY <1>1, Zenon DEF convert_fee, Shape

\* An operation keeps the books when what it puts into or takes out of the vesting and
\* locked balances, or clears, is what apply leaves.
LEMMA ApplyKeeps ==
   ASSUME Books, NEW a \in User, NEW f \in Fee, NEW bal \in Ledger, NEW dd \in Book,
          NEW c \in Int, NEW d \in Int, NEW e \in Int
   PROVE  /\ apply(a, f, bal, dd)
          /\ CoreOf(dd) = CoreOf(convert_fee(f)) + c /\ CoreIn(bal) = CoreIn(balance) + d
          /\ IssuedOf(dd) = IssuedOf(convert_fee(f)) + e /\ IssuedIn(bal) = IssuedIn(balance) + e
          /\ vesting' \in Int /\ locked' \in Int /\ cleared' \in Int /\ fba' = fba
          /\ vesting' + locked' + cleared' = vesting + locked + cleared + c - d
          /\ issuer' \in [Asset -> User \cup {NoIssuer}]
          /\ issuer'[Uia] = NoIssuer => dd[Uia].fee_pool = 0
          => Books'
<1>0. SUFFICES
         ASSUME apply(a, f, bal, dd),
                CoreOf(dd) = CoreOf(convert_fee(f)) + c, CoreIn(bal) = CoreIn(balance) + d,
                IssuedOf(dd) = IssuedOf(convert_fee(f)) + e,
                IssuedIn(bal) = IssuedIn(balance) + e,
                vesting' \in Int, locked' \in Int, cleared' \in Int, fba' = fba,
                vesting' + locked' + cleared' = vesting + locked + cleared + c - d,
                issuer' \in [Asset -> User \cup {NoIssuer}],
                issuer'[Uia] = NoIssuer => dd[Uia].fee_pool = 0
         PROVE  Books'
   BY ZenonT(30)
<1>1. /\ balance' \in Ledger /\ dyn' = dd /\ pending' \in Waiting
      /\ Free' = Free + c - d /\ FreeIssued' = 0
   BY <1>0, ApplySums, Zenon
<1>2. witness_budget' = witness_budget /\ reward_pool' = reward_pool
   BY <1>0, Zenon DEF apply, chainVars
<1>3. Shape /\ Free = Elsewhere
   BY Zenon DEF Books
<1>4. Shape'
   BY <1>0, <1>1, <1>2, <1>3, Zenon DEF Shape
<1>5. Elsewhere' = Elsewhere + c - d
   <2>1. FbaTotal(fba)' = FbaTotal(fba) /\ FbaTotal(fba) \in Int
      BY <1>0, <1>3, FbaSum, ZenonT(30) DEF Shape
   <2>2. /\ vesting \in Int /\ locked \in Int /\ cleared \in Int
         /\ witness_budget \in Int /\ reward_pool \in Int
      BY <1>3, Zenon DEF Shape
   <2>3. Elsewhere' = vesting' + locked' + witness_budget + reward_pool + FbaTotal(fba) + cleared'
      BY <1>2, <2>1, Zenon DEF Elsewhere
   <2>4. /\ vesting' \in Int /\ locked' \in Int /\ cleared' \in Int
         /\ vesting' + locked' + cleared' = vesting + locked + cleared + c - d
      BY <1>0, Zenon
   <2>5. Elsewhere = vesting + locked + witness_budget + reward_pool + FbaTotal(fba) + cleared
      BY Zenon DEF Elsewhere
   <2>. DEFINE rest == witness_budget + reward_pool + FbaTotal(fba)
   <2>6. rest \in Int
      BY <2>1, <2>2, SMTT(30), Z3T(30)
   <2>7. /\ Elsewhere' = vesting' + locked' + cleared' + rest
         /\ Elsewhere = vesting + locked + cleared + rest
      BY <2>1, <2>2, <2>3, <2>4, <2>5, SMTT(30), Z3T(30)
   <2>. HIDE DEF rest
   <2>. DEFINE old == vesting + locked + cleared
               new == vesting' + locked' + cleared'
   <2>8. old \in Int /\ new \in Int /\ new = old + (c - d)
      <3>1. old \in Int
        BY <2>2
      <3>2. new \in Int
        BY <2>4
      <3>3. new = old + c - d
        BY <2>4, Zenon
      <3>4. old + c - d = old + (c - d)
        BY <2>2, Zenon
      <3>. QED BY <3>1, <3>2, <3>3, <3>4, ZenonT(30)
   <2>9. Elsewhere' = new + rest /\ Elsewhere = old + rest
      BY <2>7, Zenon
   <2>. HIDE DEF old, new
   <2>. QED BY <2>6, <2>8, <2>9, SMTT(30), Z3T(30)
<1>. QED BY <1>1, <1>3, <1>4, <1>5, Zenon DEF Books

\* What holds before an operation, and of the data once its fee is converted.
LEMMA Before ==
   ASSUME Books, NEW a \in User, NEW f \in Fee, Exists(f.asset)
   PROVE  /\ a \in Account /\ balance \in Ledger
          /\ CoreIn(balance) \in Int /\ IssuedIn(balance) \in Int
          /\ convert_fee(f) \in Book
          /\ CoreOf(convert_fee(f)) \in Int /\ IssuedOf(convert_fee(f)) \in Int
          /\ issuer[Uia] = NoIssuer => convert_fee(f)[Uia].fee_pool = 0
          /\ vesting \in Int /\ locked \in Int /\ cleared \in Int
          /\ issuer \in [Asset -> User \cup {NoIssuer}]
<1>1. Shape
   BY Zenon DEF Books
<1>2. a \in Account
   BY Accounts, Zenon
<1>3. CoreIn(balance) \in Int /\ IssuedIn(balance) \in Int
   BY <1>1, BooksTypes, Zenon
<1>4. convert_fee(f) \in Book
   BY <1>1, ConvertSums, ZenonT(30) DEF Shape
<1>5. CoreOf(convert_fee(f)) \in Int /\ IssuedOf(convert_fee(f)) \in Int
   BY <1>4, DataTypes, ZenonT(30)
<1>. QED BY <1>1, <1>2, <1>3, <1>4, <1>5, ConvertPool, ZenonT(30) DEF Shape

\* The amount of an operation is a number.
LEMMA AmountType ==
   ASSUME NEW x \in Amounts
   PROVE  x \in Nat /\ x \in Int /\ 0 - x \in Int
BY TreasuryAssumption

\* An operation that only moves core asset between a balance and the vesting or the
\* locked balances, or asset between balances, keeps the books.
LEMMA CoreMoves ==
   ASSUME Books, NEW a \in User, NEW f \in Fee, NEW bal \in Ledger,
          NEW p \in Int, NEW q \in Int
   PROVE  /\ apply(a, f, bal, convert_fee(f))
          /\ CoreIn(bal) = CoreIn(balance) + (0 - p - q) /\ IssuedIn(bal) = IssuedIn(balance)
          /\ vesting' = vesting + p /\ locked' = locked + q
          /\ UNCHANGED <<issuer, fba, cleared>>
          => Books'
<1>. DEFINE dd == convert_fee(f)
            z == 0
            d == 0 - p - q
<1>1. SUFFICES
         ASSUME apply(a, f, bal, dd),
                CoreIn(bal) = CoreIn(balance) + (0 - p - q), IssuedIn(bal) = IssuedIn(balance),
                vesting' = vesting + p, locked' = locked + q,
                UNCHANGED <<issuer, fba, cleared>>
         PROVE  Books'
   BY Zenon
<1>2. Exists(f.asset)
   BY <1>1, ZenonT(30) DEF apply, prepare_fee
<1>3. /\ dd \in Book /\ CoreOf(dd) \in Int /\ IssuedOf(dd) \in Int
      /\ IssuedIn(balance) \in Int
      /\ issuer[Uia] = NoIssuer => dd[Uia].fee_pool = 0
      /\ vesting \in Int /\ locked \in Int /\ cleared \in Int
      /\ issuer \in [Asset -> User \cup {NoIssuer}]
   BY <1>2, Before, ZenonT(30)
<1>. HIDE DEF dd, z, d
<1>4. /\ CoreOf(dd) = CoreOf(dd) + z /\ IssuedOf(dd) = IssuedOf(dd) + z
      /\ IssuedIn(bal) = IssuedIn(balance) + z
   BY <1>1, <1>3 DEF z
<1>5. issuer' = issuer /\ cleared' = cleared /\ fba' = fba
   BY <1>1, Zenon
<1>6. vesting' + locked' + cleared' = vesting + locked + cleared + z - d
   <2>1. vesting' = vesting + p /\ locked' = locked + q
      BY <1>1, Zenon
   <2>2. vesting \in Int /\ locked \in Int /\ cleared \in Int
      BY <1>3, ZenonT(30)
   <2>. QED BY <1>5, <2>1, <2>2, SMTT(30), Z3T(30) DEF z, d
<1>7. /\ vesting' \in Int /\ locked' \in Int /\ cleared' \in Int
      /\ issuer' \in [Asset -> User \cup {NoIssuer}]
      /\ issuer'[Uia] = NoIssuer => dd[Uia].fee_pool = 0
   BY <1>1, <1>3, <1>5, SMTT(30), Z3T(30)
<1>8. z \in Int /\ d \in Int
   BY DEF z, d
<1>9. CoreIn(bal) = CoreIn(balance) + d /\ apply(a, f, bal, dd)
   BY <1>1, Zenon DEF d
<1>. QED BY <1>3, <1>4, <1>5, <1>6, <1>7, <1>8, <1>9, ApplyKeeps, ZenonT(30) DEF dd

\* A transfer moves the amount from one balance to another.
LEMMA TransferKeeps ==
   ASSUME Books, NEW a \in User, NEW f \in Fee, NEW b \in User, NEW s \in Asset,
          NEW x \in Amounts, transfer(a, b, s, x, f)
   PROVE  Books'
<1>. DEFINE taken == Adjusted(balance, a, s, 0 - x)
            bal == Adjusted(taken, b, s, x)
<1>1. /\ x \in Int /\ 0 - x \in Int /\ a \in Account /\ b \in Account /\ balance \in Ledger
      /\ vesting \in Int /\ locked \in Int
   BY AmountType, Accounts, Zenon DEF Books, Shape
<1>2. /\ taken \in Ledger
      /\ CoreIn(taken) = CoreIn(balance) + IF s = Uia THEN 0 ELSE 0 - x
      /\ IssuedIn(taken) = IssuedIn(balance) + IF s = Uia THEN 0 - x ELSE 0
   BY <1>1, AdjustedSums, ZenonT(30)
<1>3. CoreIn(balance) \in Int /\ IssuedIn(balance) \in Int
   BY <1>1, TotalType, Zenon
<1>4. /\ bal \in Ledger /\ CoreIn(bal) = CoreIn(balance) + (0 - 0 - 0)
      /\ IssuedIn(bal) = IssuedIn(balance)
   <2>. HIDE DEF taken
   <2>1. /\ bal \in Ledger
         /\ CoreIn(bal) = CoreIn(taken) + IF s = Uia THEN 0 ELSE x
         /\ IssuedIn(bal) = IssuedIn(taken) + IF s = Uia THEN x ELSE 0
      BY <1>1, <1>2, AdjustedSums, SMTT(30), Z3T(30)
   <2>. HIDE DEF bal
   <2>. QED BY <1>1, <1>2, <1>3, <2>1, SMTT(30)
<1>. HIDE DEF bal
<1>5. apply(a, f, bal, convert_fee(f)) /\ UNCHANGED <<issuer, vesting, locked, fba, cleared>>
   BY Zenon DEF transfer, bal
<1>6. vesting' = vesting + 0 /\ locked' = locked + 0
   BY <1>1, <1>5
<1>. QED BY <1>4, <1>5, <1>6, CoreMoves, SMTT(30), Z3T(30)

\* balance_lock, balance_unlock and the vesting balances.
LEMMA LockKeeps ==
   ASSUME Books, NEW a \in User, NEW f \in Fee, NEW x \in Amounts,
          \/ balance_lock(a, x, f) \/ balance_unlock(a, x, f)
          \/ vesting_balance_create(a, x, f) \/ vesting_balance_withdraw(a, x, f)
   PROVE  Books'
<1>1. /\ x \in Int /\ 0 - x \in Int /\ a \in Account /\ balance \in Ledger
      /\ vesting \in Int /\ locked \in Int /\ Core \in Asset /\ Core # Uia
   BY AmountType, Accounts, Zenon DEF Books, Shape
<1>2. CoreIn(balance) \in Int /\ IssuedIn(balance) \in Int
   BY <1>1, TotalType, Zenon
<1>3. ASSUME NEW d \in Int, apply(a, f, Adjusted(balance, a, Core, d), convert_fee(f)),
             NEW p \in Int, NEW q \in Int, d = 0 - p - q,
             vesting' = vesting + p, locked' = locked + q, UNCHANGED <<issuer, fba, cleared>>
      PROVE  Books'
   <2>. DEFINE bal == Adjusted(balance, a, Core, d)
   <2>1. /\ bal \in Ledger /\ CoreIn(bal) = CoreIn(balance) + (0 - p - q)
         /\ IssuedIn(bal) = IssuedIn(balance)
      BY <1>1, <1>2, <1>3, AdjustedSums, SMTT(30), Z3T(30)
   <2>. QED BY <1>3, <2>1, CoreMoves, ZenonT(30)
<1>4. CASE balance_lock(a, x, f)
   <2>1. /\ apply(a, f, Adjusted(balance, a, Core, 0 - x), convert_fee(f))
         /\ UNCHANGED <<issuer, fba, cleared>>
         /\ vesting' = vesting + (0) /\ locked' = locked + (x)
      <3>1. vesting' = vesting /\ locked' = locked + x
         BY <1>4, ZenonT(30) DEF balance_lock
      <3>2. vesting = vesting + (0)
         BY <1>1
      <3>. QED BY <1>4, <3>1, <3>2, ZenonT(30) DEF balance_lock
   <2>2. 0 - x = 0 - (0) - (x)
      BY <1>1, SMTT(30), Z3T(30)
   <2>. QED BY <1>1, <1>3, <2>1, <2>2, SMTT(30), Z3T(30)
<1>5. CASE balance_unlock(a, x, f)
   <2>1. /\ apply(a, f, Adjusted(balance, a, Core, x), convert_fee(f))
         /\ UNCHANGED <<issuer, fba, cleared>>
         /\ vesting' = vesting + (0) /\ locked' = locked + (0 - x)
      BY <1>1, <1>5, SMTT(30), Z3T(30) DEF balance_unlock
   <2>2. x = 0 - (0) - (0 - x)
      BY <1>1, SMTT(30), Z3T(30)
   <2>. QED BY <1>1, <1>3, <2>1, <2>2, SMTT(30), Z3T(30)
<1>6. CASE vesting_balance_create(a, x, f)
   <2>1. /\ apply(a, f, Adjusted(balance, a, Core, 0 - x), convert_fee(f))
         /\ UNCHANGED <<issuer, fba, cleared>>
         /\ vesting' = vesting + (x) /\ locked' = locked
      BY <1>6, Zenon DEF vesting_balance_create
   <2>2. 0 - x = 0 - (x) - (0) /\ locked = locked + (0)
      BY <1>1, SMTT(30), Z3T(30)
   <2>. QED BY <1>1, <1>3, <2>1, <2>2, SMTT(30), Z3T(30)
<1>7. CASE vesting_balance_withdraw(a, x, f)
   <2>1. /\ apply(a, f, Adjusted(balance, a, Core, x), convert_fee(f))
         /\ UNCHANGED <<issuer, fba, cleared>>
         /\ vesting' = vesting + (0 - x) /\ locked' = locked + (0)
      BY <1>1, <1>7, SMTT(30), Z3T(30) DEF vesting_balance_withdraw
   <2>2. x = 0 - (0 - x) - (0)
      BY <1>1
   <2>. QED BY <1>1, <1>3, <2>1, <2>2, SMTT(30), Z3T(30)
<1>. QED BY <1>4, <1>5, <1>6, <1>7, Zenon


\* asset_issue adds the amount to the supply and to a balance.
LEMMA IssueKeeps ==
   ASSUME Books, NEW a \in User, NEW f \in Fee, NEW b \in User, NEW s \in Asset,
          NEW x \in Amounts, asset_issue(a, b, s, x, f)
   PROVE  Books'
<1>. DEFINE bal == Adjusted(balance, b, s, x)
            ee == convert_fee(f)
            dd == [ee EXCEPT ![s].current_supply = @ + x]
            c == IF s = Uia THEN 0 ELSE x
            e == IF s = Uia THEN x ELSE 0
<1>1. apply(a, f, bal, dd) /\ UNCHANGED <<issuer, vesting, locked, fba, cleared>>
   BY Zenon DEF asset_issue
<1>2. /\ balance \in Ledger /\ ee \in Book /\ CoreOf(ee) \in Int /\ IssuedOf(ee) \in Int
      /\ issuer[Uia] = NoIssuer => ee[Uia].fee_pool = 0
      /\ vesting \in Int /\ locked \in Int /\ cleared \in Int
      /\ issuer \in [Asset -> User \cup {NoIssuer}]
   BY <1>1, Before, Zenon DEF apply, prepare_fee
<1>3. x \in Int /\ c \in Int /\ e \in Int /\ b \in Account
   BY AmountType, Accounts
<1>4. bal \in Ledger /\ CoreIn(bal) = CoreIn(balance) + c /\ IssuedIn(bal) = IssuedIn(balance) + e
   BY <1>2, <1>3, AdjustedSums, ZenonT(30)
<1>. HIDE DEF ee
<1>5. ee[s] \in Entry /\ ee[s].current_supply \in Int /\ ee[s].current_supply + x \in Int
   BY <1>2, <1>3 DEF Book, Entry
<1>6. dd \in Book /\ CoreOf(dd) = CoreOf(ee) + c /\ IssuedOf(dd) = IssuedOf(ee) + e
   <2>. DEFINE v == ee[s].current_supply + x
   <2>1. v - ee[s].current_supply = x
      BY <1>3, <1>5
   <2>2. /\ dd \in Book
         /\ CoreOf(dd) = CoreOf(ee) + IF s = Uia THEN 0 ELSE v - ee[s].current_supply
         /\ IssuedOf(dd) = IssuedOf(ee) + IF s = Uia THEN v - ee[s].current_supply ELSE 0
      BY <1>2, <1>5, SupplyMove, ZenonT(30)
   <2>. QED BY <2>1, <2>2, Zenon
<1>7. dd[Uia].fee_pool = ee[Uia].fee_pool
   BY <1>2, Accounts, ZenonT(30) DEF Book, Entry
<1>. HIDE DEF bal, dd, c, e
<1>8. vesting' + locked' + cleared' = vesting + locked + cleared + c - c
   BY <1>1, <1>2, <1>3, SMTT(30), Z3T(30)
<1>9. /\ vesting' \in Int /\ locked' \in Int /\ cleared' \in Int /\ fba' = fba
      /\ issuer' \in [Asset -> User \cup {NoIssuer}]
      /\ issuer'[Uia] = NoIssuer => dd[Uia].fee_pool = 0
   BY <1>1, <1>2, <1>7, ZenonT(30)
<1>. QED BY <1>1, <1>3, <1>4, <1>6, <1>8, <1>9, ApplyKeeps, ZenonT(30) DEF ee

\* asset_reserve takes the amount out of a balance and out of the supply.
LEMMA ReserveKeeps ==
   ASSUME Books, NEW a \in User, NEW f \in Fee, NEW s \in Asset, NEW x \in Amounts,
          asset_reserve(a, s, x, f)
   PROVE  Books'
<1>. DEFINE bal == Adjusted(balance, a, s, 0 - x)
            ee == convert_fee(f)
            dd == [ee EXCEPT ![s].current_supply = @ - x]
            c == IF s = Uia THEN 0 ELSE 0 - x
            e == IF s = Uia THEN 0 - x ELSE 0
<1>1. apply(a, f, bal, dd) /\ UNCHANGED <<issuer, vesting, locked, fba, cleared>>
   BY Zenon DEF asset_reserve
<1>2. /\ balance \in Ledger /\ ee \in Book /\ CoreOf(ee) \in Int /\ IssuedOf(ee) \in Int
      /\ issuer[Uia] = NoIssuer => ee[Uia].fee_pool = 0
      /\ vesting \in Int /\ locked \in Int /\ cleared \in Int
      /\ issuer \in [Asset -> User \cup {NoIssuer}]
   BY <1>1, Before, ZenonT(30) DEF apply, prepare_fee
<1>3. x \in Int /\ 0 - x \in Int /\ c \in Int /\ e \in Int /\ a \in Account
   BY AmountType, Accounts
<1>4. bal \in Ledger /\ CoreIn(bal) = CoreIn(balance) + c /\ IssuedIn(bal) = IssuedIn(balance) + e
   BY <1>2, <1>3, AdjustedSums, ZenonT(30)
<1>. HIDE DEF ee
<1>5. ee[s] \in Entry /\ ee[s].current_supply \in Int /\ ee[s].current_supply - x \in Int
   BY <1>2, <1>3 DEF Book, Entry
<1>6. dd \in Book /\ CoreOf(dd) = CoreOf(ee) + c /\ IssuedOf(dd) = IssuedOf(ee) + e
   <2>. DEFINE v == ee[s].current_supply - x
   <2>1. v - ee[s].current_supply = 0 - x
      BY <1>3, <1>5
   <2>2. /\ dd \in Book
         /\ CoreOf(dd) = CoreOf(ee) + IF s = Uia THEN 0 ELSE v - ee[s].current_supply
         /\ IssuedOf(dd) = IssuedOf(ee) + IF s = Uia THEN v - ee[s].current_supply ELSE 0
      BY <1>2, <1>5, SupplyMove, Zenon
   <2>. QED BY <2>1, <2>2, Zenon
<1>7. dd[Uia].fee_pool = ee[Uia].fee_pool
   BY <1>2, Accounts, Zenon DEF Book, Entry
<1>. HIDE DEF bal, dd, c, e
<1>8. vesting' + locked' + cleared' = vesting + locked + cleared + c - c
   BY <1>1, <1>2, <1>3, SMTT(30), Z3T(30)
<1>9. /\ vesting' \in Int /\ locked' \in Int /\ cleared' \in Int /\ fba' = fba
      /\ issuer' \in [Asset -> User \cup {NoIssuer}]
      /\ issuer'[Uia] = NoIssuer => dd[Uia].fee_pool = 0
   BY <1>1, <1>2, <1>7, ZenonT(30)
<1>. QED BY <1>1, <1>3, <1>4, <1>6, <1>8, <1>9, ApplyKeeps, ZenonT(30) DEF ee

\* asset_claim_fees moves accumulated fees of the asset to the balance of its issuer.
LEMMA ClaimKeeps ==
   ASSUME Books, NEW a \in User, NEW f \in Fee, NEW s \in Asset, NEW x \in Amounts,
          asset_claim_fees(a, s, x, f)
   PROVE  Books'
<1>. DEFINE bal == Adjusted(balance, a, s, x)
            ee == convert_fee(f)
            dd == [ee EXCEPT ![s].accumulated_fees = @ - x]
            c == IF s = Uia THEN 0 ELSE x
            e == IF s = Uia THEN x ELSE 0
<1>1. apply(a, f, bal, dd) /\ UNCHANGED <<issuer, vesting, locked, fba, cleared>>
   BY Zenon DEF asset_claim_fees
<1>2. /\ balance \in Ledger /\ ee \in Book /\ CoreOf(ee) \in Int /\ IssuedOf(ee) \in Int
      /\ issuer[Uia] = NoIssuer => ee[Uia].fee_pool = 0
      /\ vesting \in Int /\ locked \in Int /\ cleared \in Int
      /\ issuer \in [Asset -> User \cup {NoIssuer}]
   BY <1>1, Before, ZenonT(30) DEF apply, prepare_fee
<1>3. x \in Int /\ 0 - x \in Int /\ c \in Int /\ e \in Int /\ a \in Account
   BY AmountType, Accounts
<1>4. bal \in Ledger /\ CoreIn(bal) = CoreIn(balance) + c /\ IssuedIn(bal) = IssuedIn(balance) + e
   BY <1>2, <1>3, AdjustedSums, ZenonT(30)
<1>. HIDE DEF ee
<1>5. ee[s] \in Entry /\ ee[s].accumulated_fees \in Int /\ ee[s].accumulated_fees - x \in Int
   BY <1>2, <1>3 DEF Book, Entry
<1>6. dd \in Book /\ CoreOf(dd) = CoreOf(ee) + c /\ IssuedOf(dd) = IssuedOf(ee) + e
   <2>. DEFINE v == ee[s].accumulated_fees - x
   <2>1. ee[s].accumulated_fees - v = x
      BY <1>3, <1>5
   <2>2. /\ dd \in Book
         /\ CoreOf(dd) = CoreOf(ee) + IF s = Uia THEN 0 ELSE ee[s].accumulated_fees - v
         /\ IssuedOf(dd) = IssuedOf(ee) + IF s = Uia THEN ee[s].accumulated_fees - v ELSE 0
      BY <1>2, <1>5, FeesMove, Zenon
   <2>. QED BY <2>1, <2>2, Zenon
<1>7. dd[Uia].fee_pool = ee[Uia].fee_pool
   BY <1>2, Accounts, Zenon DEF Book, Entry
<1>. HIDE DEF bal, dd, c, e
<1>8. vesting' + locked' + cleared' = vesting + locked + cleared + c - c
   BY <1>1, <1>2, <1>3, SMTT(30)
<1>9. /\ vesting' \in Int /\ locked' \in Int /\ cleared' \in Int /\ fba' = fba
      /\ issuer' \in [Asset -> User \cup {NoIssuer}]
      /\ issuer'[Uia] = NoIssuer => dd[Uia].fee_pool = 0
   BY <1>1, <1>2, <1>7, Zenon
<1>. QED BY <1>1, <1>3, <1>4, <1>6, <1>8, <1>9, ApplyKeeps, Zenon DEF ee

\* asset_fund_fee_pool moves core asset from a balance to a fee pool.
LEMMA FundKeeps ==
   ASSUME Books, NEW a \in User, NEW f \in Fee, NEW s \in Asset, NEW x \in Amounts,
          asset_fund_fee_pool(a, s, x, f)
   PROVE  Books'
<1>. DEFINE bal == Adjusted(balance, a, Core, 0 - x)
            dd == [dyn EXCEPT ![s].fee_pool = @ + x]
            c == 0 - x
            e == 0
<1>1. /\ apply(a, f, bal, dd) /\ UNCHANGED <<issuer, vesting, locked, fba, cleared>>
      /\ Exists(s) /\ f.asset = Core
   BY Zenon DEF asset_fund_fee_pool
<1>2. /\ balance \in Ledger /\ dyn \in Book /\ vesting \in Int /\ locked \in Int /\ cleared \in Int
      /\ issuer \in [Asset -> User \cup {NoIssuer}]
      /\ issuer[Uia] = NoIssuer => dyn[Uia].fee_pool = 0
   BY Zenon DEF Books, Shape
<1>3. x \in Int /\ c \in Int /\ e \in Int /\ a \in Account /\ Core \in Asset /\ Core # Uia
   BY AmountType, Accounts, SMTT(30), Z3T(30)
<1>4. CoreIn(balance) \in Int /\ IssuedIn(balance) \in Int /\ CoreOf(dyn) \in Int /\ IssuedOf(dyn) \in Int
   BY <1>2, TotalType, DataTypes, Zenon
<1>5. bal \in Ledger /\ CoreIn(bal) = CoreIn(balance) + c /\ IssuedIn(bal) = IssuedIn(balance) + e
   BY <1>2, <1>3, AdjustedSums, ZenonT(30)
<1>6. convert_fee(f) = dyn
   BY <1>1, Zenon DEF convert_fee
<1>7. dyn[s] \in Entry /\ dyn[s].fee_pool \in Int /\ dyn[s].fee_pool + x \in Int
   BY <1>2, <1>3 DEF Book, Entry
<1>8. dd \in Book /\ CoreOf(dd) = CoreOf(dyn) + c /\ IssuedOf(dd) = IssuedOf(dyn) + e
   <2>. DEFINE v == dyn[s].fee_pool + x
   <2>1. dyn[s].fee_pool - v = c
      BY <1>3, <1>7, SMTT(30), Z3T(30)
   <2>2. dd \in Book /\ CoreOf(dd) = CoreOf(dyn) + (dyn[s].fee_pool - v) /\ IssuedOf(dd) = IssuedOf(dyn)
      BY <1>2, <1>7, PoolMove, ZenonT(30)
   <2>. QED BY <1>4, <2>1, <2>2
<1>9. issuer[Uia] = NoIssuer => dd[Uia].fee_pool = 0
   <2>. SUFFICES ASSUME issuer[Uia] = NoIssuer PROVE dd[Uia].fee_pool = 0
      BY Zenon
   <2>1. s # Uia
      BY <1>1, ZenonT(30) DEF Exists
   <2>. QED BY <1>2, <2>1, Accounts, Zenon DEF Book, Entry
<1>. HIDE DEF bal, dd, c, e
<1>10. vesting' + locked' + cleared' = vesting + locked + cleared + c - c
   BY <1>1, <1>2, <1>3, SMTT(30), Z3T(30)
<1>11. /\ vesting' \in Int /\ locked' \in Int /\ cleared' \in Int /\ fba' = fba
       /\ issuer' \in [Asset -> User \cup {NoIssuer}]
       /\ issuer'[Uia] = NoIssuer => dd[Uia].fee_pool = 0
   BY <1>1, <1>2, <1>9, Zenon
<1>12. CoreOf(dd) = CoreOf(convert_fee(f)) + c /\ IssuedOf(dd) = IssuedOf(convert_fee(f)) + e
   BY <1>6, <1>8, Zenon
<1>. QED BY <1>1, <1>3, <1>5, <1>8, <1>10, <1>11, <1>12, ApplyKeeps, ZenonT(30)
=============================================================================
