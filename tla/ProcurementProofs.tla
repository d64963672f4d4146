------------------------- MODULE ProcurementProofs -------------------------
(***************************************************************************)
(* Theorems about module Procurement, for every set of workers, bids,      *)
(* missions, lots, amounts and tariffs.  The sums of charges, surfaces and *)
(* shares come first, then what holds whatever overlaps, then the rules    *)
(* that the handlers check without a lock, as long as the requests take    *)
(* turns.                                                                  *)
(***************************************************************************)
EXTENDS MCProcurement, FiniteSetTheorems, TLAPS

-----------------------------------------------------------------------------
(* Induction over the subsets of a finite set.                              *)

\* If a set is good as soon as its proper subsets are, every subset is.
LEMMA SubsetInduction ==
  ASSUME NEW S, IsFiniteSet(S), NEW Good,
         \A s \in SUBSET S : (\A t \in SUBSET s : t # s => t \in Good) => s \in Good
  PROVE  SUBSET S \subseteq Good
<1>1. IsWellFoundedOn(StrictSubsetOrdering(S), SUBSET S)
  BY FS_StrictSubsetOrderingWellFounded, FS_FiniteSubsetsOfFinite
<1>2. ASSUME NEW Bad, Bad = (SUBSET S) \ Good, Bad # {} PROVE FALSE
  <2>1. PICK s \in Bad : \A t \in Bad : <<t, s>> \notin StrictSubsetOrdering(S)
    BY <1>1, <1>2, WFMin
  <2> QED BY <1>2, <2>1 DEF StrictSubsetOrdering
<1>3. (SUBSET S) \ Good = {}
  BY <1>2
<1> QED BY <1>3

-----------------------------------------------------------------------------
(* The recursion behind a sum is well defined.                              *)

Pick(S) == CHOOSE x \in S : TRUE
Left(S) == S \ {Pick(S)}

\* g sums f over every subset of S, one element after the other.
Sums(f, S, g)  == g = [s \in SUBSET S |-> IF s = {} THEN 0 ELSE f[Pick(s)] + g[Left(s)]]
SumsOver(f, S) == CHOOSE g : Sums(f, S, g)

LEMMA SumUnfolds ==
  ASSUME NEW f, NEW S
  PROVE  SumFunctionOnSet(f, S) = SumsOver(f, S)[S]
BY DEF SumFunctionOnSet, FoldFunctionOnSet, MapThenFoldSet, Sums, Pick, SumsOver, Left

LEMMA PickIn ==
  ASSUME NEW S, S # {}
  PROVE  Pick(S) \in S /\ Left(S) \in SUBSET S /\ Left(S) # S
BY DEF Pick, Left

LEMMA SumsAgree ==
  ASSUME NEW f, NEW S, IsFiniteSet(S), NEW s \in SUBSET S, NEW g, Sums(f, S, g), NEW h, Sums(f, s, h)
  PROVE  g[s] = h[s]
<1> DEFINE Good == {u \in SUBSET s : g[u] = h[u]}
<1>1. ASSUME NEW u \in SUBSET s, \A v \in SUBSET u : v # u => v \in Good PROVE u \in Good
  <2>1. CASE u = {}
    BY <2>1 DEF Sums
  <2>2. CASE u # {}
    <3>1. Left(u) \in Good
      BY <1>1, <2>2, PickIn
    <3> QED BY <2>2, <3>1 DEF Sums
  <2> QED BY <2>1, <2>2
<1>2. SUBSET s \subseteq Good
  <2>1. IsFiniteSet(s)
    BY FS_Subset
  <2> HIDE DEF Good
  <2> QED BY <1>1, <2>1, SubsetInduction
<1> QED BY <1>2

LEMMA SumsExist ==
  ASSUME NEW f, NEW S, IsFiniteSet(S)
  PROVE  \A s \in SUBSET S : Sums(f, s, SumsOver(f, s))
<1> DEFINE Good == {s \in SUBSET S : Sums(f, s, SumsOver(f, s))}
<1>1. ASSUME NEW s \in SUBSET S, \A t \in SUBSET s : t # s => t \in Good PROVE s \in Good
  <2> DEFINE V(t) == SumsOver(f, t)[t]
             h == [t \in SUBSET s |-> IF t = {} THEN 0 ELSE f[Pick(t)] + V(Left(t))]
  <2>1. ASSUME NEW t \in SUBSET s, t # s PROVE V(t) = h[t]
    <3>1. CASE t = {}
      BY <1>1, <2>1, <3>1 DEF Sums
    <3>2. CASE t # {}
      <4>1. Left(t) \in SUBSET t /\ Left(t) \in SUBSET s /\ Left(t) # s
        BY <2>1, <3>2, PickIn
      <4>2. Sums(f, t, SumsOver(f, t)) /\ Sums(f, Left(t), SumsOver(f, Left(t)))
        BY <1>1, <2>1, <4>1
      <4>3. SumsOver(f, t)[Left(t)] = V(Left(t))
        BY <4>1, <4>2, SumsAgree, FS_Subset
      <4>4. SumsOver(f, t)[t] = f[Pick(t)] + SumsOver(f, t)[Left(t)]
        BY <3>2, <4>2 DEF Sums
      <4> QED BY <3>2, <4>3, <4>4
    <3> QED BY <3>1, <3>2
  <2>2. ASSUME NEW t \in SUBSET s, t # {} PROVE h[Left(t)] = V(Left(t))
    <3>1. Left(t) \in SUBSET s /\ Left(t) # s
      BY <2>2, PickIn
    <3> QED BY <2>1, <3>1
  <2> HIDE DEF V
  <2>3. Sums(f, s, h)
    BY <2>2 DEF Sums
  <2> QED BY <2>3 DEF SumsOver
<1>2. SUBSET S \subseteq Good
  <2> HIDE DEF Good
  <2> QED BY <1>1, SubsetInduction
<1> QED BY <1>2

LEMMA SumStep ==
  ASSUME NEW f, NEW S, IsFiniteSet(S)
  PROVE  SumFunctionOnSet(f, S) = IF S = {} THEN 0 ELSE f[Pick(S)] + SumFunctionOnSet(f, Left(S))
<1>1. Sums(f, S, SumsOver(f, S))
  BY SumsExist
<1>2. CASE S = {}
  BY <1>1, <1>2, SumUnfolds DEF Sums
<1>3. CASE S # {}
  <2>1. Left(S) \in SUBSET S
    BY <1>3, PickIn
  <2>2. SumsOver(f, S)[Left(S)] = SumsOver(f, Left(S))[Left(S)]
    BY <1>1, <2>1, SumsExist, SumsAgree
  <2>3. SumsOver(f, S)[S] = f[Pick(S)] + SumsOver(f, S)[Left(S)]
    BY <1>1, <1>3 DEF Sums
  <2> QED BY <1>3, <2>2, <2>3, SumUnfolds
<1> QED BY <1>2, <1>3

-----------------------------------------------------------------------------
(* What the proofs use.                                                     *)

LEMMA SumOfNone ==
  ASSUME NEW f
  PROVE  SumFunctionOnSet(f, {}) = 0
BY SumStep, FS_EmptySet

\* Any element may be taken out first.
LEMMA SumRemove ==
  ASSUME NEW S, IsFiniteSet(S), NEW f, \A x \in S : f[x] \in Int
  PROVE  /\ SumFunctionOnSet(f, S) \in Int
         /\ \A x \in S : SumFunctionOnSet(f, S) = f[x] + SumFunctionOnSet(f, S \ {x})
<1> DEFINE Sum(s) == SumFunctionOnSet(f, s)
           Good == {s \in SUBSET S : Sum(s) \in Int /\ \A x \in s : Sum(s) = f[x] + Sum(s \ {x})}
<1>1. ASSUME NEW s \in SUBSET S, \A t \in SUBSET s : t # s => t \in Good PROVE s \in Good
  <2>1. CASE s = {}
    <3>1. Sum({}) = 0
      BY SumOfNone
    <3> QED BY <2>1, <3>1
  <2>2. CASE s # {}
    <3> DEFINE p == Pick(s)
    <3>1. p \in s /\ s \ {p} \in Good
      BY <1>1, <2>2, PickIn
    <3>2. Sum(s) = f[p] + Sum(s \ {p})
      BY <2>2, SumStep, FS_Subset DEF Left
    <3>3. ASSUME NEW x \in s, x # p PROVE Sum(s) = f[x] + Sum(s \ {x})
      <4> DEFINE r == (s \ {p}) \ {x}
      <4>1. r = (s \ {x}) \ {p} /\ x \in s \ {p} /\ p \in s \ {x}
        BY <3>1, <3>3
      <4>2. s \ {x} \in Good /\ r \in Good
        BY <1>1, <3>1, <3>3
      <4>3. Sum(s \ {p}) = f[x] + Sum(r)
        BY <3>1, <4>1
      <4>4. Sum(s \ {x}) = f[p] + Sum(r)
        BY <4>1, <4>2
      <4>5. f[x] \in Int /\ f[p] \in Int /\ Sum(r) \in Int
        BY <3>1, <4>2
      <4> QED BY <3>2, <4>3, <4>4, <4>5
    <3>4. Sum(s) \in Int
      BY <3>1, <3>2
    <3> QED BY <3>2, <3>3, <3>4
  <2> QED BY <2>1, <2>2
<1>2. SUBSET S \subseteq Good
  <2> HIDE DEF Good
  <2> QED BY <1>1, SubsetInduction
<1> QED BY <1>2

LEMMA SumOfZeros ==
  ASSUME NEW S, IsFiniteSet(S), NEW f, \A x \in S : f[x] = 0
  PROVE  SumFunctionOnSet(f, S) = 0
<1> DEFINE Good == {s \in SUBSET S : SumFunctionOnSet(f, s) = 0}
<1>1. ASSUME NEW s \in SUBSET S, \A u \in SUBSET s : u # s => u \in Good
      PROVE  s \in Good
  <2>1. CASE s = {}
    BY <2>1, SumOfNone
  <2>2. CASE s # {}
    <3>1. PICK x \in s : TRUE
      BY <2>2
    <3>2. IsFiniteSet(s) /\ \A y \in s : f[y] \in Int
      BY FS_Subset
    <3>3. SumFunctionOnSet(f, s) = f[x] + SumFunctionOnSet(f, s \ {x})
      BY <3>1, <3>2, SumRemove
    <3>4. s \ {x} \in Good
      BY <1>1, <3>1
    <3> QED BY <3>1, <3>3, <3>4
  <2> QED BY <2>1, <2>2
<1>2. SUBSET S \subseteq Good
  <2> HIDE DEF Good
  <2> QED BY <1>1, SubsetInduction
<1> QED BY <1>2

\* Only the values on the set count.
LEMMA SumSame ==
  ASSUME NEW S, IsFiniteSet(S), NEW f, NEW g, \A x \in S : f[x] = g[x]
  PROVE  SumFunctionOnSet(f, S) = SumFunctionOnSet(g, S)
<1> DEFINE Good == {s \in SUBSET S : SumFunctionOnSet(f, s) = SumFunctionOnSet(g, s)}
<1>1. ASSUME NEW s \in SUBSET S, \A t \in SUBSET s : t # s => t \in Good PROVE s \in Good
  <2>1. CASE s = {}
    BY <2>1, SumOfNone
  <2>2. CASE s # {}
    <3>1. Left(s) \in Good /\ f[Pick(s)] = g[Pick(s)]
      BY <1>1, <2>2, PickIn
    <3> QED BY <2>2, <3>1, SumStep, FS_Subset
  <2> QED BY <2>1, <2>2
<1>2. SUBSET S \subseteq Good
  <2> HIDE DEF Good
  <2> QED BY <1>1, SubsetInduction
<1> QED BY <1>2

\* A sum of naturals grows with its terms, and with the set.
LEMMA SumGrows ==
  ASSUME NEW S, IsFiniteSet(S), NEW T \in SUBSET S, NEW f, NEW g,
         \A x \in S : g[x] \in Nat, \A x \in T : f[x] \in Nat /\ f[x] <= g[x]
  PROVE  /\ SumFunctionOnSet(f, T) \in Nat /\ SumFunctionOnSet(g, S) \in Nat
         /\ SumFunctionOnSet(f, T) <= SumFunctionOnSet(g, S)
<1> DEFINE F(t) == SumFunctionOnSet(f, t)
           G(s) == SumFunctionOnSet(g, s)
           Good == {s \in SUBSET S : /\ F(s \cap T) \in Nat /\ G(s) \in Nat
                                     /\ F(s \cap T) <= G(s)}
<1>1. ASSUME NEW s \in SUBSET S, \A t \in SUBSET s : t # s => t \in Good PROVE s \in Good
  <2>1. CASE s = {}
    <3>1. F({}) = 0 /\ G({}) = 0
      BY SumOfNone
    <3> QED BY <2>1, <3>1
  <2>2. CASE s # {}
    <3>1. PICK x \in s : TRUE
      BY <2>2
    <3>2. s \ {x} \in Good
      BY <1>1
    <3>3. G(s) = g[x] + G(s \ {x})
      BY FS_Subset, SumRemove
    <3>4. CASE x \notin T
      <4>1. s \cap T = (s \ {x}) \cap T
        BY <3>4
      <4>2. F(s \cap T) \in Nat /\ G(s \ {x}) \in Nat /\ F(s \cap T) <= G(s \ {x}) /\ g[x] \in Nat
        BY <3>1, <3>2, <4>1
      <4> HIDE DEF F, G
      <4> QED BY <3>3, <4>2
    <3>5. CASE x \in T
      <4>1. (s \cap T) \ {x} = (s \ {x}) \cap T
        OBVIOUS
      <4>2. IsFiniteSet(s \cap T) /\ \A y \in s \cap T : f[y] \in Int
        BY FS_Subset
      <4>3. F(s \cap T) = f[x] + F((s \cap T) \ {x})
        BY <3>1, <3>5, <4>2, SumRemove
      <4> QED BY <3>2, <3>3, <3>5, <4>1, <4>3
    <3> QED BY <3>4, <3>5
  <2> QED BY <2>1, <2>2
<1>2. SUBSET S \subseteq Good
  <2> HIDE DEF Good
  <2> QED BY <1>1, SubsetInduction
<1>3. S \in Good /\ S \cap T = T
  BY <1>2
<1> QED BY <1>3

\* One term changes.
LEMMA SumUpdate ==
  ASSUME NEW S, IsFiniteSet(S), NEW f, NEW g, NEW x \in S,
         \A y \in S : f[y] \in Int /\ g[y] \in Int, \A y \in S \ {x} : g[y] = f[y]
  PROVE  SumFunctionOnSet(g, S) = SumFunctionOnSet(f, S) - f[x] + g[x]
<1>1. SumFunctionOnSet(g, S \ {x}) = SumFunctionOnSet(f, S \ {x})
  BY SumSame, FS_Subset
<1>2. SumFunctionOnSet(f, S) = f[x] + SumFunctionOnSet(f, S \ {x})
  BY SumRemove
<1>3. SumFunctionOnSet(g, S) = g[x] + SumFunctionOnSet(g, S \ {x}) /\ SumFunctionOnSet(g, S) \in Int
  BY SumRemove
<1>4. SumFunctionOnSet(f, S \ {x}) \in Int
  BY SumRemove, FS_Subset
<1> QED BY <1>1, <1>2, <1>3, <1>4

-----------------------------------------------------------------------------
(* The shares of the lots (compute_lot_repartition).                        *)

LEMMA RoundedIsNear ==
  ASSUME NEW n \in Int, NEW d \in Int, d > 0
  PROVE  /\ Rounded(n, d) \in Int
         /\ 2 * n - d <= 2 * (d * Rounded(n, d)) /\ 2 * (d * Rounded(n, d)) <= 2 * n + d
<1> DEFINE q == (2 * n + d) \div (2 * d)
<1>1. q \in Int /\ (2 * d) * q <= 2 * n + d /\ 2 * n + d < (2 * d) * q + 2 * d
  OBVIOUS
<1>2. (2 * d) * q = 2 * (d * q)
  BY <1>1
<1> HIDE DEF q
<1>3. d * q \in Int
  BY <1>1
<1>4. Rounded(n, d) = q
  BY DEF Rounded, HalfUp, q
<1> QED BY <1>1, <1>2, <1>3, <1>4

\* As many halves as there are shares.
LEMMA SharesMissByHalves ==
  ASSUME NEW S, IsFiniteSet(S), NEW w, \A l \in S : w[l] \in Int,
         NEW total \in Int, NEW W \in Int, W > 0,
         NEW f, \A l \in S : f[l] = Rounded(total * w[l], W)
  PROVE  LET F == SumFunctionOnSet(f, S)
             V == SumFunctionOnSet(w, S)
             N == Cardinality(S)
         IN /\ F \in Int /\ V \in Int
            /\ 2 * (total * V) - W * N <= 2 * (W * F)
            /\ 2 * (W * F) <= 2 * (total * V) + W * N
<1> DEFINE F(s) == SumFunctionOnSet(f, s)
           V(s) == SumFunctionOnSet(w, s)
           N(s) == Cardinality(s)
           Near(s) == /\ 2 * (total * V(s)) - W * N(s) <= 2 * (W * F(s))
                      /\ 2 * (W * F(s)) <= 2 * (total * V(s)) + W * N(s)
           Good == {s \in SUBSET S : Near(s)}
<1>1. ASSUME NEW l \in S
      PROVE  /\ f[l] \in Int /\ w[l] \in Int
             /\ 2 * (total * w[l]) - W <= 2 * (W * f[l])
             /\ 2 * (W * f[l]) <= 2 * (total * w[l]) + W
  <2>1. total * w[l] \in Int
    OBVIOUS
  <2> QED BY <2>1, RoundedIsNear
<1>2. ASSUME NEW s \in SUBSET S PROVE IsFiniteSet(s) /\ F(s) \in Int /\ V(s) \in Int /\ N(s) \in Nat
  BY <1>1, SumRemove, FS_Subset, FS_CardinalityType
<1>3. ASSUME NEW s \in SUBSET S, \A t \in SUBSET s : t # s => t \in Good PROVE s \in Good
  <2>1. CASE s = {}
    <3>1. F({}) = 0 /\ V({}) = 0 /\ N({}) = 0
      BY SumOfNone, FS_EmptySet
    <3> QED BY <2>1, <3>1
  <2>2. CASE s # {}
    <3>1. PICK l \in s : TRUE
      BY <2>2
    <3> DEFINE r == s \ {l}
    <3>2. Near(r) /\ r \in SUBSET S
      BY <1>3, <3>1
    <3>3. F(s) = f[l] + F(r) /\ V(s) = w[l] + V(r) /\ N(r) = N(s) - 1
      BY <1>1, <1>2, <3>1, SumRemove, FS_RemoveElement
    <3>4. F(r) \in Int /\ V(r) \in Int /\ N(r) \in Int /\ N(s) \in Int
      BY <1>2, <3>2
    <3> HIDE DEF F, V, N, r
    <3>5. W * F(s) = W * f[l] + W * F(r)
      BY <1>1, <3>1, <3>3, <3>4
    <3>6. total * V(s) = total * w[l] + total * V(r)
      BY <1>1, <3>1, <3>3, <3>4
    <3>7. W * N(s) = W + W * N(r)
      BY <3>3, <3>4
    <3>8. /\ W * f[l] \in Int /\ W * F(r) \in Int /\ W * N(r) \in Int
          /\ total * w[l] \in Int /\ total * V(r) \in Int
      BY <1>1, <3>1, <3>4
    <3> QED BY <1>1, <3>1, <3>2, <3>5, <3>6, <3>7, <3>8
  <2> QED BY <2>1, <2>2
<1>4. SUBSET S \subseteq Good
  <2> HIDE DEF Good
  <2> QED BY <1>3, SubsetInduction
<1> QED BY <1>2, <1>4

LEMMA SumOfOnes ==
  ASSUME NEW S, IsFiniteSet(S), NEW f, \A x \in S : f[x] = 1
  PROVE  SumFunctionOnSet(f, S) = Cardinality(S)
<1> DEFINE Good == {s \in SUBSET S : SumFunctionOnSet(f, s) = Cardinality(s)}
<1>1. ASSUME NEW s \in SUBSET S, \A t \in SUBSET s : t # s => t \in Good PROVE s \in Good
  <2>1. CASE s = {}
    BY <2>1, SumOfNone, FS_EmptySet
  <2>2. CASE s # {}
    <3>1. PICK x \in s : TRUE
      BY <2>2
    <3>2. s \ {x} \in Good
      BY <1>1, <3>1
    <3>3. SumFunctionOnSet(f, s) = 1 + SumFunctionOnSet(f, s \ {x})
      BY <3>1, FS_Subset, SumRemove
    <3>4. IsFiniteSet(s) /\ Cardinality(s \ {x}) = Cardinality(s) - 1 /\ Cardinality(s) \in Nat
      BY <3>1, FS_Subset, FS_RemoveElement, FS_CardinalityType
    <3> QED BY <3>2, <3>3, <3>4
  <2> QED BY <2>1, <2>2
<1>2. SUBSET S \subseteq Good
  <2> HIDE DEF Good
  <2> QED BY <1>1, SubsetInduction
<1> QED BY <1>2

\* What the programme is divided by is positive.
LEMMA LotsCount == Lots # {} /\ IsFiniteSet(Lots) /\ Cardinality(Lots) \in Int /\ Cardinality(Lots) > 0
BY LotIsOfTheProgramme, FS_EmptySet, FS_CardinalityType

LEMMA SurfacesCount ==
  ASSUME NEW s \in [Lots -> Int], Measured(s)
  PROVE  TotalSurface(s) \in Int /\ TotalSurface(s) > 0
<1>1. \A l \in Lots : s[l] \in Int /\ s[l] > 0
  BY DEF Measured
<1> DEFINE t == SumFunctionOnSet(s, Lots)
<1>2. t = s[Lot] + SumFunctionOnSet(s, Lots \ {Lot}) /\ t \in Int
  BY <1>1, LotIsOfTheProgramme, SumRemove
<1>3. SumFunctionOnSet(s, Lots \ {Lot}) \in Nat
  <2>1. IsFiniteSet(Lots) /\ Lots \ {Lot} \in SUBSET Lots
    BY LotIsOfTheProgramme
  <2> QED BY <1>1, <2>1, SumGrows
<1>4. TotalSurface(s) = t
  BY DEF TotalSurface, SumFunction
<1> HIDE DEF t
<1> QED BY <1>1, <1>2, <1>3, <1>4, LotIsOfTheProgramme

LEMMA ShareIsInt ==
  ASSUME NEW total \in Int, NEW method, NEW s \in [Lots -> Int], NEW l \in Lots, Divisible(method, s)
  PROVE  LotShare(total, method, s, l) \in Int
<1>1. total * s[l] \in Int
  OBVIOUS
<1> QED BY <1>1, LotsCount, SurfacesCount, RoundedIsNear DEF LotShare, Divisible

\* A positive factor may be left out of an inequality.
LEMMA Simplify ==
  ASSUME NEW a \in Int, NEW b \in Int, NEW W \in Int, W > 0, W * a <= W * b
  PROVE  a <= b
OBVIOUS

\* By either method, the shares miss the total by half a cent per lot at most.
LEMMA DriftOfShares ==
  ASSUME NEW total \in Int, NEW method, NEW s \in [Lots -> Int], Divisible(method, s)
  PROVE  /\ 2 * Drift(total, method, s) <= Cardinality(Lots)
         /\ -2 * Drift(total, method, s) <= Cardinality(Lots)
<1> DEFINE w == IF method = "equal" THEN [l \in Lots |-> 1] ELSE s
           W == IF method = "equal" THEN Cardinality(Lots) ELSE TotalSurface(s)
           f == [l \in Lots |-> LotShare(total, method, s, l)]
           F == SumFunctionOnSet(f, Lots)
           N == Cardinality(Lots)
<1>1. W \in Int /\ W > 0 /\ N \in Int /\ \A l \in Lots : w[l] \in Int
  BY LotsCount, SurfacesCount DEF Divisible
<1>2. \A l \in Lots : f[l] = Rounded(total * w[l], W)
  BY DEF LotShare
<1>3. SumFunctionOnSet(w, Lots) = W
  BY LotsCount, SumOfOnes DEF TotalSurface, SumFunction
<1>4. Drift(total, method, s) = F - total
  BY DEF Drift, SumFunction
<1> HIDE DEF w, f, W
<1>5. /\ F \in Int
      /\ 2 * (total * W) - W * N <= 2 * (W * F)
      /\ 2 * (W * F) <= 2 * (total * W) + W * N
  BY <1>1, <1>2, <1>3, LotsCount, SharesMissByHalves
<1> HIDE DEF F, N
<1>6. W * (2 * (F - total)) = 2 * (W * F) - 2 * (total * W) /\ W * (2 * (total - F)) = 2 * (total * W) - 2 * (W * F)
  BY <1>1, <1>5
<1>7. total * W \in Int /\ W * F \in Int /\ W * N \in Int
  BY <1>1, <1>5
<1>8. W * (2 * (F - total)) <= W * N /\ W * (2 * (total - F)) <= W * N
  BY <1>5, <1>6, <1>7
<1>9. 2 * (F - total) <= N /\ 2 * (total - F) <= N
  BY <1>1, <1>5, <1>8, Simplify
<1> QED BY <1>1, <1>4, <1>5, <1>9 DEF N

-----------------------------------------------------------------------------
(* What holds whatever overlaps.                                            *)

\* What a pending write relies on, and no other request takes away.
PendingHasBid ==
  /\ \A b \in locked : bid[b] # None
  /\ \A b \in Bids : bid[b] = None => spent[b] = 0
  /\ \A w \in Workers :
       /\ task[w].op \in {"lock", "adjust"} => bid[task[w].row] # None
       /\ task[w].op = "ledger" => LotLocked

IInv == TypeOK /\ PendingHasBid /\ LedgerHasBid

-----------------------------------------------------------------------------
\* A percentage of an amount is an amount (_derive_marge_estimee).
LEMMA PercentIsInt ==
  ASSUME NEW a \in Int, NEW r \in Int
  PROVE  Percent(a, r) \in Int
BY SMT DEF Percent, Rounded, HalfUp

LEMMA PercentIsNat ==
  ASSUME NEW a \in Nat, NEW r \in Nat
  PROVE  Percent(a, r) \in Nat
<1>1. a * r \in Nat
  OBVIOUS
<1>2. ASSUME NEW n \in Nat
      PROVE  (2 * n + 10000) \div (2 * 10000) \in Nat
  BY SMT
<1> QED BY SMT, <1>1, <1>2 DEF Percent, Rounded, HalfUp

LEMMA InitEstablishes == Init => IInv
<1> SUFFICES ASSUME Init PROVE IInv
  OBVIOUS
<1>1. \A w \in Workers : task[w] = Resting
  BY DEF Init
<1>2. Resting.op = "idle" /\ Resting.op \in Ops
  BY DEF Resting, Task, Ops
<1>3. TypeOK
  <2>1. bid \in [Bids -> Offers \cup {None}] /\ charge \in [Missions -> Charges \cup {None}]
    BY DEF Init
  <2>2. fee \in [Codes -> Nat] /\ spent \in [Bids -> Int] /\ DOMAIN task = Workers
    BY DEF Init
  <2>3. /\ rate \in Nat /\ globalRate \in Nat /\ warned \in BOOLEAN
        /\ locked \subseteq Bids /\ refused \subseteq Bids /\ assigned \subseteq Missions
        /\ cost \in Costs \cup {None} /\ surface \in [Lots -> Int] /\ ledger \in Ledgers \cup {None}
    BY CostsAreIntegers DEF Init
  <2> QED BY <1>1, <1>2, <2>1, <2>2, <2>3 DEF TypeOK
<1>4. PendingHasBid /\ LedgerHasBid
  BY <1>1, <1>2 DEF Init, PendingHasBid, LedgerHasBid
<1> QED BY <1>3, <1>4 DEF IInv

\* The tariffs change nothing of the lot but what the next requests will read.
LEMMA TariffKeeps == ASSUME IInv, TariffStep PROVE IInv'
<1> USE AmountsAreIntegers, CostsAreIntegers
        DEF IInv, TypeOK, PendingHasBid, LedgerHasBid, LotLocked, tender, works
<1>1. CASE \E r \in Rates : SetRate(r)
  BY <1>1 DEF TariffStep, SetRate
<1>2. CASE \E c \in Codes, f \in Fees : SetFee(c, f)
  BY <1>2 DEF TariffStep, SetFee
<1>3. CASE \E p \in GlobalRates : SetGlobalRate(p)
  BY <1>3 DEF TariffStep, SetGlobalRate
<1>4. CASE \E c \in Costs : ReviseCost(c)
  BY <1>4 DEF TariffStep, ReviseCost
<1>5. CASE \E l \in Lots : \E s \in Surfaces[l] : MeasureLot(l, s)
  BY <1>5 DEF TariffStep, MeasureLot
<1> QED BY <1>1, <1>2, <1>3, <1>4, <1>5 DEF TariffStep

LEMMA TenderKeeps ==
  ASSUME IInv, NEW w \in Workers, TenderStep(w)
  PROVE  IInv'
<1> USE AmountsAreIntegers, NoneIsNoRow
        DEF IInv, TypeOK, PendingHasBid, LedgerHasBid, LotLocked, tariffs, tender, works,
            Become, Rest, Resting, Task, Ops
<1>1. CASE \E a \in Amounts : BidRead(w, a)
  <2>1. PICK a \in Amounts : BidRead(w, a)
    BY <1>1
  <2>2. [amount |-> a, margin |-> Percent(a, rate)] \in Offers
    BY PercentIsNat DEF Offers
  <2> QED BY <2>1, <2>2 DEF BidRead
<1>2. CASE BidWrite(w)
  <2>1. PICK b \in Bids : bid[b] = None /\ bid' = [bid EXCEPT ![b] = task[w].entry]
    BY <1>2 DEF BidWrite
  <2> QED BY <1>2, <2>1 DEF BidWrite, Doing
<1>3. CASE \E b \in Bids : LockRead(w, b)
  BY <1>3 DEF LockRead, Lockable
<1>4. CASE LockWrite(w)
  BY <1>4 DEF LockWrite, Doing
<1>5. CASE \E b \in Bids, e \in Gaps : AdjustRead(w, b, e)
  BY <1>5 DEF AdjustRead
<1>6. CASE \E b \in Bids, e \in Gaps : AdjustRefuse(w, b, e)
  BY <1>6 DEF AdjustRefuse
<1>7. CASE AdjustWrite(w)
  BY <1>7 DEF AdjustWrite, Doing
<1> QED BY <1>1, <1>2, <1>3, <1>4, <1>5, <1>6, <1>7 DEF TenderStep

LEMMA ChargesAreCharges ==
  ASSUME IInv, NEW c \in Codes
  PROVE  ChargesFor(c) \subseteq Charges \cup {None}
<1>1. FixedCharge(c) \in Charges
  BY DEF IInv, TypeOK, FixedCharge, Charges
<1>2. ASSUME NEW b \in locked PROVE GlobalCharge(b) \in Charges
  <2>1. bid[b] \in Offers /\ spent[b] \in Int /\ globalRate \in Int
    BY DEF IInv, TypeOK, PendingHasBid
  <2>2. Construction(b) \in Int
    BY <2>1 DEF Construction, Offers
  <2> QED BY <2>1, <2>2, PercentIsInt DEF GlobalCharge, Charges
<1> QED BY <1>1, <1>2 DEF ChargesFor

LEMMA SharesAreIntegers ==
  ASSUME IInv, NEW p \in Prices, cost # None, Divisible(cost.method, surface)
  PROVE  Shares(p) \in Ledgers
<1>1. cost.land \in Int /\ cost.study \in Int /\ surface \in [Lots -> Int] /\ Lot \in Lots /\ p \in Nat
  BY CostsAreIntegers, AmountsAreIntegers, LotIsOfTheProgramme DEF IInv, TypeOK
<1>2. \A n \in Int : LotShare(n, cost.method, surface, Lot) \in Int
  BY <1>1, ShareIsInt
<1> QED BY <1>1, <1>2 DEF Shares, Ledgers

LEMMA LedgerKeeps ==
  ASSUME IInv, NEW w \in Workers, LedgerStep(w)
  PROVE  IInv'
<1> USE DEF IInv, TypeOK, PendingHasBid, LedgerHasBid, LotLocked, tariffs, tender, works,
            Become, Rest, Resting, Task, Ops
<1>1. CASE \E c \in Codes : MissionRead(w, c)
  <2>1. PICK c \in Codes : MissionRead(w, c)
    BY <1>1
  <2>2. PICK e \in Charges \cup {None} : task' = [task EXCEPT ![w] = Task("mission", None, e, 0)]
    BY <2>1, ChargesAreCharges DEF MissionRead
  <2> QED BY <2>1, <2>2 DEF MissionRead
<1>2. CASE MissionWeigh(w)
  <2>1. PICK n \in Int : task' = [task EXCEPT ![w] = Task("weighed", None, task[w].entry, n)]
    BY <1>2 DEF MissionWeigh
  <2> QED BY <1>2, <2>1 DEF MissionWeigh, Doing
<1>3. CASE MissionWrite(w)
  BY <1>3 DEF MissionWrite, Doing
<1>4. CASE \E p \in Prices : LedgerRead(w, p)
  <2>1. PICK p \in Prices : LedgerRead(w, p)
    BY <1>4
  <2>2. Shares(p) \in Ledgers
    BY <2>1, SharesAreIntegers DEF LedgerRead
  <2> QED BY <2>1, <2>2 DEF LedgerRead
<1>5. CASE LedgerWrite(w)
  BY <1>5 DEF LedgerWrite, Doing
<1>6. CASE LedgerConflict(w)
  BY <1>6 DEF LedgerConflict
<1> QED BY <1>1, <1>2, <1>3, <1>4, <1>5, <1>6 DEF LedgerStep

LEMMA NextKeeps == IInv /\ [Next]_vars => IInv'
<1> SUFFICES ASSUME IInv, [Next]_vars PROVE IInv'
  OBVIOUS
<1>1. CASE TariffStep
  BY <1>1, TariffKeeps
<1>2. ASSUME NEW w \in Workers, TenderStep(w) \/ LedgerStep(w) PROVE IInv'
  BY <1>2, TenderKeeps, LedgerKeeps
<1>3. CASE UNCHANGED vars
  BY <1>3 DEF IInv, TypeOK, PendingHasBid, LedgerHasBid, LotLocked, vars, tariffs, tender, works
<1> QED BY <1>1, <1>2, <1>3 DEF Next

\* Every reachable state is well typed, whatever the requests have read.
THEOREM TypeCorrect == Spec => []TypeOK
<1>1. IInv => TypeOK
  BY DEF IInv
<1> QED BY <1>1, InitEstablishes, NextKeeps, PTL DEF Spec

\* The margin of a ledger is always defined: it has a selected bid to read
\* (_compute_lot_ledger_margin_breakdown).
THEOREM LedgerHasBidCorrect == Spec => []LedgerHasBid
<1>1. IInv => LedgerHasBid
  BY DEF IInv
<1> QED BY <1>1, InitEstablishes, NextKeeps, PTL DEF Spec

\* No step rewrites a ledger: the unique constraint on the lot is enough
\* against any number of overlapping creations (create_lot_ledger).
THEOREM LedgerIsFrozenCorrect == Spec => LedgerIsFrozen
<1>1. [Next]_vars => [ledger # None => ledger' = ledger]_vars
  <2> SUFFICES ASSUME Next, ledger # None PROVE ledger' = ledger
    BY DEF vars
  <2>1. CASE TariffStep
    BY <2>1 DEF TariffStep
  <2>2. ASSUME NEW w \in Workers, TenderStep(w) PROVE ledger' = ledger
    BY <2>2 DEF TenderStep, BidRead, BidWrite, LockRead, LockWrite, AdjustRead, AdjustRefuse, AdjustWrite
  <2>3. ASSUME NEW w \in Workers, LedgerStep(w) PROVE ledger' = ledger
    BY <2>3 DEF LedgerStep, MissionRead, MissionWeigh, MissionWrite, LedgerRead, LedgerWrite,
                LedgerConflict, LedgerFree, works
  <2> QED BY <2>1, <2>2, <2>3 DEF Next
<1> QED BY <1>1, PTL DEF Spec, LedgerIsFrozen

\* The shares of the costs miss them by half a cent per lot at most, whatever
\* the costs, the surfaces and the number of lots (compute_lot_repartition).
THEOREM DriftIsBoundedCorrect == Spec => []DriftIsBounded
<1>1. ASSUME IInv, cost # None, NEW total \in {cost.land, cost.study}, NEW method, Divisible(method, surface)
      PROVE  LET d == Drift(total, method, surface) IN
               2 * d <= Cardinality(Lots) /\ -2 * d <= Cardinality(Lots)
  <2>1. total \in Int /\ surface \in [Lots -> Int]
    BY <1>1, CostsAreIntegers DEF IInv, TypeOK
  <2> QED BY <1>1, <2>1, DriftOfShares
<1>2. IInv => DriftIsBounded
  BY <1>1 DEF DriftIsBounded
<1> QED BY <1>2, InitEstablishes, NextKeeps, PTL DEF Spec

-----------------------------------------------------------------------------
(* Requests in turn: what one has read is still true when it writes, as     *)
(* long as no other has stepped in between.                                 *)

StillTrue ==
  \A w \in Workers :
    LET t == task[w] IN
      /\ t.op = "lock" => locked = {}
      /\ t.op = "adjust" => spent[t.row] + t.number <= bid[t.row].margin
      /\ t.op \in {"mission", "weighed"} /\ t.entry # None => ~(t.entry.global /\ GlobalConsumed)

\* The margin was weighed as it will be once the charge is written.
Weighed(w) ==
  LET t == task[w] IN
    t.op = "weighed" /\ t.entry # None /\ ledger # None /\ (\E b \in locked : Margin(b, t.entry.amount) < 0)
      => t.number = 1

ChargesAreAssigned == \A m \in Missions : charge[m] # None => m \in assigned

Turns == OneLocked /\ MarginKept /\ GlobalChargedOnce /\ StillTrue

TurnInv == IInv /\ ChargesAreAssigned /\ (~overlapped => Turns /\ \A w \in Workers : Weighed(w))

LEMMA TurnInit == MCInit => TurnInv
<1> SUFFICES ASSUME MCInit PROVE TurnInv
  OBVIOUS
<1>1. IInv
  BY InitEstablishes DEF MCInit
<1>2. Turns /\ ChargesAreAssigned
  BY DEF MCInit, Init, Turns, OneLocked, MarginKept, GlobalChargedOnce, ChargesAreAssigned, StillTrue, Resting, Task
<1>3. \A w \in Workers : Weighed(w)
  BY DEF MCInit, Init, Weighed, Resting, Task
<1> QED BY <1>1, <1>2, <1>3 DEF TurnInv

LEMMA MissionsAreAssigned ==
  ASSUME IInv, ChargesAreAssigned, [Next]_vars
  PROVE  ChargesAreAssigned'
<1> USE DEF ChargesAreAssigned, works
<1>1. CASE TariffStep
  BY <1>1 DEF TariffStep
<1>2. ASSUME NEW w \in Workers, TenderStep(w) PROVE ChargesAreAssigned'
  BY <1>2 DEF TenderStep, BidRead, BidWrite, LockRead, LockWrite, AdjustRead, AdjustRefuse, AdjustWrite
<1>3. ASSUME NEW w \in Workers, LedgerStep(w) PROVE ChargesAreAssigned'
  <2>1. CASE MissionWrite(w)
    BY <2>1 DEF MissionWrite, IInv, TypeOK
  <2> QED BY <1>3, <2>1 DEF LedgerStep, MissionRead, MissionWeigh, LedgerRead, LedgerWrite, LedgerConflict
<1>4. CASE UNCHANGED vars
  BY <1>4 DEF vars
<1> QED BY <1>1, <1>2, <1>3, <1>4 DEF Next

LEMMA TurnOfTender ==
  ASSUME Turns, IInv, IInv', NEW w \in Workers, \A v \in Workers \ {w} : Idle(v), TenderStep(w)
  PROVE  Turns'
<1> USE DEF Turns, IInv, TypeOK, PendingHasBid, OneLocked, MarginKept, GlobalChargedOnce, ChargesAreAssigned,
            StillTrue, GlobalConsumed, Idle, tariffs, tender, works, Become, Rest, Resting, Task
<1>1. CASE \E a \in Amounts : BidRead(w, a)
  BY <1>1 DEF BidRead
<1>2. CASE BidWrite(w)
  <2>1. PICK b \in Bids : bid[b] = None /\ bid' = [bid EXCEPT ![b] = task[w].entry]
    BY <1>2 DEF BidWrite
  <2>2. task[w].entry \in Offers /\ spent[b] = 0
    BY <1>2, <2>1 DEF BidWrite, Doing
  <2> QED BY <1>2, <2>1, <2>2 DEF BidWrite, Offers
<1>3. CASE \E b \in Bids : LockRead(w, b)
  BY <1>3 DEF LockRead, Lockable, LotLocked
<1>4. CASE LockWrite(w)
  BY <1>4 DEF LockWrite, Doing
<1>5. CASE \E b \in Bids, e \in Gaps : AdjustRead(w, b, e)
  <2>1. PICK b \in Bids, e \in Gaps : AdjustRead(w, b, e)
    BY <1>5
  <2>2. bid[b] \in Offers /\ spent[b] \in Int /\ e \in Int
    BY <2>1, AmountsAreIntegers DEF AdjustRead
  <2>3. spent[b] + e <= bid[b].margin
    BY <2>1, <2>2 DEF AdjustRead, Fits, AvailableMargin, Offers
  <2> QED BY <2>1, <2>3 DEF AdjustRead
<1>6. CASE \E b \in Bids, e \in Gaps : AdjustRefuse(w, b, e)
  BY <1>6 DEF AdjustRefuse
<1>7. CASE AdjustWrite(w)
  BY <1>7 DEF AdjustWrite, Doing
<1> QED BY <1>1, <1>2, <1>3, <1>4, <1>5, <1>6, <1>7 DEF TenderStep

LEMMA TurnOfLedger ==
  ASSUME Turns, IInv, IInv', NEW w \in Workers, \A v \in Workers \ {w} : Idle(v), LedgerStep(w)
  PROVE  Turns'
<1> USE DEF Turns, IInv, TypeOK, PendingHasBid, OneLocked, MarginKept, GlobalChargedOnce, ChargesAreAssigned,
            StillTrue, GlobalConsumed, Idle, tariffs, tender, works, Become, Rest, Resting, Task
<1>1. CASE \E c \in Codes : MissionRead(w, c)
  <2>1. PICK c \in Codes : MissionRead(w, c)
    BY <1>1
  <2>2. PICK e \in ChargesFor(c) : task' = [task EXCEPT ![w] = Task("mission", None, e, 0)]
    BY <2>1 DEF MissionRead
  <2>3. e # None => ~(e.global /\ GlobalConsumed)
    BY <2>2 DEF ChargesFor, FixedCharge, GlobalCharge, GlobalApplies, Consumed
  <2> QED BY <2>1, <2>2, <2>3 DEF MissionRead
<1>2. CASE MissionWeigh(w)
  <2>1. PICK n \in Int : task' = [task EXCEPT ![w] = Task("weighed", None, task[w].entry, n)]
    BY <1>2 DEF MissionWeigh
  <2> QED BY <1>2, <2>1 DEF MissionWeigh, Doing
<1>3. CASE MissionWrite(w)
  <2>1. PICK m \in Missions : charge' = [charge EXCEPT ![m] = task[w].entry]
    BY <1>3 DEF MissionWrite
  <2> QED BY <1>3, <2>1 DEF MissionWrite, Doing
<1>4. CASE \E p \in Prices : LedgerRead(w, p)
  BY <1>4 DEF LedgerRead
<1>5. CASE LedgerWrite(w)
  BY <1>5 DEF LedgerWrite, Doing
<1>6. CASE LedgerConflict(w)
  BY <1>6 DEF LedgerConflict
<1> QED BY <1>1, <1>2, <1>3, <1>4, <1>5, <1>6 DEF LedgerStep

\* Unless requests have overlapped, whoever has begun makes the next step.
LEMMA TurnsAreTaken ==
  ASSUME IInv, MCNext, ~overlapped'
  PROVE  /\ ~overlapped
         /\ TariffStep => \A v \in Workers : Idle(v)
         /\ \A w \in Workers :
              TenderStep(w) \/ LedgerStep(w) =>
                \A v \in Workers \ {w} : Idle(v) /\ task'[v] = task[v]
<1>1. ~overlapped /\ \A v \in Workers : Idle(v) \/ task'[v] # task[v]
  BY DEF MCNext
<1>2. TariffStep => \A v \in Workers : Idle(v)
  BY <1>1 DEF TariffStep
<1>3. ASSUME NEW w \in Workers, TenderStep(w) \/ LedgerStep(w), NEW v \in Workers \ {w}
      PROVE  task'[v] = task[v]
  BY <1>3 DEF IInv, TypeOK, TenderStep, LedgerStep, BidRead, BidWrite, LockRead, LockWrite, AdjustRead, AdjustRefuse,
              AdjustWrite, MissionRead, MissionWeigh, MissionWrite, LedgerRead, LedgerWrite, LedgerConflict, Become, Rest
<1> QED BY <1>1, <1>2, <1>3

\* A charge is weighed last, and with the only selected bid.
LEMMA TurnOfWeighing ==
  ASSUME IInv, Turns, MCNext, ~overlapped', NEW v \in Workers
  PROVE  Weighed(v)'
<1> SUFFICES ASSUME task'[v].op = "weighed" PROVE Weighed(v)'
  BY DEF Weighed
<1>1. MissionWeigh(v)
  <2>1. ASSUME TariffStep PROVE FALSE
    BY <2>1, TurnsAreTaken DEF TariffStep, Idle
  <2>2. ASSUME NEW w \in Workers, TenderStep(w) \/ LedgerStep(w), w # v PROVE FALSE
    BY <2>2, TurnsAreTaken DEF Idle
  <2>3. ASSUME TenderStep(v) PROVE FALSE
    BY <2>3 DEF IInv, TypeOK, Idle, Become, Rest, Resting, Task, TenderStep, BidRead, BidWrite, LockRead, LockWrite, AdjustRead,
                AdjustRefuse, AdjustWrite
  <2>4. ASSUME LedgerStep(v) PROVE MissionWeigh(v)
    BY <2>4 DEF IInv, TypeOK, Become, Rest, Resting, Task, LedgerStep, MissionRead, MissionWrite, LedgerRead,
                LedgerWrite, LedgerConflict
  <2> QED BY <2>1, <2>2, <2>3, <2>4 DEF MCNext, Next
<1>2. UNCHANGED <<tariffs, tender, works, ledger>>
  BY <1>1 DEF MissionWeigh
<1>3. \A b, x : Margin(b, x)' = Margin(b, x)
  BY <1>2 DEF Margin, Charged, Construction, tender, works
<1>4. PICK n : /\ task'[v] = Task("weighed", None, task[v].entry, n)
               /\ \/ (task[v].entry = None \/ ledger = None) /\ n = 0
                  \/ \E b \in locked : n = IF Alerts(b, task[v].entry) THEN 1 ELSE 0
  BY <1>1 DEF MissionWeigh, Become, IInv, TypeOK
<1>5. task'[v].entry = task[v].entry /\ task'[v].number = n
  BY <1>4 DEF Task
<1> QED BY <1>2, <1>3, <1>4, <1>5 DEF Weighed, Turns, OneLocked, Alerts, WeighsDown, tender

LEMMA TurnKept == TurnInv /\ [MCNext]_<<vars, overlapped>> => TurnInv'
<1> SUFFICES ASSUME TurnInv, [MCNext]_<<vars, overlapped>> PROVE TurnInv'
  OBVIOUS
<1>1. IInv' /\ ChargesAreAssigned'
  BY NextKeeps, MissionsAreAssigned DEF TurnInv, MCNext
<1>2. CASE UNCHANGED <<vars, overlapped>>
  BY <1>1, <1>2 DEF TurnInv, Turns, OneLocked, MarginKept, GlobalChargedOnce, StillTrue, GlobalConsumed, Weighed,
                    Margin, Charged, Construction, vars, tender, works
<1>3. ASSUME MCNext, ~overlapped' PROVE Turns' /\ \A w \in Workers : Weighed(w)'
  <2>1. IInv /\ Turns
    BY <1>3, TurnsAreTaken DEF TurnInv
  <2>2. ASSUME TariffStep PROVE Turns'
    <3>1. UNCHANGED <<bid, locked, spent, charge, task>>
      BY <2>2 DEF TariffStep, tender, works
    <3>2. OneLocked' /\ MarginKept' /\ GlobalChargedOnce'
      BY <2>1, <3>1 DEF Turns, OneLocked, MarginKept, GlobalChargedOnce
    <3>3. StillTrue'
      BY <2>1, <3>1 DEF Turns, StillTrue, GlobalConsumed
    <3> QED BY <3>2, <3>3 DEF Turns
  <2>3. ASSUME NEW w \in Workers, TenderStep(w) \/ LedgerStep(w) PROVE Turns'
    BY <1>1, <1>3, <2>1, <2>3, TurnsAreTaken, TurnOfTender, TurnOfLedger
  <2>4. Turns'
    BY <1>3, <2>2, <2>3 DEF MCNext, Next
  <2> QED BY <1>3, <2>1, <2>4, TurnOfWeighing
<1> QED BY <1>1, <1>2, <1>3 DEF TurnInv

\* As long as the requests take turns, one bid of the lot is selected, though
\* nothing but a read guards the insertion (lock_devis).
THEOREM OneLockedInTurnCorrect == MCSpec => []OneLockedInTurn
<1>1. TurnInv => OneLockedInTurn
  BY DEF TurnInv, Turns, OneLockedInTurn
<1> QED BY <1>1, TurnInit, TurnKept, PTL DEF MCSpec

\* As long as the requests take turns, the adjustments of a bid stay within the
\* margin that was read before (create_ajustement).
THEOREM MarginKeptInTurnCorrect == MCSpec => []MarginKeptInTurn
<1>1. TurnInv => MarginKeptInTurn
  BY DEF TurnInv, Turns, MarginKeptInTurn
<1> QED BY <1>1, TurnInit, TurnKept, PTL DEF MCSpec

\* As long as the requests take turns, the global rate is charged once
\* (_record_global_bc_charge_if_available).
THEOREM GlobalChargedOnceInTurnCorrect == MCSpec => []GlobalChargedOnceInTurn
<1>1. TurnInv => GlobalChargedOnceInTurn
  BY DEF TurnInv, Turns, GlobalChargedOnceInTurn
<1> QED BY <1>1, TurnInit, TurnKept, PTL DEF MCSpec

-----------------------------------------------------------------------------
(* The charge that was weighed is the one that is written.                  *)

\* Writing the charge of a new mission adds its amount to the charges.
LEMMA ChargeAdds ==
  ASSUME IInv, ChargesAreAssigned, NEW e \in Charges, NEW m \in Missions \ assigned, e # None,
         charge' = [charge EXCEPT ![m] = e]
  PROVE  Charged \in Int /\ Charged' = Charged + e.amount
<1> DEFINE f == [n \in Missions |-> IF charge[n] = None THEN 0 ELSE charge[n].amount]
           g == [n \in Missions |-> IF charge'[n] = None THEN 0 ELSE charge'[n].amount]
<1>1. \A n \in Missions : f[n] \in Int /\ g[n] \in Int
  BY DEF IInv, TypeOK, Charges
<1>2. f[m] = 0 /\ g[m] = e.amount /\ \A n \in Missions \ {m} : g[n] = f[n]
  BY DEF IInv, TypeOK, ChargesAreAssigned
<1>3. Charged = SumFunctionOnSet(f, Missions) /\ Charged' = SumFunctionOnSet(g, Missions)
  BY DEF Charged, SumFunction
<1> HIDE DEF f, g
<1>4. SumFunctionOnSet(f, Missions) \in Int
  BY <1>1, MissionsAreFinite, SumRemove
<1>5. SumFunctionOnSet(g, Missions) = SumFunctionOnSet(f, Missions) - f[m] + g[m]
  BY <1>1, <1>2, MissionsAreFinite, SumUpdate
<1>6. e.amount \in Int
  BY DEF Charges
<1> QED BY <1>2, <1>3, <1>4, <1>5, <1>6

\* As long as the requests take turns, a charge that leaves the ledger with a
\* negative margin leaves an alert: it was weighed against the bid and the other
\* charges as they are when it is written (_maybe_alert_negative_margin).
THEOREM ChargeIsWeighedInTurnCorrect == MCSpec => ChargeIsWeighedInTurn
<1>1. TurnInv /\ [MCNext]_<<vars, overlapped>> => [~overlapped' => ChargeIsWeighed]_<<vars, overlapped>>
  <2> SUFFICES ASSUME TurnInv, MCNext, ~overlapped', charge' # charge, ledger # None,
                      NEW b \in locked, Margin(b, 0)' < 0
               PROVE  warned'
    BY DEF ChargeIsWeighed
  <2>1. IInv /\ Turns /\ \A w \in Workers : Weighed(w)
    BY TurnsAreTaken DEF TurnInv
  <2>2. PICK w \in Workers : MissionWrite(w)
    BY DEF MCNext, Next, TariffStep, TenderStep, LedgerStep, BidRead, BidWrite, LockRead, LockWrite, AdjustRead,
           AdjustRefuse, AdjustWrite, MissionRead, MissionWeigh, LedgerRead, LedgerWrite, LedgerConflict, works
  <2> DEFINE e == task[w].entry
  <2>3. PICK m \in Missions \ assigned : charge' = [charge EXCEPT ![m] = e]
    BY <2>2 DEF MissionWrite
  <2>4. e # None /\ e \in Charges
    <3>1. charge[m] = None /\ charge = [n \in Missions |-> charge[n]]
      BY <2>1 DEF TurnInv, ChargesAreAssigned, IInv, TypeOK
    <3>2. e = None => charge' = [n \in Missions |-> charge[n]]
      BY <2>3, <3>1
    <3>3. e \in Charges \cup {None}
      BY <2>1, <2>2 DEF MissionWrite, Doing, IInv, TypeOK
    <3> QED BY <3>1, <3>2, <3>3
  <2>5. UNCHANGED <<ledger, bid, spent>>
    BY <2>2 DEF MissionWrite, tender
  <2>6. Margin(b, 0)' = Margin(b, e.amount)
    <3> DEFINE m0 == ledger.price - ledger.land - ledger.study - Construction(b)
    <3>1. bid[b] \in Offers /\ spent[b] \in Int /\ ledger \in Ledgers
      BY <2>1 DEF IInv, TypeOK, PendingHasBid
    <3>2. m0 \in Int
      BY <3>1 DEF Construction, Offers, Ledgers
    <3>3. Charged \in Int /\ Charged' = Charged + e.amount /\ e.amount \in Int
      BY <2>1, <2>3, <2>4, ChargeAdds DEF TurnInv, Charges
    <3>4. Construction(b)' = Construction(b)
      BY <2>5 DEF Construction
    <3>5. Margin(b, 0)' = m0 - Charged' - 0 /\ Margin(b, e.amount) = m0 - Charged - e.amount
      BY <2>5, <3>4 DEF Margin
    <3> HIDE DEF m0
    <3> QED BY <3>2, <3>3, <3>5
  <2> QED BY <2>1, <2>2, <2>4, <2>6 DEF Weighed, MissionWrite, Doing
<1> QED BY <1>1, TurnInit, TurnKept, PTL DEF MCSpec, ChargeIsWeighedInTurn
=============================================================================
