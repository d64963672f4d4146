------------------------- MODULE PaymentFileProofs -------------------------
(***************************************************************************)
(* Theorems about module PaymentFile, for every price and fee, any legal   *)
(* templates, receipts, amounts and notices.                               *)
(*                                                                         *)
(* The first part is about sums of integers over finite sets               *)
(* (SumFunctionOnSet of the community modules).  An induction over the     *)
(* finite sets is stated with the set of the sets that are good, so that   *)
(* no lemma has an operator for a parameter.                               *)
(***************************************************************************)
EXTENDS PaymentFile, FiniteSetTheorems, TLAPS

\* If a set is good as soon as its proper subsets are, every subset is.
LEMMA SubsetInduction ==
  ASSUME NEW S, IsFiniteSet(S), NEW Good,
         \A s \in SUBSET S : (\A t \in SUBSET s : t # s => t \in Good) => s \in Good
  PROVE  SUBSET S \subseteq Good
<1>1. IsWellFoundedOn(StrictSubsetOrdering(S), SUBSET S)
  BY FS_StrictSubsetOrderingWellFounded, FS_FiniteSubsetsOfFinite
<1>2. ASSUME NEW Bad, Bad = (SUBSET S) \ Good, Bad # {} PROVE FALSE
  <2>1. PICK s \in Bad : \A t \in Bad : <<t, s>> \notin StrictSubsetOrdering(S)
    BY <1>1, <1>2, WFMin
  <2> QED BY <1>2, <2>1 DEF StrictSubsetOrdering
<1>3. (SUBSET S) \ Good = {}
  BY <1>2
<1> QED BY <1>3

-----------------------------------------------------------------------------
(* The recursion behind a sum is well defined.                              *)

Pick(S) == CHOOSE x \in S : TRUE
Left(S) == S \ {Pick(S)}

\* g sums f over every subset of S, one element after the other.
Sums(f, S, g)  == g = [s \in SUBSET S |-> IF s = {} THEN 0 ELSE f[Pick(s)] + g[Left(s)]]
SumsOver(f, S) == CHOOSE g : Sums(f, S, g)

LEMMA SumUnfolds ==
  ASSUME NEW f, NEW S
  PROVE  SumFunctionOnSet(f, S) = SumsOver(f, S)[S]
BY DEF SumFunctionOnSet, FoldFunctionOnSet, MapThenFoldSet, Sums, Pick, SumsOver, Left

LEMMA PickIn ==
  ASSUME NEW S, S # {}
  PROVE  Pick(S) \in S /\ Left(S) \in SUBSET S /\ Left(S) # S
BY DEF Pick, Left

LEMMA SumsAgree ==
  ASSUME NEW f, NEW S, IsFiniteSet(S), NEW s \in SUBSET S, NEW g, Sums(f, S, g), NEW h, Sums(f, s, h)
  PROVE  g[s] = h[s]
<1> DEFINE Good == {u \in SUBSET s : g[u] = h[u]}
<1>1. ASSUME NEW u \in SUBSET s, \A v \in SUBSET u : v # u => v \in Good PROVE u \in Good
  <2>1. CASE u = {}
    BY <2>1 DEF Sums
  <2>2. CASE u # {}
    <3>1. Left(u) \in Good
      BY <1>1, <2>2, PickIn
    <3> QED BY <2>2, <3>1 DEF Sums
  <2> QED BY <2>1, <2>2
<1>2. SUBSET s \subseteq Good
  <2>1. IsFiniteSet(s)
    BY FS_Subset
  <2> HIDE DEF Good
  <2> QED BY <1>1, <2>1, SubsetInduction
<1> QED BY <1>2

LEMMA SumsExist ==
  ASSUME NEW f, NEW S, IsFiniteSet(S)
  PROVE  \A s \in SUBSET S : Sums(f, s, SumsOver(f, s))
<1> DEFINE Good == {s \in SUBSET S : Sums(f, s, SumsOver(f, s))}
<1>1. ASSUME NEW s \in SUBSET S, \A t \in SUBSET s : t # s => t \in Good PROVE s \in Good
  <2> DEFINE V(t) == SumsOver(f, t)[t]
             h == [t \in SUBSET s |-> IF t = {} THEN 0 ELSE f[Pick(t)] + V(Left(t))]
  <2>1. ASSUME NEW t \in SUBSET s, t # s PROVE V(t) = h[t]
    <3>1. CASE t = {}
      BY <1>1, <2>1, <3>1 DEF Sums
    <3>2. CASE t # {}
      <4>1. Left(t) \in SUBSET t /\ Left(t) \in SUBSET s /\ Left(t) # s
        BY <2>1, <3>2, PickIn
      <4>2. Sums(f, t, SumsOver(f, t)) /\ Sums(f, Left(t), SumsOver(f, Left(t)))
        BY <1>1, <2>1, <4>1
      <4>3. SumsOver(f, t)[Left(t)] = V(Left(t))
        BY <4>1, <4>2, SumsAgree, FS_Subset
      <4>4. SumsOver(f, t)[t] = f[Pick(t)] + SumsOver(f, t)[Left(t)]
        BY <3>2, <4>2 DEF Sums
      <4> QED BY <3>2, <4>3, <4>4
    <3> QED BY <3>1, <3>2
  <2>2. ASSUME NEW t \in SUBSET s, t # {} PROVE h[Left(t)] = V(Left(t))
    <3>1. Left(t) \in SUBSET s /\ Left(t) # s
      BY <2>2, PickIn
    <3> QED BY <2>1, <3>1
  <2> HIDE DEF V
  <2>3. Sums(f, s, h)
    BY <2>2 DEF Sums
  <2> QED BY <2>3 DEF SumsOver
<1>2. SUBSET S \subseteq Good
  <2> HIDE DEF Good
  <2> QED BY <1>1, SubsetInduction
<1> QED BY <1>2

LEMMA SumStep ==
  ASSUME NEW f, NEW S, IsFiniteSet(S)
  PROVE  SumFunctionOnSet(f, S) = IF S = {} THEN 0 ELSE f[Pick(S)] + SumFunctionOnSet(f, Left(S))
<1>1. Sums(f, S, SumsOver(f, S))
  BY SumsExist
<1>2. CASE S = {}
  BY <1>1, <1>2, SumUnfolds DEF Sums
<1>3. CASE S # {}
  <2>1. Left(S) \in SUBSET S
    BY <1>3, PickIn
  <2>2. SumsOver(f, S)[Left(S)] = SumsOver(f, Left(S))[Left(S)]
    BY <1>1, <2>1, SumsExist, SumsAgree
  <2>3. SumsOver(f, S)[S] = f[Pick(S)] + SumsOver(f, S)[Left(S)]
    BY <1>1, <1>3 DEF Sums
  <2> QED BY <1>3, <2>2, <2>3, SumUnfolds
<1> QED BY <1>2, <1>3

-----------------------------------------------------------------------------
(* What the proofs use.                                                     *)

LEMMA SumOfNone ==
  ASSUME NEW f
  PROVE  SumFunctionOnSet(f, {}) = 0
BY SumStep, FS_EmptySet

\* Any element may be taken out first.
LEMMA SumRemove ==
  ASSUME NEW S, IsFiniteSet(S), NEW f, \A x \in S : f[x] \in Int
  PROVE  /\ SumFunctionOnSet(f, S) \in Int
         /\ \A x \in S : SumFunctionOnSet(f, S) = f[x] + SumFunctionOnSet(f, S \ {x})
<1> DEFINE Sum(s) == SumFunctionOnSet(f, s)
           Good == {s \in SUBSET S : Sum(s) \in Int /\ \A x \in s : Sum(s) = f[x] + Sum(s \ {x})}
<1>1. ASSUME NEW s \in SUBSET S, \A t \in SUBSET s : t # s => t \in Good PROVE s \in Good
  <2>1. CASE s = {}
    <3>1. Sum({}) = 0
      BY SumOfNone
    <3> QED BY <2>1, <3>1
  <2>2. CASE s # {}
    <3> DEFINE p == Pick(s)
    <3>1. p \in s /\ s \ {p} \in Good
      BY <1>1, <2>2, PickIn
    <3>2. Sum(s) = f[p] + Sum(s \ {p})
      BY <2>2, SumStep, FS_Subset DEF Left
    <3>3. ASSUME NEW x \in s, x # p PROVE Sum(s) = f[x] + Sum(s \ {x})
      <4> DEFINE r == (s \ {p}) \ {x}
      <4>1. r = (s \ {x}) \ {p} /\ x \in s \ {p} /\ p \in s \ {x}
        BY <3>1, <3>3
      <4>2. s \ {x} \in Good /\ r \in Good
        BY <1>1, <3>1, <3>3
      <4>3. Sum(s \ {p}) = f[x] + Sum(r)
        BY <3>1, <4>1
      <4>4. Sum(s \ {x}) = f[p] + Sum(r)
        BY <4>1, <4>2
      <4>5. f[x] \in Int /\ f[p] \in Int /\ Sum(r) \in Int
        BY <3>1, <4>2
      <4> QED BY <3>2, <4>3, <4>4, <4>5
    <3>4. Sum(s) \in Int
      BY <3>1, <3>2
    <3> QED BY <3>2, <3>3, <3>4
  <2> QED BY <2>1, <2>2
<1>2. SUBSET S \subseteq Good
  <2> HIDE DEF Good
  <2> QED BY <1>1, SubsetInduction
<1> QED BY <1>2

LEMMA SumOfZeros ==
  ASSUME NEW S, IsFiniteSet(S), NEW f, \A x \in S : f[x] = 0
  PROVE  SumFunctionOnSet(f, S) = 0
<1> DEFINE Good == {s \in SUBSET S : SumFunctionOnSet(f, s) = 0}
<1>1. ASSUME NEW s \in SUBSET S, \A u \in SUBSET s : u # s => u \in Good
      PROVE  s \in Good
  <2>1. CASE s = {}
    BY <2>1, SumOfNone
  <2>2. CASE s # {}
    <3>1. PICK x \in s : TRUE
      BY <2>2
    <3>2. IsFiniteSet(s) /\ \A y \in s : f[y] \in Int
      BY FS_Subset
    <3>3. SumFunctionOnSet(f, s) = f[x] + SumFunctionOnSet(f, s \ {x})
      BY <3>1, <3>2, SumRemove
    <3>4. s \ {x} \in Good
      BY <1>1, <3>1
    <3> QED BY <3>1, <3>3, <3>4
  <2> QED BY <2>1, <2>2
<1>2. SUBSET S \subseteq Good
  <2> HIDE DEF Good
  <2> QED BY <1>1, SubsetInduction
<1> QED BY <1>2

\* Only the values on the set count.
LEMMA SumSame ==
  ASSUME NEW S, IsFiniteSet(S), NEW f, NEW g, \A x \in S : f[x] = g[x]
  PROVE  SumFunctionOnSet(f, S) = SumFunctionOnSet(g, S)
<1> DEFINE Good == {s \in SUBSET S : SumFunctionOnSet(f, s) = SumFunctionOnSet(g, s)}
<1>1. ASSUME NEW s \in SUBSET S, \A t \in SUBSET s : t # s => t \in Good PROVE s \in Good
  <2>1. CASE s = {}
    BY <2>1, SumOfNone
  <2>2. CASE s # {}
    <3>1. Left(s) \in Good /\ f[Pick(s)] = g[Pick(s)]
      BY <1>1, <2>2, PickIn
    <3> QED BY <2>2, <3>1, SumStep, FS_Subset
  <2> QED BY <2>1, <2>2
<1>2. SUBSET S \subseteq Good
  <2> HIDE DEF Good
  <2> QED BY <1>1, SubsetInduction
<1> QED BY <1>2

\* A sum of naturals grows with its terms, and with the set.
LEMMA SumGrows ==
  ASSUME NEW S, IsFiniteSet(S), NEW T \in SUBSET S, NEW f, NEW g,
         \A x \in S : g[x] \in Nat, \A x \in T : f[x] \in Nat /\ f[x] <= g[x]
  PROVE  /\ SumFunctionOnSet(f, T) \in Nat /\ SumFunctionOnSet(g, S) \in Nat
         /\ SumFunctionOnSet(f, T) <= SumFunctionOnSet(g, S)
<1> DEFINE F(t) == SumFunctionOnSet(f, t)
           G(s) == SumFunctionOnSet(g, s)
           Good == {s \in SUBSET S : /\ F(s \cap T) \in Nat /\ G(s) \in Nat
                                     /\ F(s \cap T) <= G(s)}
<1>1. ASSUME NEW s \in SUBSET S, \A t \in SUBSET s : t # s => t \in Good PROVE s \in Good
  <2>1. CASE s = {}
    <3>1. F({}) = 0 /\ G({}) = 0
      BY SumOfNone
    <3> QED BY <2>1, <3>1
  <2>2. CASE s # {}
    <3>1. PICK x \in s : TRUE
      BY <2>2
    <3>2. s \ {x} \in Good
      BY <1>1
    <3>3. G(s) = g[x] + G(s \ {x})
      BY FS_Subset, SumRemove
    <3>4. CASE x \notin T
      <4>1. s \cap T = (s \ {x}) \cap T
        BY <3>4
      <4>2. F(s \cap T) \in Nat /\ G(s \ {x}) \in Nat /\ F(s \cap T) <= G(s \ {x}) /\ g[x] \in Nat
        BY <3>1, <3>2, <4>1
      <4> HIDE DEF F, G
      <4> QED BY <3>3, <4>2
    <3>5. CASE x \in T
      <4>1. (s \cap T) \ {x} = (s \ {x}) \cap T
        OBVIOUS
      <4>2. IsFiniteSet(s \cap T) /\ \A y \in s \cap T : f[y] \in Int
        BY FS_Subset
      <4>3. F(s \cap T) = f[x] + F((s \cap T) \ {x})
        BY <3>1, <3>5, <4>2, SumRemove
      <4> QED BY <3>2, <3>3, <3>5, <4>1, <4>3
    <3> QED BY <3>4, <3>5
  <2> QED BY <2>1, <2>2
<1>2. SUBSET S \subseteq Good
  <2> HIDE DEF Good
  <2> QED BY <1>1, SubsetInduction
<1>3. S \in Good /\ S \cap T = T
  BY <1>2
<1> QED BY <1>3

\* One term changes.
LEMMA SumUpdate ==
  ASSUME NEW S, IsFiniteSet(S), NEW f, NEW g, NEW x \in S,
         \A y \in S : f[y] \in Int /\ g[y] \in Int, \A y \in S \ {x} : g[y] = f[y]
  PROVE  SumFunctionOnSet(g, S) = SumFunctionOnSet(f, S) - f[x] + g[x]
<1>1. SumFunctionOnSet(g, S \ {x}) = SumFunctionOnSet(f, S \ {x})
  BY SumSame, FS_Subset
<1>2. SumFunctionOnSet(f, S) = f[x] + SumFunctionOnSet(f, S \ {x})
  BY SumRemove
<1>3. SumFunctionOnSet(g, S) = g[x] + SumFunctionOnSet(g, S \ {x}) /\ SumFunctionOnSet(g, S) \in Int
  BY SumRemove
<1>4. SumFunctionOnSet(f, S \ {x}) \in Int
  BY SumRemove, FS_Subset
<1> QED BY <1>1, <1>2, <1>3, <1>4

-----------------------------------------------------------------------------
(* The inductive invariant.                                                 *)

\* The fees are called first and as they are, the first instalment before any tier.
CallsInOrder ==
  /\ called["frais"] \in {0, Fee}
  /\ \A k \in Kinds : Issued(k) => Issued("frais")
  /\ \A k \in Codes : Issued(k) => Issued("premier")

IInv == TypeOK /\ CallsInOrder /\ NoDoubleImputation /\ NoMissedTransition /\ StageIsPaid /\ CalledIsLegal

-----------------------------------------------------------------------------
(* What the rows add up to.                                                 *)

LEMMA KindsAreFinite == IsFiniteSet(Kinds) /\ "frais" \in Kinds /\ "premier" \in Kinds /\ Codes \subseteq Kinds
<1>1. IsFiniteSet({"frais"} \cup ({"premier"} \cup Codes))
  BY FileIsFinite, FS_Union, FS_Singleton
<1>2. Kinds = {"frais"} \cup ({"premier"} \cup Codes)
  BY DEF Kinds
<1> QED BY <1>1, <1>2 DEF Kinds

Allocations == [References -> [Kinds -> Nat]]

\* Allocations that only grow, of receipts that only become more, cover more.
LEMMA CoverGrows ==
  ASSUME NEW k \in Kinds, NEW al \in Allocations, NEW al2 \in Allocations,
         NEW rec \in SUBSET References, NEW rec2 \in SUBSET References, rec \subseteq rec2,
         \A r \in References : al[r][k] <= al2[r][k]
  PROVE  /\ Cover(k, al, rec) \in Nat /\ Cover(k, al2, rec2) \in Nat
         /\ Cover(k, al, rec) <= Cover(k, al2, rec2)
<1> DEFINE f == [r \in rec |-> al[r][k]]
           g == [r \in rec2 |-> al2[r][k]]
<1>1. IsFiniteSet(rec2)
  BY FileIsFinite, FS_Subset
<1>2. (\A r \in rec2 : g[r] \in Nat) /\ (\A r \in rec : f[r] \in Nat /\ f[r] <= g[r])
  BY DEF Allocations
<1>3. /\ SumFunctionOnSet(f, rec) \in Nat /\ SumFunctionOnSet(g, rec2) \in Nat
      /\ SumFunctionOnSet(f, rec) <= SumFunctionOnSet(g, rec2)
  <2> HIDE DEF f, g
  <2> QED BY <1>1, <1>2, SumGrows
<1> QED BY <1>3 DEF Cover, SumFunction

LEMMA CoverIsNat ==
  ASSUME NEW k \in Kinds, NEW al \in Allocations, NEW rec \in SUBSET References
  PROVE  Cover(k, al, rec) \in Nat
<1>1. \A r \in References : al[r][k] <= al[r][k]
  BY DEF Allocations
<1> QED BY <1>1, CoverGrows

\* A row of naturals adds up to a natural, and to no less than each of them.
LEMMA RowIsNat ==
  ASSUME NEW f \in [Kinds -> Nat]
  PROVE  SumFunction(f) \in Nat /\ \A k \in Kinds : f[k] <= SumFunction(f)
<1>1. \A k \in Kinds : f[k] \in Nat /\ f[k] <= f[k]
  OBVIOUS
<1>2. SumFunctionOnSet(f, Kinds) \in Nat
  BY <1>1, KindsAreFinite, SumGrows
<1>3. ASSUME NEW k \in Kinds PROVE f[k] <= SumFunctionOnSet(f, Kinds)
  <2>1. SumFunctionOnSet(f, Kinds \ {k}) \in Nat
    BY <1>1, KindsAreFinite, SumGrows
  <2>2. SumFunctionOnSet(f, Kinds) = f[k] + SumFunctionOnSet(f, Kinds \ {k})
    BY <1>1, KindsAreFinite, SumRemove
  <2> QED BY <2>1, <2>2
<1> QED BY <1>2, <1>3 DEF SumFunction

LEMMA RowUpdate ==
  ASSUME NEW f \in [Kinds -> Nat], NEW k \in Kinds, NEW v \in Int
  PROVE  SumFunction([f EXCEPT ![k] = v]) = SumFunction(f) - f[k] + v
<1> DEFINE g == [f EXCEPT ![k] = v]
<1>1. /\ \A j \in Kinds : f[j] \in Int /\ g[j] \in Int
      /\ \A j \in Kinds \ {k} : g[j] = f[j]
      /\ g[k] = v /\ DOMAIN g = Kinds /\ DOMAIN f = Kinds
  OBVIOUS
<1>2. SumFunctionOnSet(g, Kinds) = SumFunctionOnSet(f, Kinds) - f[k] + g[k]
  <2> HIDE DEF g
  <2> QED BY <1>1, KindsAreFinite, SumUpdate
<1> QED BY <1>1, <1>2 DEF SumFunction

\* One allocation more is that much more for the call and of the receipt.
AllocMore(r, k, a) == [alloc EXCEPT ![r][k] = @ + a]

LEMMA AllocateMore ==
  ASSUME TypeOK, NEW r \in References, NEW k \in Kinds, NEW a \in Nat, NEW al,
         al = AllocMore(r, k, a)
  PROVE  /\ al \in Allocations
         /\ \A q \in References, j \in Kinds : alloc[q][j] <= al[q][j]
         /\ Cover(k, al, References) = Cover(k, alloc, References) + a
         /\ \A j \in Kinds \ {k} : Cover(j, al, References) = Cover(j, alloc, References)
         /\ SumFunction(al[r]) = SumFunction(alloc[r]) + a
         /\ \A q \in References \ {r} : al[q] = alloc[q]
<1>1. /\ alloc \in Allocations /\ al \in Allocations /\ alloc[r][k] \in Nat
      /\ \A q \in References, j \in Kinds : alloc[q][j] <= al[q][j]
      /\ \A q \in References \ {r} : al[q] = alloc[q]
      /\ al[r] = [alloc[r] EXCEPT ![k] = alloc[r][k] + a]
  BY DEF TypeOK, Allocations, AllocMore
<1>2. SumFunction(al[r]) = SumFunction(alloc[r]) + a
  <2>1. SumFunction(alloc[r]) \in Nat /\ alloc[r] \in [Kinds -> Nat]
    BY <1>1, RowIsNat DEF Allocations
  <2>2. SumFunction(al[r]) = SumFunction(alloc[r]) - alloc[r][k] + (alloc[r][k] + a)
    BY <1>1, <2>1, RowUpdate
  <2> QED BY <1>1, <2>1, <2>2
<1>3. Cover(k, al, References) = Cover(k, alloc, References) + a
  <2> DEFINE f == [q \in References |-> alloc[q][k]]
             g == [q \in References |-> al[q][k]]
  <2>1. f[r] = alloc[r][k] /\ g[r] = alloc[r][k] + a
    BY <1>1 DEF Allocations
  <2>2. SumFunctionOnSet(g, References) = SumFunctionOnSet(f, References) - f[r] + g[r]
    <3>1. \A q \in References : f[q] \in Int /\ g[q] \in Int
      BY <1>1 DEF Allocations
    <3>2. \A q \in References \ {r} : g[q] = f[q]
      BY <1>1 DEF Allocations
    <3>3. IsFiniteSet(References)
      BY FileIsFinite
    <3> HIDE DEF f, g
    <3> QED BY <3>1, <3>2, <3>3, SumUpdate
  <2>3. Cover(k, alloc, References) = SumFunctionOnSet(f, References)
        /\ Cover(k, al, References) = SumFunctionOnSet(g, References)
    BY DEF Cover, SumFunction
  <2>4. Cover(k, alloc, References) \in Nat
    BY <1>1, CoverIsNat
  <2> QED BY <1>1, <2>1, <2>2, <2>3, <2>4
<1>4. ASSUME NEW j \in Kinds \ {k} PROVE Cover(j, al, References) = Cover(j, alloc, References)
  <2>1. [q \in References |-> al[q][j]] = [q \in References |-> alloc[q][j]]
    BY <1>1 DEF Allocations
  <2> QED BY <2>1 DEF Cover
<1> QED BY <1>1, <1>2, <1>3, <1>4

-----------------------------------------------------------------------------
LEMMA ShareIsInt ==
  ASSUME NEW p \in Int
  PROVE  Share(p) \in Int
<1>1. Price * p \in Int
  BY SMT, AmountsAreCounted
<1>2. ASSUME NEW n \in Int PROVE 100 * ((2 * n + 1000000) \div 2000000) \in Int
  BY SMT
<1>3. 2 * Price * p = 2 * (Price * p) /\ Franc * Whole = 1000000 /\ 2 * Franc * Whole = 2000000
  BY SMT, AmountsAreCounted DEF Franc, Whole
<1> QED BY SMT, <1>1, <1>2, <1>3 DEF Share, Franc

\* The total called is as near the legal share as whole francs allow.
Near(total, p) ==
  LET gap == 2 * (Whole * total - Price * p)
  IN -(Franc * Whole) <= gap /\ gap <= Franc * Whole

LEMMA ShareIsNear ==
  ASSUME NEW p \in Int
  PROVE  Near(Share(p), p)
<1> DEFINE n == Price * p
           q == (2 * n + 1000000) \div 2000000
<1>1. n \in Int /\ 2 * Price * p = 2 * n
  BY SMT, AmountsAreCounted
<1>2. Franc * Whole = 1000000 /\ 2 * Franc * Whole = 2000000 /\ Franc = 100
  BY SMT DEF Franc, Whole
<1>3. Share(p) = 100 * q
  BY SMT, <1>1, <1>2 DEF Share
<1> HIDE DEF n
<1>4. q \in Int /\ 2000000 * q <= 2 * n + 1000000 /\ 2 * n + 1000000 < 2000000 * q + 2000000
  BY SMT, <1>1
<1> HIDE DEF q
<1>5. -1000000 <= 2 * (10000 * (100 * q) - n) /\ 2 * (10000 * (100 * q) - n) <= 1000000
  BY SMT, <1>1, <1>4
<1>6. Share(p) \in Int /\ -1000000 <= 2 * (10000 * Share(p) - n) /\ 2 * (10000 * Share(p) - n) <= 1000000
  BY SMT, <1>3, <1>4, <1>5
<1>7. n = Price * p
  BY DEF n
<1> QED BY SMT, <1>1, <1>6, <1>7 DEF Near, Franc, Whole

\* The exact price is the legal share at 100 %.
LEMMA PriceIsNear == Near(Price, Whole)
BY SMT, AmountsAreCounted DEF Near, Franc, Whole

-----------------------------------------------------------------------------
(* The transitions.                                                         *)

Statuses == Blocking \cup {"closed"}

\* Evaluating after a change that takes no cover back leaves nothing to evaluate.
LEMMA EvaluatedStep ==
  ASSUME IInv, called' = called, cap' = cap,
         alloc' \in Allocations, reconciled' \in SUBSET References, reconciled \subseteq reconciled',
         \A r \in References, k \in Kinds : alloc[r][k] <= alloc'[r][k],
         status' = Evaluated(alloc', reconciled', signed')
  PROVE  /\ status' \in Statuses /\ NoMissedTransition' /\ StageIsPaid'
         /\ CallsInOrder' /\ CalledIsLegal'
<1>1. /\ "frais" \in Kinds /\ "premier" \in Kinds /\ status \in Statuses
      /\ called \in [Kinds -> Nat] /\ alloc \in Allocations
  BY KindsAreFinite DEF IInv, TypeOK, Allocations, Statuses
<1>2. \A k \in Kinds : /\ Cover(k, alloc, reconciled) \in Nat
                       /\ Cover(k, alloc', reconciled') \in Nat
                       /\ Cover(k, alloc, reconciled) <= Cover(k, alloc', reconciled')
  BY <1>1, CoverGrows DEF IInv, TypeOK
<1>3. /\ Issued("frais")' = Issued("frais") /\ Issued("premier")' = Issued("premier")
      /\ called["frais"]' = called["frais"] /\ called["premier"]' = called["premier"]
  BY DEF Issued
<1>4. /\ Settled("frais", alloc, reconciled)' = Settled("frais", alloc', reconciled')
      /\ Settled("premier", alloc, reconciled)' = Settled("premier", alloc', reconciled')
  BY <1>3 DEF Settled, Cover
<1>5. status' \in Statuses
  BY <1>1 DEF Evaluated, AfterFees, Statuses, Blocking
<1>6. Evaluated(alloc, reconciled, signed)' = status'
  BY <1>4 DEF Evaluated, AfterFees
<1>7. StageIsPaid'
  <2>1. Issued("frais") => called["frais"] = Fee
    BY AmountsAreCounted DEF IInv, CallsInOrder, Issued
  <2>2. ASSUME status' \in {"reserved", "committed"}
        PROVE  Issued("frais") /\ Cover("frais", alloc', reconciled') >= Fee
    <3>1. CASE status \in {"reserved", "committed"}
      BY <1>1, <1>2, <3>1, AmountsAreCounted DEF IInv, StageIsPaid
    <3>2. CASE status \notin {"reserved", "committed"}
      BY <1>1, <2>1, <2>2, <3>2 DEF Evaluated, AfterFees, Settled, Statuses, Blocking
    <3> QED BY <3>1, <3>2
  <2>3. ASSUME status' = "committed"
        PROVE  Issued("premier") /\ Cover("premier", alloc', reconciled') >= called["premier"]
    <3>1. CASE status = "committed"
      BY <1>1, <1>2, <3>1 DEF IInv, StageIsPaid
    <3>2. CASE status # "committed"
      BY <2>3, <3>2 DEF Evaluated, AfterFees, Settled
    <3> QED BY <3>1, <3>2
  <2> QED BY <1>3, <2>2, <2>3 DEF StageIsPaid, Cover
<1>8. CallsInOrder' /\ CalledIsLegal'
  BY DEF IInv, CallsInOrder, CalledIsLegal, Issued, CalledTotal
<1> QED BY <1>5, <1>6, <1>7, <1>8 DEF NoMissedTransition

\* What the transitions are decided on is still the same.
LEMMA SameMoney ==
  ASSUME IInv, called' = called, cap' = cap, alloc' = alloc, reconciled' = reconciled
  PROVE  /\ CallsInOrder' /\ CalledIsLegal'
         /\ status' = status => StageIsPaid'
         /\ status' = status /\ signed' = signed => NoMissedTransition'
<1>1. CallsInOrder' /\ CalledIsLegal'
  BY DEF IInv, CallsInOrder, CalledIsLegal, Issued, CalledTotal
<1>2. status' = status => StageIsPaid'
  BY DEF IInv, StageIsPaid, Issued, Cover
<1>3. status' = status /\ signed' = signed => NoMissedTransition'
  BY DEF IInv, NoMissedTransition, Evaluated, AfterFees, Settled, Issued, Cover
<1> QED BY <1>1, <1>2, <1>3

LEMMA SameBalances ==
  ASSUME IInv, called' = called, alloc' = alloc, receipt' = receipt
  PROVE  NoDoubleImputation'
BY DEF IInv, NoDoubleImputation, Unallocated, Remaining, Allocated, Cover

LEMMA SumsAreNat ==
  ASSUME TypeOK
  PROVE  /\ \A k \in Kinds : Allocated(k) \in Nat /\ Remaining(k) \in Int /\ called[k] \in Nat
         /\ \A r \in References : /\ SumFunction(alloc[r]) \in Nat /\ Unallocated(r) \in Int
                                  /\ receipt[r] \in Nat
         /\ CalledTotal \in Nat
<1>1. alloc \in Allocations /\ \A r \in References : alloc[r] \in [Kinds -> Nat] /\ receipt[r] \in Nat
  BY DEF TypeOK, Allocations
<1>2. \A k \in Kinds : Allocated(k) \in Nat /\ called[k] \in Nat
  BY <1>1, CoverIsNat DEF Allocated, TypeOK
<1>3. \A r \in References : SumFunction(alloc[r]) \in Nat
  BY <1>1, RowIsNat
<1>4. CalledTotal \in Nat
  BY RowIsNat DEF TypeOK, CalledTotal
<1> QED BY <1>1, <1>2, <1>3, <1>4 DEF Remaining, Unallocated

-----------------------------------------------------------------------------
(* The start, and the calls for funds.                                      *)

LEMMA NothingAddsToZero ==
  /\ \A k \in Kinds, rec \in SUBSET References :
       Cover(k, [r \in References |-> [j \in Kinds |-> 0]], rec) = 0
  /\ SumFunction([k \in Kinds |-> 0]) = 0
<1>1. ASSUME NEW S, IsFiniteSet(S), NEW f, DOMAIN f = S, \A x \in S : f[x] = 0
      PROVE  SumFunction(f) = 0
  BY <1>1, SumOfZeros DEF SumFunction
<1>2. ASSUME NEW k \in Kinds, NEW rec \in SUBSET References
      PROVE  Cover(k, [r \in References |-> [j \in Kinds |-> 0]], rec) = 0
  <2> DEFINE f == [r \in rec |-> [q \in References |-> [j \in Kinds |-> 0]][r][k]]
  <2>1. IsFiniteSet(rec) /\ DOMAIN f = rec /\ \A x \in rec : f[x] = 0
    BY FileIsFinite, FS_Subset
  <2>2. SumFunction(f) = 0
    <3> HIDE DEF f
    <3> QED BY <1>1, <2>1
  <2> QED BY <2>2 DEF Cover
<1>3. SumFunction([k \in Kinds |-> 0]) = 0
  <2> DEFINE f == [k \in Kinds |-> 0]
  <2>1. DOMAIN f = Kinds /\ \A x \in Kinds : f[x] = 0
    OBVIOUS
  <2>2. SumFunction(f) = 0
    <3> HIDE DEF f
    <3> QED BY <1>1, <2>1, KindsAreFinite
  <2> QED BY <2>2
<1> QED BY <1>2, <1>3

LEMMA NoCapIsLegal == 0 \in -99 .. Whole
BY SMT DEF Whole

LEMMA InitLemma == Init => IInv
<1> SUFFICES ASSUME Init PROVE IInv
  OBVIOUS
<1>1. TypeOK
  <2>1. called \in [Kinds -> Nat] /\ receipt \in [References -> Nat]
    BY DEF Init
  <2>2. alloc \in [References -> [Kinds -> Nat]]
    BY DEF Init
  <2>3. notice \in [Notices -> NoticeRows \cup {None}]
    BY DEF Init
  <2>4. status \in Blocking \cup {"closed"} /\ cap \in -99 .. Whole /\ schedule \in Schedules
    BY NoCapIsLegal DEF Init, Blocking
  <2>5. validated \in BOOLEAN /\ signed \in BOOLEAN /\ accepted \in SUBSET Codes /\ reconciled \in SUBSET References
    BY DEF Init
  <2> QED BY <2>1, <2>2, <2>3, <2>4, <2>5 DEF TypeOK
<1>2. "frais" \in Kinds /\ "premier" \in Kinds /\ Codes \subseteq Kinds
  BY KindsAreFinite
<1>3. \A k \in Kinds : called[k] = 0 /\ ~Issued(k)
  BY DEF Init, Issued
<1>4. CallsInOrder /\ CalledIsLegal /\ StageIsPaid
  BY <1>2, <1>3 DEF CallsInOrder, CalledIsLegal, StageIsPaid, Init
<1>5. NoMissedTransition
  BY <1>2, <1>3 DEF NoMissedTransition, Evaluated, AfterFees, Settled, Init
<1>6. NoDoubleImputation
  <2>1. \A k \in Kinds : Allocated(k) = 0
    BY NothingAddsToZero DEF Init, Allocated
  <2>2. \A r \in References : receipt[r] = 0 /\ SumFunction(alloc[r]) = 0
    BY NothingAddsToZero DEF Init
  <2> QED BY <1>3, <2>1, <2>2 DEF NoDoubleImputation, Remaining, Unallocated
<1> QED BY <1>1, <1>4, <1>5, <1>6 DEF IInv

\* A new call finds nothing allocated to it, and settles nothing.
LEMMA IssueStep ==
  ASSUME IInv, NEW k \in Kinds, NEW a \in Int, NEW p \in -99 .. Whole, Issue(k, a, p),
         status' = status, signed' = signed,
         k = "frais" => status \notin {"reserved", "committed"},
         k = "premier" => status # "committed"
  PROVE  /\ called' \in [Kinds -> Nat] /\ cap' \in -99 .. Whole
         /\ \A j \in Kinds : called'[j] = IF j = k THEN a ELSE called[j]
         /\ \A j \in Kinds : Issued(j)' <=> (Issued(j) \/ j = k)
         /\ CalledTotal' = CalledTotal + a
         /\ NoDoubleImputation' /\ NoMissedTransition' /\ StageIsPaid'
         /\ \A j \in Kinds : Settled(j, alloc, reconciled) => Settled(j, alloc', reconciled')
<1>1. /\ called \in [Kinds -> Nat] /\ called[k] = 0 /\ a \in Nat \ {0}
      /\ "frais" \in Kinds /\ "premier" \in Kinds
  BY KindsAreFinite DEF IInv, TypeOK, Issue, Issued
<1>2. called' \in [Kinds -> Nat] /\ \A j \in Kinds : called'[j] = IF j = k THEN a ELSE called[j]
  BY <1>1 DEF Issue
<1>3. \A j \in Kinds : Issued(j)' <=> (Issued(j) \/ j = k)
  BY <1>1, <1>2 DEF Issued
<1>4. CalledTotal' = CalledTotal + a
  <2>1. called' = [called EXCEPT ![k] = a]
    BY DEF Issue
  <2>2. SumFunction(called') = SumFunction(called) - called[k] + a
    BY <1>1, <2>1, RowUpdate
  <2>3. SumFunction(called) \in Nat
    BY <1>1, RowIsNat
  <2> QED BY <1>1, <2>2, <2>3 DEF CalledTotal
<1>5. \A j \in Kinds : Cover(j, alloc, reconciled) <= Allocated(j) /\ Cover(j, alloc, reconciled) \in Nat
  <2>1. alloc \in Allocations /\ reconciled \in SUBSET References
        /\ \A j \in Kinds, r \in References : alloc[r][j] <= alloc[r][j]
    BY DEF IInv, TypeOK, Allocations
  <2> QED BY <2>1, CoverGrows DEF Allocated
<1>6. \A j \in Kinds : Allocated(j) \in Nat /\ Allocated(j) <= called[j]
  BY SumsAreNat DEF IInv, NoDoubleImputation, Remaining
<1>7. /\ alloc' = alloc /\ reconciled' = reconciled /\ receipt' = receipt /\ cap' \in -99 .. Whole
      /\ \A j \in Kinds : Cover(j, alloc, reconciled)' = Cover(j, alloc, reconciled)
      /\ \A j \in Kinds : Allocated(j)' = Allocated(j)
      /\ \A r \in References : Unallocated(r)' = Unallocated(r)
  BY DEF Issue, Cover, Allocated, Unallocated
<1>8. ~Settled(k, alloc, reconciled) /\ ~Settled(k, alloc, reconciled)'
  BY <1>1, <1>2, <1>3, <1>5, <1>6, <1>7 DEF Settled, Issued
<1>9. \A j \in Kinds : Settled(j, alloc, reconciled)' <=> Settled(j, alloc, reconciled)
  <2>1. \A j \in Kinds \ {k} : Settled(j, alloc, reconciled)' <=> Settled(j, alloc, reconciled)
    BY <1>2, <1>3, <1>7 DEF Settled
  <2> QED BY <1>8, <2>1
<1>10. NoMissedTransition'
  BY <1>1, <1>9 DEF IInv, NoMissedTransition, Evaluated, AfterFees
<1>11. NoDoubleImputation'
  <2>1. \A j \in Kinds : Remaining(j)' >= 0
    BY <1>1, <1>2, <1>6, <1>7 DEF Remaining
  <2> QED BY <1>7, <2>1 DEF IInv, NoDoubleImputation
<1>12. StageIsPaid'
  BY <1>1, <1>2, <1>3, <1>7 DEF IInv, StageIsPaid
<1>13. \A j \in Kinds : Settled(j, alloc, reconciled) => Settled(j, alloc', reconciled')
  BY <1>7, <1>8, <1>9
<1> QED BY <1>2, <1>3, <1>4, <1>7, <1>10, <1>11, <1>12, <1>13

LEMMA TierIsACode ==
  ASSUME TypeOK, NEW i \in 1 .. Len(schedule)
  PROVE  /\ schedule[i].cap \in -99 .. Whole /\ Len(schedule) \in Nat
         /\ schedule[i].cap = Whole <=> i = Len(schedule)
         /\ i >= 2 => schedule[i].code \in Codes
<1>1. schedule \in Schedules /\ Len(schedule) \in Nat
  BY SchedulesAreLegal DEF TypeOK
<1>2. CASE i = Len(schedule)
  <2>1. schedule[i].cap = Whole
    BY <1>1, <1>2, SchedulesAreLegal
  <2>2. Whole \in -99 .. Whole
    BY SMT DEF Whole
  <2> QED BY <1>1, <1>2, <2>1, <2>2 DEF Codes
<1>3. CASE i # Len(schedule)
  <2>1. i \in 1 .. Len(schedule) - 1
    BY <1>1, <1>3
  <2>2. schedule[i].cap \in -99 .. Whole - 1
    BY <1>1, <2>1, SchedulesAreLegal
  <2>3. ASSUME NEW x \in -99 .. Whole - 1 PROVE x \in -99 .. Whole /\ x # Whole
    BY SMT DEF Whole
  <2> QED BY <1>1, <1>3, <2>2, <2>3 DEF Codes
<1> QED BY <1>2, <1>3

LEMMA ValidateStep ==
  ASSUME IInv, Validate
  PROVE  IInv' /\ \A j \in Kinds : Settled(j, alloc, reconciled) => Settled(j, alloc', reconciled')
<1>1. /\ Issue("frais", Fee, 0) /\ status = "held" /\ status' = status /\ signed' = signed
      /\ schedule' = schedule /\ accepted' = accepted /\ validated' \in BOOLEAN
      /\ notice' = notice /\ alloc' = alloc /\ receipt' = receipt /\ reconciled' = reconciled
  BY DEF Validate, Issue, world
<1>2. "frais" \in Kinds /\ "premier" \in Kinds /\ Codes \subseteq Kinds /\ Fee \in Int /\ 0 \in -99 .. Whole
  BY KindsAreFinite, AmountsAreCounted, NoCapIsLegal
<1>3. /\ called' \in [Kinds -> Nat] /\ cap' \in -99 .. Whole
      /\ \A j \in Kinds : called'[j] = IF j = "frais" THEN Fee ELSE called[j]
      /\ \A j \in Kinds : Issued(j)' <=> (Issued(j) \/ j = "frais")
      /\ NoDoubleImputation' /\ NoMissedTransition' /\ StageIsPaid'
      /\ \A j \in Kinds : Settled(j, alloc, reconciled) => Settled(j, alloc', reconciled')
  BY <1>1, <1>2, IssueStep
<1>4. TypeOK'
  BY <1>1, <1>3 DEF IInv, TypeOK
<1>5. \A j \in Kinds : ~Issued(j)
  BY <1>1 DEF IInv, CallsInOrder, Issue
<1>6. CallsInOrder' /\ CalledIsLegal'
  BY <1>2, <1>3, <1>5, SchedulesAreLegal DEF CallsInOrder, CalledIsLegal
<1> QED BY <1>3, <1>4, <1>6 DEF IInv

LEMMA IssueFirstStep ==
  ASSUME IInv, IssueFirst
  PROVE  IInv' /\ \A j \in Kinds : Settled(j, alloc, reconciled) => Settled(j, alloc', reconciled')
<1> DEFINE p == schedule[1].cap
           a == Share(p) - Fee
<1>1. /\ Issue("premier", a, p) /\ status = "reserved" /\ status' = status /\ signed' = signed
      /\ schedule' = schedule /\ accepted' = accepted /\ validated' = validated
      /\ notice' = notice /\ alloc' = alloc /\ receipt' = receipt /\ reconciled' = reconciled
      /\ cap' = p
  BY DEF IssueFirst, Issue, world
<1>2. "frais" \in Kinds /\ "premier" \in Kinds /\ Codes \subseteq Kinds
  BY KindsAreFinite
<1>3. /\ p \in Int /\ p \in -99 .. Whole /\ Share(p) \in Int /\ a \in Int
      /\ Fee \in Nat \ {0}
  <2>1. TypeOK /\ 1 \in 1 .. Len(schedule)
    BY SchedulesAreLegal DEF IInv, TypeOK
  <2>2. p \in -99 .. Whole
    BY <2>1, TierIsACode
  <2>3. p \in Int
    BY <2>2
  <2>4. Share(p) \in Int /\ Fee \in Nat \ {0}
    BY <2>3, ShareIsInt, AmountsAreCounted
  <2> QED BY <2>2, <2>3, <2>4
<1>4. /\ called' \in [Kinds -> Nat] /\ cap' \in -99 .. Whole
      /\ \A j \in Kinds : called'[j] = IF j = "premier" THEN a ELSE called[j]
      /\ \A j \in Kinds : Issued(j)' <=> (Issued(j) \/ j = "premier")
      /\ CalledTotal' = CalledTotal + a
      /\ NoDoubleImputation' /\ NoMissedTransition' /\ StageIsPaid'
      /\ \A j \in Kinds : Settled(j, alloc, reconciled) => Settled(j, alloc', reconciled')
  <2> HIDE DEF a, p
  <2> QED BY <1>1, <1>2, <1>3, IssueStep
<1>5. TypeOK'
  BY <1>1, <1>4 DEF IInv, TypeOK
<1>6. Issued("frais") /\ called["frais"] = Fee /\ \A j \in Kinds \ {"frais"} : ~Issued(j)
  <2>1. Issued("frais") /\ ~Issued("premier")
    BY <1>1 DEF IInv, StageIsPaid, Issue
  <2> QED BY <1>2, <1>3, <2>1 DEF IInv, CallsInOrder, Issued, Kinds
<1>7. CalledTotal = Fee
  <2>0. called \in [Kinds -> Nat] /\ \A k \in Kinds \ {"frais"} : called[k] = 0
    BY <1>6 DEF IInv, TypeOK, Issued
  <2>1. [called EXCEPT !["frais"] = 0] = [k \in Kinds |-> 0]
    BY <1>2, <2>0
  <2>2. SumFunction([k \in Kinds |-> 0]) = SumFunction(called) - called["frais"] + 0
    BY <1>2, <2>1, RowUpdate DEF IInv, TypeOK
  <2>3. SumFunction(called) \in Nat
    BY RowIsNat DEF IInv, TypeOK
  <2> QED BY <1>3, <1>6, <2>2, <2>3, NothingAddsToZero DEF CalledTotal
<1>8. CallsInOrder'
  BY <1>2, <1>3, <1>4, <1>6, SchedulesAreLegal DEF IInv, CallsInOrder
<1>9. CalledIsLegal'
  <2>1. CalledTotal' = Share(p)
    BY <1>3, <1>4, <1>7
  <2>2. Near(CalledTotal', cap')
    <3>1. Near(Share(p), p)
      BY <1>3, ShareIsNear
    <3> QED BY <1>1, <2>1, <3>1
  <2>3. \A k \in Codes : ~Issued(k)'
    BY <1>2, <1>4, <1>6, SchedulesAreLegal
  <2> QED BY <2>2, <2>3 DEF CalledIsLegal, Near
<1> QED BY <1>4, <1>5, <1>8, <1>9 DEF IInv

LEMMA IssueTierStep ==
  ASSUME IInv, IssueTier
  PROVE  IInv' /\ \A j \in Kinds : Settled(j, alloc, reconciled) => Settled(j, alloc', reconciled')
<1>1. PICK i \in 2 .. Len(schedule) : Issue(schedule[i].code, TierAmount(i), schedule[i].cap)
  BY DEF IssueTier
<1> DEFINE p == schedule[i].cap
           c == schedule[i].code
           a == TierAmount(i)
<1>2. /\ Issue(c, a, p) /\ status = "committed" /\ status' = status /\ signed' = signed
      /\ schedule' = schedule /\ accepted' = accepted /\ validated' = validated
      /\ notice' = notice /\ alloc' = alloc /\ receipt' = receipt /\ reconciled' = reconciled
      /\ cap' = p /\ Issued("premier")
  BY <1>1 DEF IssueTier, Issue, world
<1>3. /\ "frais" \in Kinds /\ "premier" \in Kinds /\ Codes \subseteq Kinds
      /\ c \in Codes /\ c # "frais" /\ c # "premier"
  BY KindsAreFinite, SchedulesAreLegal, TierIsACode DEF IInv
<1>4. p \in Int /\ p \in -99 .. Whole /\ Share(p) \in Int /\ CalledTotal \in Nat
  <2>1. p \in -99 .. Whole
    BY TierIsACode DEF IInv
  <2>2. p \in Int
    <3> HIDE DEF p
    <3> QED BY <2>1
  <2> QED BY <2>1, <2>2, ShareIsInt, SumsAreNat DEF IInv
<1>5. a \in Int /\ a = IF p = Whole THEN Price - CalledTotal ELSE Share(p) - CalledTotal
  <2>1. p = Whole <=> i = Len(schedule)
    BY TierIsACode DEF IInv
  <2> HIDE DEF p
  <2>2. a = IF p = Whole THEN Price - CalledTotal ELSE Share(p) - CalledTotal
    BY <2>1 DEF TierAmount, p
  <2> HIDE DEF a
  <2> QED BY <1>4, <2>2, AmountsAreCounted
<1>6. /\ called' \in [Kinds -> Nat] /\ cap' \in -99 .. Whole
      /\ \A j \in Kinds : called'[j] = IF j = c THEN a ELSE called[j]
      /\ \A j \in Kinds : Issued(j)' <=> (Issued(j) \/ j = c)
      /\ CalledTotal' = CalledTotal + a
      /\ NoDoubleImputation' /\ NoMissedTransition' /\ StageIsPaid'
      /\ \A j \in Kinds : Settled(j, alloc, reconciled) => Settled(j, alloc', reconciled')
  <2> HIDE DEF a, p, c
  <2> QED BY <1>2, <1>3, <1>4, <1>5, IssueStep
<1>7. TypeOK'
  BY <1>2, <1>6 DEF IInv, TypeOK
<1>8. CallsInOrder'
  BY <1>2, <1>3, <1>6 DEF IInv, CallsInOrder
<1>9. CalledIsLegal'
  <2>1. CalledTotal' = IF p = Whole THEN Price ELSE Share(p)
    <3> HIDE DEF a, p
    <3> QED BY <1>4, <1>5, <1>6, AmountsAreCounted
  <2>2. Near(CalledTotal', cap')
    <3>1. Near(Share(p), p)
      BY <1>4, ShareIsNear
    <3> HIDE DEF p
    <3>2. CASE p = Whole
      BY <1>2, <2>1, <3>2, PriceIsNear
    <3>3. CASE p # Whole
      BY <1>2, <2>1, <3>1, <3>3
    <3> QED BY <3>2, <3>3
  <2>3. cap' = Whole => CalledTotal' = Price
    <3> HIDE DEF p
    <3> QED BY <1>2, <2>1
  <2> QED BY <2>2, <2>3 DEF CalledIsLegal, Near
<1> QED BY <1>6, <1>7, <1>8, <1>9 DEF IInv

-----------------------------------------------------------------------------
(* Receipts and notices.                                                    *)

LEMMA RecordStep ==
  ASSUME IInv, NEW r \in References, NEW a \in Amounts, Record(r, a)
  PROVE  IInv'
<1>1. /\ status' = status /\ called' = called /\ cap' = cap /\ alloc' = alloc /\ signed' = signed
      /\ reconciled' = reconciled /\ a \in Nat /\ receipt[r] = 0
      /\ receipt' = [receipt EXCEPT ![r] = a]
  BY AmountsAreCounted DEF Record, world
<1>2. TypeOK'
  BY <1>1 DEF IInv, TypeOK, Record, world
<1>3. CallsInOrder' /\ CalledIsLegal' /\ StageIsPaid' /\ NoMissedTransition'
  BY <1>1, SameMoney
<1>4. NoDoubleImputation'
  <2>1. \A q \in References :
          /\ SumFunction(alloc[q]) \in Nat /\ receipt[q] \in Nat
          /\ SumFunction(alloc[q]) <= receipt[q]
    BY SumsAreNat DEF IInv, NoDoubleImputation, Unallocated
  <2>2. \A q \in References : receipt'[q] >= receipt[q] /\ receipt'[q] \in Nat
    BY <1>1, <2>1 DEF IInv, TypeOK
  <2>3. \A q \in References : Unallocated(q)' >= 0
    BY <1>1, <2>1, <2>2 DEF Unallocated
  <2>4. \A k \in Kinds : Remaining(k)' >= 0
    BY <1>1 DEF IInv, NoDoubleImputation, Remaining, Allocated, Cover
  <2> QED BY <2>3, <2>4 DEF NoDoubleImputation
<1> QED BY <1>2, <1>3, <1>4 DEF IInv

LEMMA AllocateStep ==
  ASSUME IInv, NEW r \in References, NEW k \in Kinds, Allocate(r, k)
  PROVE  /\ IInv' /\ \A q \in References, j \in Kinds : alloc[q][j] <= alloc'[q][j]
         /\ alloc' \in Allocations
<1>1. PICK a \in Allocable(r, k) : alloc' = [alloc EXCEPT ![r][k] = @ + a]
  BY DEF Allocate
<1>2. TypeOK /\ Unallocated(r) \in Int /\ Remaining(k) \in Int
  BY SumsAreNat DEF IInv
<1>3. a \in Nat /\ a <= Unallocated(r) /\ a <= Remaining(k)
  BY <1>1, AmountsAreCounted DEF Allocable
<1>4. /\ status' = Evaluated(alloc', reconciled', signed') /\ called' = called /\ cap' = cap
      /\ receipt' = receipt /\ reconciled' = reconciled
  BY DEF Allocate, world
<1>5. /\ alloc' \in Allocations
      /\ \A q \in References, j \in Kinds : alloc[q][j] <= alloc'[q][j]
      /\ Cover(k, alloc', References) = Cover(k, alloc, References) + a
      /\ \A j \in Kinds \ {k} : Cover(j, alloc', References) = Cover(j, alloc, References)
      /\ SumFunction(alloc'[r]) = SumFunction(alloc[r]) + a
      /\ \A q \in References \ {r} : alloc'[q] = alloc[q]
  <2>1. alloc' = AllocMore(r, k, a)
    BY <1>1 DEF AllocMore
  <2> QED BY <1>2, <1>3, <2>1, AllocateMore
<1>6. /\ status' \in Statuses /\ NoMissedTransition' /\ StageIsPaid'
      /\ CallsInOrder' /\ CalledIsLegal'
  BY <1>2, <1>4, <1>5, EvaluatedStep DEF TypeOK
<1>7. TypeOK'
  BY <1>2, <1>4, <1>5, <1>6 DEF TypeOK, Allocate, world, Allocations, Statuses
<1>8. NoDoubleImputation'
  <2>1. \A q \in References : Unallocated(q)' >= 0
    BY <1>2, <1>3, <1>4, <1>5, SumsAreNat DEF IInv, NoDoubleImputation, Unallocated
  <2>2. \A j \in Kinds : Remaining(j)' >= 0
    <3>1. \A j \in Kinds : Remaining(j)' = called[j] - Cover(j, alloc', References)
      BY <1>4 DEF Remaining, Allocated, Cover
    <3>2. \A j \in Kinds : /\ called[j] - Cover(j, alloc, References) >= 0
                           /\ called[j] \in Nat /\ Cover(j, alloc, References) \in Nat
      BY <1>2, SumsAreNat DEF IInv, NoDoubleImputation, Remaining, Allocated
    <3>3. a <= called[k] - Cover(k, alloc, References)
      BY <1>3 DEF Remaining, Allocated
    <3> QED BY <1>3, <1>5, <3>1, <3>2, <3>3
  <2> QED BY <2>1, <2>2 DEF NoDoubleImputation
<1> QED BY <1>5, <1>6, <1>7, <1>8 DEF IInv

LEMMA ReconcileStep ==
  ASSUME IInv, NEW r \in References, Reconcile(r)
  PROVE  IInv'
<1>1. /\ status' = Evaluated(alloc', reconciled', signed') /\ called' = called /\ cap' = cap
      /\ receipt' = receipt /\ alloc' = alloc /\ reconciled' = reconciled \cup {r}
      /\ alloc \in Allocations /\ reconciled' \in SUBSET References
      /\ \A q \in References, k \in Kinds : alloc[q][k] <= alloc'[q][k]
  BY DEF Reconcile, world, IInv, TypeOK, Allocations
<1>2. /\ status' \in Statuses /\ NoMissedTransition' /\ StageIsPaid'
      /\ CallsInOrder' /\ CalledIsLegal'
  BY <1>1, EvaluatedStep
<1>3. TypeOK'
  BY <1>1, <1>2 DEF IInv, TypeOK, Reconcile, world, Statuses
<1> QED BY <1>1, <1>2, <1>3, SameBalances DEF IInv

LEMMA DeclareStep ==
  ASSUME IInv, NEW n \in Notices, NEW k \in Kinds, NEW r \in References, Declare(n, k, r)
  PROVE  IInv'
<1>1. UNCHANGED <<status, validated, world, called, cap, receipt, reconciled, alloc>>
  BY DEF Declare
<1>2. Remaining(k) \in Nat \ {0}
  BY SumsAreNat DEF IInv, Declare
<1>3. [call |-> k, amount |-> Remaining(k), reference |-> r, state |-> "declared", receipt |-> None]
        \in NoticeRows
  BY <1>2 DEF NoticeRows
<1>4. notice' \in [Notices -> NoticeRows \cup {None}]
  BY <1>3 DEF Declare, IInv, TypeOK
<1>5. TypeOK'
  BY <1>1, <1>4 DEF IInv, TypeOK, world
<1> QED BY <1>1, <1>5, SameMoney, SameBalances DEF IInv, world

LEMMA RejectStep ==
  ASSUME IInv, NEW n \in Notices, Reject(n)
  PROVE  IInv'
<1>1. UNCHANGED <<status, validated, world, called, cap, receipt, reconciled, alloc>>
  BY DEF Reject
<1>2. notice[n] \in NoticeRows
  BY DEF Reject, Declared, IInv, TypeOK
<1>3. [notice[n] EXCEPT !.state = "rejected"] \in NoticeRows
  BY <1>2 DEF NoticeRows
<1>4. notice' \in [Notices -> NoticeRows \cup {None}]
  BY <1>3 DEF Reject, IInv, TypeOK
<1>5. TypeOK'
  BY <1>1, <1>4 DEF IInv, TypeOK, world
<1> QED BY <1>1, <1>5, SameMoney, SameBalances DEF IInv, world

\* What a confirmation imputes fits in the receipt and in the call.
LEMMA OwedFits ==
  ASSUME IInv, NEW n \in Notices, NEW r \in References, Declared(n), Names(r, n)
  PROVE  /\ notice[n] \in NoticeRows /\ notice[n].call \in Kinds /\ notice[n].amount \in Nat
         /\ Owed(r, n) \in Nat /\ Owed(r, n) <= Remaining(notice[n].call)
         /\ SumFunction(alloc[r]) + Owed(r, n) <= notice[n].amount
         /\ receipt[r] \in {0, notice[n].amount}
<1>1. notice[n] \in NoticeRows
  BY DEF IInv, TypeOK, Declared
<1>2. notice[n].call \in Kinds /\ notice[n].amount \in Nat
  BY <1>1 DEF NoticeRows
<1>3. receipt[r] \in {0, notice[n].amount}
  BY DEF Names
<1>4. /\ Remaining(notice[n].call) \in Nat /\ SumFunction(alloc[r]) \in Nat /\ receipt[r] \in Nat
      /\ receipt[r] >= SumFunction(alloc[r])
  BY <1>2, SumsAreNat DEF IInv, NoDoubleImputation, Unallocated
<1>5. CASE receipt[r] = 0
  BY <1>1, <1>2, <1>3, <1>4, <1>5 DEF Owed, Least
<1>6. CASE receipt[r] # 0
  BY <1>1, <1>2, <1>3, <1>4, <1>6 DEF Owed, Least, Unallocated
<1> QED BY <1>5, <1>6

LEMMA ConfirmStep ==
  ASSUME IInv, NEW n \in Notices, NEW r \in References, Confirm(n, r)
  PROVE  /\ IInv' /\ \A q \in References, j \in Kinds : alloc[q][j] <= alloc'[q][j]
         /\ alloc' \in Allocations /\ notice[n].call \in Kinds /\ receipt[r] \in {0, notice[n].amount}
         /\ \/ SumFunction(alloc'[r]) = notice[n].amount
            \/ Cover(notice[n].call, alloc', References) = called[notice[n].call]
<1> DEFINE k == notice[n].call
           a == Owed(r, n)
<1>1. /\ notice[n] \in NoticeRows /\ k \in Kinds /\ notice[n].amount \in Nat
      /\ a \in Nat /\ a <= Remaining(k) /\ SumFunction(alloc[r]) + a <= notice[n].amount
      /\ receipt[r] \in {0, notice[n].amount} /\ TypeOK
  BY OwedFits DEF Confirm, IInv
<1>2. /\ called' = called /\ cap' = cap /\ signed' = signed
      /\ reconciled' = reconciled \cup {r} /\ reconciled' \in SUBSET References
      /\ receipt' = [receipt EXCEPT ![r] = notice[n].amount]
  BY DEF Confirm, world, IInv, TypeOK
<1>3. /\ alloc' \in Allocations
      /\ \A q \in References, j \in Kinds : alloc[q][j] <= alloc'[q][j]
      /\ Cover(k, alloc', References) = Cover(k, alloc, References) + a
      /\ \A j \in Kinds \ {k} : Cover(j, alloc', References) = Cover(j, alloc, References)
      /\ SumFunction(alloc'[r]) = SumFunction(alloc[r]) + a
      /\ \A q \in References \ {r} : alloc'[q] = alloc[q]
  <2>1. alloc' = AllocMore(r, k, a)
    BY DEF Confirm, AllocConfirmed, AllocMore
  <2> HIDE DEF k, a
  <2> QED BY <1>1, <2>1, AllocateMore
<1>4. status' = Evaluated(alloc', reconciled', signed')
  <2>1. CASE a > 0 \/ r \notin reconciled
    BY <1>2, <2>1 DEF Confirm
  <2>2. CASE a = 0 /\ r \in reconciled
    <3>1. /\ status' = status /\ reconciled' = reconciled
          /\ alloc' = [alloc EXCEPT ![r][k] = alloc[r][k] + 0]
      BY <2>2 DEF Confirm, AllocConfirmed, IInv, TypeOK
    <3>2. alloc' = alloc
      <4> HIDE DEF k
      <4> QED BY <1>1, <3>1 DEF TypeOK
    <3>3. Evaluated(alloc, reconciled, signed) = status
      BY <1>1 DEF IInv, NoMissedTransition, Evaluated, AfterFees, TypeOK, Blocking
    <3> QED BY <1>2, <3>1, <3>2, <3>3
  <2> QED BY <1>1, <2>1, <2>2
<1>5. /\ status' \in Statuses /\ NoMissedTransition' /\ StageIsPaid'
      /\ CallsInOrder' /\ CalledIsLegal'
  BY <1>2, <1>3, <1>4, EvaluatedStep
<1>6. TypeOK'
  <2>1. [notice[n] EXCEPT !.state = "confirmed", !.receipt = r] \in NoticeRows
    BY <1>1 DEF NoticeRows
  <2>2. notice' \in [Notices -> NoticeRows \cup {None}]
    BY <2>1 DEF Confirm, TypeOK, IInv
  <2>3. receipt' \in [References -> Nat]
    BY <1>1, <1>2 DEF TypeOK
  <2> QED BY <1>1, <1>2, <1>3, <1>5, <2>2, <2>3 DEF TypeOK, Confirm, world, Statuses, Allocations
<1>7. NoDoubleImputation'
  <2>1. \A q \in References : Unallocated(q)' >= 0
    <3>1. Unallocated(r)' >= 0
      <4>1. SumFunction(alloc[r]) \in Nat
        BY <1>1, SumsAreNat
      <4>2. receipt'[r] = notice[n].amount
        BY <1>1, <1>2 DEF TypeOK
      <4> QED BY <1>1, <1>3, <4>1, <4>2 DEF Unallocated
    <3>2. \A q \in References \ {r} : Unallocated(q)' = Unallocated(q)
      BY <1>1, <1>2, <1>3 DEF Unallocated, TypeOK
    <3> QED BY <3>1, <3>2 DEF IInv, NoDoubleImputation
  <2>2. \A j \in Kinds : Remaining(j)' >= 0
    <3>1. \A j \in Kinds : Remaining(j)' = called[j] - Cover(j, alloc', References)
      BY <1>2 DEF Remaining, Allocated, Cover
    <3>2. \A j \in Kinds : /\ called[j] - Cover(j, alloc, References) >= 0
                           /\ called[j] \in Nat /\ Cover(j, alloc, References) \in Nat
      BY <1>1, SumsAreNat DEF IInv, NoDoubleImputation, Remaining, Allocated
    <3>3. a <= called[k] - Cover(k, alloc, References)
      BY <1>1 DEF Remaining, Allocated
    <3> HIDE DEF a, k
    <3> QED BY <1>1, <1>3, <3>1, <3>2, <3>3
  <2> QED BY <2>1, <2>2 DEF NoDoubleImputation
<1>8. \/ SumFunction(alloc'[r]) = notice[n].amount
      \/ Cover(k, alloc', References) = called[k]
  <2>1. /\ SumFunction(alloc[r]) \in Nat /\ Cover(k, alloc, References) \in Nat
        /\ receipt[r] \in Nat /\ called[k] \in Nat /\ SumFunction(alloc[r]) <= receipt[r]
    BY <1>1, SumsAreNat DEF IInv, NoDoubleImputation, Unallocated, Allocated
  <2>2. a = Least(notice[n].amount - SumFunction(alloc[r]), called[k] - Cover(k, alloc, References))
    BY <1>1, <2>1 DEF Owed, Unallocated, Remaining, Allocated
  <2> HIDE DEF a, k
  <2>3. CASE a = notice[n].amount - SumFunction(alloc[r])
    BY <1>1, <1>3, <2>1, <2>3
  <2>4. CASE a = called[k] - Cover(k, alloc, References)
    BY <1>3, <2>1, <2>4
  <2> QED BY <2>2, <2>3, <2>4 DEF Least
<1> QED BY <1>1, <1>3, <1>5, <1>6, <1>7, <1>8 DEF IInv

-----------------------------------------------------------------------------
(* The rest of the platform.                                                *)

LEMMA CancelStep ==
  ASSUME IInv, Cancel
  PROVE  IInv'
<1>1. UNCHANGED <<validated, world, money>> /\ status' = "closed"
  BY DEF Cancel
<1>2. TypeOK'
  BY <1>1 DEF IInv, TypeOK, world, money
<1>3. StageIsPaid' /\ NoMissedTransition'
  BY <1>1 DEF StageIsPaid, NoMissedTransition, Blocking
<1> QED BY <1>1, <1>2, <1>3, SameMoney, SameBalances DEF IInv, money

LEMMA SignStep ==
  ASSUME IInv, Sign
  PROVE  IInv'
<1>1. UNCHANGED <<validated, schedule, accepted, money>> /\ signed' = TRUE
      /\ status' = Evaluated(alloc', reconciled', signed')
  BY DEF Sign, money
<1>2. /\ alloc' \in Allocations /\ reconciled' \in SUBSET References /\ reconciled \subseteq reconciled'
      /\ \A q \in References, k \in Kinds : alloc[q][k] <= alloc'[q][k]
      /\ called' = called /\ cap' = cap
  BY <1>1 DEF money, IInv, TypeOK, Allocations
<1>3. /\ status' \in Statuses /\ NoMissedTransition' /\ StageIsPaid'
      /\ CallsInOrder' /\ CalledIsLegal'
  BY <1>1, <1>2, EvaluatedStep
<1>4. TypeOK'
  BY <1>1, <1>3 DEF IInv, TypeOK, money, Statuses
<1> QED BY <1>1, <1>3, <1>4, SameBalances DEF IInv, money

\* A new version opens no transition: what was signed for is already done.
LEMMA NewVersionStep ==
  ASSUME IInv, NewVersion
  PROVE  IInv'
<1>1. UNCHANGED <<status, validated, schedule, accepted, money>> /\ signed' = FALSE
      /\ status \in Blocking /\ signed = TRUE
  BY DEF NewVersion, IInv, TypeOK
<1>2. CallsInOrder' /\ CalledIsLegal' /\ StageIsPaid'
  BY <1>1, SameMoney DEF money
<1>3. NoMissedTransition'
  <2>1. Settled("frais", alloc, reconciled)' <=> Settled("frais", alloc, reconciled)
    BY <1>1 DEF money, Settled, Issued, Cover
  <2> QED BY <1>1, <2>1 DEF IInv, NoMissedTransition, Evaluated, AfterFees
<1>4. TypeOK'
  BY <1>1 DEF IInv, TypeOK, money
<1> QED BY <1>1, <1>2, <1>3, <1>4, SameBalances DEF IInv, money

LEMMA PlatformStep ==
  ASSUME IInv, UNCHANGED <<status, validated, signed, money>>,
         schedule' \in Schedules, accepted' \in SUBSET Codes
  PROVE  IInv'
<1>1. TypeOK'
  BY DEF IInv, TypeOK, money
<1> QED BY <1>1, SameMoney, SameBalances DEF IInv, money

-----------------------------------------------------------------------------
\* Money already there is not taken back.
LEMMA SettledGrows ==
  ASSUME TypeOK, called' = called, alloc' \in Allocations,
         reconciled' \in SUBSET References, reconciled \subseteq reconciled',
         \A q \in References, j \in Kinds : alloc[q][j] <= alloc'[q][j]
  PROVE  \A k \in Kinds : Settled(k, alloc, reconciled) => Settled(k, alloc', reconciled')
<1> SUFFICES ASSUME NEW k \in Kinds PROVE Settled(k, alloc, reconciled) => Settled(k, alloc', reconciled')
  OBVIOUS
<1>1. /\ Cover(k, alloc, reconciled) \in Nat /\ Cover(k, alloc', reconciled') \in Nat
      /\ Cover(k, alloc, reconciled) <= Cover(k, alloc', reconciled')
  BY CoverGrows DEF TypeOK, Allocations
<1> QED BY <1>1 DEF Settled, TypeOK

Advances == \A k \in Kinds : Settled(k, alloc, reconciled) => Settled(k, alloc', reconciled')
NoticesStay == \A n \in Notices : notice[n] # None /\ ~Declared(n) => notice'[n] = notice[n]

\* Steps that leave the money as it is.
LEMMA StillSettled ==
  ASSUME called' = called, alloc' = alloc, reconciled' = reconciled
  PROVE  Advances
BY DEF Advances

LEMMA NextLemma ==
  ASSUME IInv, [Next]_vars
  PROVE  IInv' /\ Advances /\ NoticesStay
<1>1. CASE CallStep
  <2>1. NoticesStay
    BY <1>1 DEF CallStep, Validate, IssueFirst, IssueTier, Issue, NoticesStay
  <2>2. IInv' /\ Advances
    BY <1>1, ValidateStep, IssueFirstStep, IssueTierStep DEF CallStep, Advances
  <2> QED BY <2>1, <2>2
<1>2. ASSUME NEW r \in References, ReceiptStep(r)
      PROVE  IInv' /\ Advances /\ NoticesStay
  <2>1. ASSUME NEW a \in Amounts, Record(r, a) PROVE IInv' /\ Advances /\ NoticesStay
    BY <2>1, RecordStep, StillSettled DEF Record, NoticesStay
  <2>2. ASSUME NEW k \in Kinds, Allocate(r, k) PROVE IInv' /\ Advances /\ NoticesStay
    <3>1. called' = called /\ reconciled' = reconciled /\ notice' = notice
      BY <2>2 DEF Allocate
    <3>2. TypeOK /\ reconciled' \in SUBSET References /\ reconciled \subseteq reconciled'
      BY <3>1 DEF IInv, TypeOK
    <3> QED BY <2>2, <3>1, <3>2, AllocateStep, SettledGrows DEF Advances, NoticesStay
  <2>3. CASE Reconcile(r)
    <3>1. called' = called /\ alloc' = alloc /\ notice' = notice /\ reconciled' = reconciled \cup {r}
      BY <2>3 DEF Reconcile
    <3>2. /\ TypeOK /\ reconciled' \in SUBSET References /\ reconciled \subseteq reconciled'
          /\ alloc' \in Allocations /\ \A q \in References, j \in Kinds : alloc[q][j] <= alloc'[q][j]
      BY <3>1 DEF IInv, TypeOK, Allocations
    <3> QED BY <2>3, <3>1, <3>2, ReconcileStep, SettledGrows DEF Advances, NoticesStay
  <2> QED BY <1>2, <2>1, <2>2, <2>3 DEF ReceiptStep
<1>3. ASSUME NEW n \in Notices, NoticeStep(n)
      PROVE  IInv' /\ Advances /\ NoticesStay
  <2>1. ASSUME NEW k \in Kinds, NEW r \in References, Declare(n, k, r)
        PROVE  IInv' /\ Advances /\ NoticesStay
    BY <2>1, DeclareStep, StillSettled DEF Declare, NoticesStay, IInv, TypeOK
  <2>2. ASSUME NEW r \in References, Confirm(n, r) PROVE IInv' /\ Advances /\ NoticesStay
    <3>1. /\ called' = called /\ reconciled' = reconciled \cup {r} /\ Declared(n)
          /\ notice' = [notice EXCEPT ![n].state = "confirmed", ![n].receipt = r]
      BY <2>2 DEF Confirm
    <3>2. TypeOK /\ reconciled' \in SUBSET References /\ reconciled \subseteq reconciled'
      BY <3>1 DEF IInv, TypeOK
    <3>3. NoticesStay
      BY <3>1, <3>2 DEF NoticesStay, TypeOK
    <3> QED BY <2>2, <3>1, <3>2, <3>3, ConfirmStep, SettledGrows DEF Advances
  <2>3. CASE Reject(n)
    BY <2>3, RejectStep, StillSettled DEF Reject, NoticesStay, IInv, TypeOK
  <2> QED BY <1>3, <2>1, <2>2, <2>3 DEF NoticeStep
<1>4. CASE OtherStep
  <2>1. UNCHANGED money
    BY <1>4 DEF OtherStep, Cancel, Sign, NewVersion, ActivateTemplate, FieldReport
  <2>2. Advances /\ NoticesStay
    BY <2>1, StillSettled DEF money, NoticesStay
  <2>3. ASSUME NEW s \in Schedules, ActivateTemplate(s) PROVE IInv'
    BY <2>3, PlatformStep DEF ActivateTemplate, IInv, TypeOK
  <2>4. ASSUME NEW c \in Codes, FieldReport(c) PROVE IInv'
    BY <2>4, PlatformStep DEF FieldReport, IInv, TypeOK
  <2> QED BY <1>4, <2>2, <2>3, <2>4, CancelStep, SignStep, NewVersionStep DEF OtherStep
<1>5. CASE UNCHANGED vars
  <2>1. UNCHANGED <<status, validated, signed, schedule, accepted, money>>
    BY <1>5 DEF vars, world
  <2>2. schedule' \in Schedules /\ accepted' \in SUBSET Codes
    BY <2>1 DEF IInv, TypeOK
  <2> QED BY <2>1, <2>2, PlatformStep, StillSettled DEF money, NoticesStay
<1> QED BY <1>1, <1>2, <1>3, <1>4, <1>5 DEF Next

-----------------------------------------------------------------------------
(* Confirmed notices.  What they say stays true because an issued call and *)
(* a recorded receipt keep their amounts while allocations only grow.      *)

NoticesNameCalls == \A n \in Notices : notice[n] # None => Issued(notice[n].call)
NInv == NoticesNameCalls /\ ConfirmedIsImputed

OnlyGrows ==
  /\ \A k \in Kinds : Issued(k) => called'[k] = called[k]
  /\ \A r \in References : receipt[r] # 0 => receipt'[r] = receipt[r]
  /\ reconciled \subseteq reconciled'
  /\ \A r \in References, k \in Kinds : alloc[r][k] <= alloc'[r][k]

LEMMA BalancesShrink ==
  ASSUME TypeOK, TypeOK', OnlyGrows
  PROVE  /\ \A k \in Kinds : Issued(k) => /\ Remaining(k)' <= Remaining(k)
                                          /\ Remaining(k)' \in Int /\ Remaining(k) \in Int
         /\ \A r \in References : receipt[r] # 0 =>
              /\ Unallocated(r)' <= Unallocated(r)
              /\ Unallocated(r)' \in Int /\ Unallocated(r) \in Int
<1>1. alloc \in Allocations /\ alloc' \in Allocations
  BY DEF TypeOK, Allocations
<1>2. ASSUME NEW k \in Kinds, Issued(k)
      PROVE  Remaining(k)' <= Remaining(k) /\ Remaining(k)' \in Int /\ Remaining(k) \in Int
  <2>1. /\ Cover(k, alloc, References) \in Nat /\ Cover(k, alloc', References) \in Nat
        /\ Cover(k, alloc, References) <= Cover(k, alloc', References)
    BY <1>1, CoverGrows DEF OnlyGrows
  <2>2. Remaining(k) = called[k] - Cover(k, alloc, References)
    BY DEF Remaining, Allocated
  <2>3. Remaining(k)' = called[k] - Cover(k, alloc', References)
    BY <1>2 DEF Remaining, Allocated, Cover, OnlyGrows
  <2>4. called[k] \in Nat
    BY DEF TypeOK
  <2> QED BY <2>1, <2>2, <2>3, <2>4
<1>3. ASSUME NEW r \in References, receipt[r] # 0
      PROVE  /\ Unallocated(r)' <= Unallocated(r)
             /\ Unallocated(r)' \in Int /\ Unallocated(r) \in Int
  <2>1. /\ DOMAIN alloc[r] = Kinds /\ DOMAIN alloc'[r] = Kinds
        /\ \A k \in Kinds : alloc[r][k] \in Nat /\ alloc'[r][k] \in Nat /\ alloc[r][k] <= alloc'[r][k]
    BY <1>1 DEF Allocations, OnlyGrows
  <2>2. /\ SumFunctionOnSet(alloc[r], Kinds) \in Nat /\ SumFunctionOnSet(alloc'[r], Kinds) \in Nat
        /\ SumFunctionOnSet(alloc[r], Kinds) <= SumFunctionOnSet(alloc'[r], Kinds)
    BY <2>1, KindsAreFinite, SumGrows
  <2>3. receipt'[r] = receipt[r] /\ receipt[r] \in Nat
    BY <1>3 DEF OnlyGrows, TypeOK
  <2> QED BY <2>1, <2>2, <2>3 DEF Unallocated, SumFunction
<1> QED BY <1>2, <1>3

\* What is said of one notice, and of a notice no step touches.
NoticeOK(n) ==
  notice[n] # None =>
    /\ Issued(notice[n].call)
    /\ notice[n].state = "confirmed" =>
         LET r == notice[n].receipt
         IN /\ r \in reconciled /\ receipt[r] = notice[n].amount
            /\ Unallocated(r) = 0 \/ Remaining(notice[n].call) = 0

LEMMA NoticeKept ==
  ASSUME IInv, IInv', OnlyGrows, NEW n \in Notices, NoticeOK(n), notice'[n] = notice[n]
  PROVE  NoticeOK(n)'
<1> SUFFICES ASSUME notice[n] # None PROVE NoticeOK(n)'
  BY DEF NoticeOK
<1>0. PICK k, r : k = notice[n].call /\ r = notice[n].receipt
  OBVIOUS
<1>1. notice[n] \in NoticeRows
  BY DEF IInv, TypeOK
<1>2. k \in Kinds /\ notice[n].amount \in Nat \ {0}
  BY <1>0, <1>1 DEF NoticeRows
<1>3. Issued(k) /\ called'[k] = called[k] /\ Issued(k)'
  BY <1>0, <1>2 DEF NoticeOK, OnlyGrows, Issued
<1>4. ASSUME notice[n].state = "confirmed"
      PROVE  /\ r \in reconciled' /\ receipt'[r] = notice[n].amount
             /\ Unallocated(r)' = 0 \/ Remaining(k)' = 0
  <2>1. /\ r \in reconciled /\ receipt[r] = notice[n].amount
        /\ Unallocated(r) = 0 \/ Remaining(k) = 0
    BY <1>0, <1>4 DEF NoticeOK
  <2>2. r \in References /\ receipt[r] # 0
    BY <1>2, <2>1 DEF IInv, TypeOK
  <2>3. /\ Remaining(k)' <= Remaining(k) /\ Unallocated(r)' <= Unallocated(r)
        /\ Remaining(k)' \in Int /\ Unallocated(r)' \in Int
        /\ Remaining(k) \in Int /\ Unallocated(r) \in Int
    BY <1>2, <1>3, <2>2, BalancesShrink DEF IInv
  <2>4. Remaining(k)' >= 0 /\ Unallocated(r)' >= 0
    BY <1>2, <2>2 DEF IInv, NoDoubleImputation
  <2>5. r \in reconciled' /\ receipt'[r] = notice[n].amount
    BY <2>1, <2>2 DEF OnlyGrows
  <2> QED BY <2>1, <2>3, <2>4, <2>5
<1> QED BY <1>0, <1>3, <1>4 DEF NoticeOK

LEMMA ConfirmedNotice ==
  ASSUME IInv, NEW n \in Notices, NoticeOK(n), NEW r \in References, Confirm(n, r)
  PROVE  NoticeOK(n)'
<1>0. PICK k, m : k = notice[n].call /\ m = notice[n].amount
  OBVIOUS
<1>1. /\ called' = called /\ reconciled' = reconciled \cup {r}
      /\ receipt' = [receipt EXCEPT ![r] = m] /\ receipt \in [References -> Nat]
      /\ notice' = [notice EXCEPT ![n].state = "confirmed", ![n].receipt = r]
      /\ notice \in [Notices -> NoticeRows \cup {None}] /\ Declared(n) /\ notice[n] \in NoticeRows
  BY <1>0 DEF Confirm, IInv, TypeOK, Declared
<1>2. notice'[n] = [notice[n] EXCEPT !.state = "confirmed", !.receipt = r]
  BY <1>1
<1>3. notice'[n].call = k /\ notice'[n].amount = m /\ notice'[n].receipt = r
  BY <1>0, <1>1, <1>2 DEF NoticeRows
<1>4. Issued(k)'
  BY <1>0, <1>1 DEF NoticeOK, Declared, Issued
<1>5. receipt'[r] = m /\ r \in reconciled'
  BY <1>1
<1>6. SumFunction(alloc'[r]) = m \/ Cover(k, alloc', References) = called[k]
  BY <1>0, ConfirmStep
<1>7. Unallocated(r)' = 0 \/ Remaining(k)' = 0
  <2>1. Unallocated(r)' = m - SumFunction(alloc'[r])
    BY <1>5 DEF Unallocated
  <2>2. Remaining(k)' = called[k] - Cover(k, alloc', References)
    BY <1>1 DEF Remaining, Allocated, Cover
  <2>3. m \in Nat /\ called[k] \in Nat
    BY <1>0, <1>1 DEF NoticeRows, IInv, TypeOK
  <2> QED BY <1>6, <2>1, <2>2, <2>3
<1> QED BY <1>3, <1>4, <1>5, <1>7 DEF NoticeOK

\* Whatever the step, amounts stay and allocations grow; a notice that is not
\* confirmed by it is kept, rejected, or declared for an issued call.
LEMMA StepGrows ==
  ASSUME IInv, [Next]_vars
  PROVE  /\ OnlyGrows
         /\ \A n \in Notices :
              \/ notice'[n] = notice[n]
              \/ \E r \in References : Confirm(n, r)
              \/ /\ notice'[n].state # "confirmed"
                 /\ \/ Issued(notice'[n].call)
                    \/ notice[n] # None /\ notice'[n].call = notice[n].call
<1> DEFINE NoticesMove ==
       \A n \in Notices :
              \/ notice'[n] = notice[n]
              \/ \E r \in References : Confirm(n, r)
              \/ /\ notice'[n].state # "confirmed"
                 /\ \/ Issued(notice'[n].call)
                    \/ notice[n] # None /\ notice'[n].call = notice[n].call
<1>0. /\ called \in [Kinds -> Nat] /\ receipt \in [References -> Nat] /\ alloc \in Allocations
      /\ notice \in [Notices -> NoticeRows \cup {None}]
      /\ \A r \in References, k \in Kinds : alloc[r][k] <= alloc[r][k]
  BY DEF IInv, TypeOK, Allocations
<1>1. CASE UNCHANGED money
  BY <1>0, <1>1 DEF money, OnlyGrows
<1>2. ASSUME NEW k \in Kinds, NEW a, NEW p, Issue(k, a, p) PROVE OnlyGrows /\ NoticesMove
  BY <1>0, <1>2 DEF Issue, OnlyGrows
<1>3. CASE CallStep
  <2>1. CASE Validate
    BY <1>2, <2>1, KindsAreFinite DEF Validate
  <2>2. CASE IssueFirst
    BY <1>2, <2>2, KindsAreFinite DEF IssueFirst
  <2>3. CASE IssueTier
    <3>1. PICK i \in 2 .. Len(schedule) : Issue(schedule[i].code, TierAmount(i), schedule[i].cap)
      BY <2>3 DEF IssueTier
    <3>2. schedule[i].code \in Kinds
      BY KindsAreFinite, TierIsACode DEF IInv
    <3> QED BY <1>2, <3>1, <3>2
  <2> QED BY <1>3, <2>1, <2>2, <2>3 DEF CallStep
<1>4. ASSUME NEW r \in References, ReceiptStep(r) PROVE OnlyGrows /\ NoticesMove
  <2>1. ASSUME NEW a \in Amounts, Record(r, a) PROVE OnlyGrows /\ NoticesMove
    BY <1>0, <2>1 DEF Record, OnlyGrows
  <2>2. ASSUME NEW k \in Kinds, Allocate(r, k) PROVE OnlyGrows /\ NoticesMove
    <3>1. \A q \in References, j \in Kinds : alloc[q][j] <= alloc'[q][j]
      BY <2>2, AllocateStep
    <3> QED BY <2>2, <3>1 DEF Allocate, OnlyGrows
  <2>3. CASE Reconcile(r)
    BY <1>0, <2>3 DEF Reconcile, OnlyGrows
  <2> QED BY <1>4, <2>1, <2>2, <2>3 DEF ReceiptStep
<1>5. ASSUME NEW n \in Notices, NoticeStep(n) PROVE OnlyGrows /\ NoticesMove
  <2>1. ASSUME NEW k \in Kinds, NEW r \in References, Declare(n, k, r) PROVE OnlyGrows /\ NoticesMove
    BY <1>0, <2>1 DEF Declare, OnlyGrows
  <2>2. ASSUME NEW r \in References, Confirm(n, r) PROVE OnlyGrows /\ NoticesMove
    <3>1. /\ \A q \in References, j \in Kinds : alloc[q][j] <= alloc'[q][j]
          /\ receipt[r] \in {0, notice[n].amount}
      BY <2>2, ConfirmStep
    <3>2. \A m \in Notices \ {n} : notice'[m] = notice[m]
      BY <1>0, <2>2 DEF Confirm
    <3>3. /\ called' = called /\ reconciled' = reconciled \cup {r}
          /\ receipt' = [receipt EXCEPT ![r] = notice[n].amount]
      BY <2>2 DEF Confirm
    <3>4. OnlyGrows
      BY <1>0, <3>1, <3>3 DEF OnlyGrows
    <3>5. NoticesMove
      BY <2>2, <3>2
    <3> QED BY <3>4, <3>5
  <2>3. CASE Reject(n)
    <3>1. notice[n] \in NoticeRows /\ notice' = [notice EXCEPT ![n].state = "rejected"] /\ notice[n] # None
      BY <1>0, <2>3 DEF Reject, Declared
    <3>2. /\ \A m \in Notices \ {n} : notice'[m] = notice[m]
          /\ notice'[n].state = "rejected" /\ notice'[n].call = notice[n].call
      BY <1>0, <3>1 DEF NoticeRows
    <3> QED BY <1>0, <2>3, <3>1, <3>2 DEF Reject, OnlyGrows
  <2> QED BY <1>5, <2>1, <2>2, <2>3 DEF NoticeStep
<1>6. CASE OtherStep
  BY <1>1, <1>6 DEF OtherStep, Cancel, Sign, NewVersion, ActivateTemplate, FieldReport
<1>7. CASE UNCHANGED vars
  BY <1>1, <1>7 DEF vars
<1> QED BY <1>3, <1>4, <1>5, <1>6, <1>7 DEF Next

LEMMA NoticesStep ==
  ASSUME IInv, IInv', [Next]_vars, NInv
  PROVE  NInv'
<1>1. \A n \in Notices : NoticeOK(n)
  BY DEF NInv, NoticesNameCalls, ConfirmedIsImputed, NoticeOK
<1>2. ASSUME NEW n \in Notices PROVE NoticeOK(n)'
  <2>1. OnlyGrows
    BY StepGrows
  <2>2. CASE notice'[n] = notice[n]
    BY <1>1, <2>1, <2>2, NoticeKept
  <2>3. CASE \E r \in References : Confirm(n, r)
    BY <1>1, <2>3, ConfirmedNotice
  <2>4. ASSUME notice'[n].state # "confirmed", notice'[n] # None,
               Issued(notice'[n].call) \/ (notice[n] # None /\ notice'[n].call = notice[n].call)
        PROVE  NoticeOK(n)'
    <3>1. PICK k : k = notice'[n].call
      OBVIOUS
    <3>2. k \in Kinds
      BY <2>4, <3>1 DEF IInv, TypeOK, NoticeRows
    <3>3. Issued(k)
      BY <1>1, <2>4, <3>1 DEF NoticeOK
    <3>4. Issued(k)'
      BY <2>1, <3>2, <3>3 DEF OnlyGrows, Issued
    <3> QED BY <2>4, <3>1, <3>4 DEF NoticeOK
  <2>5. CASE notice'[n] = None
    BY <2>5 DEF NoticeOK
  <2> QED BY <2>2, <2>3, <2>4, <2>5, StepGrows
<1> QED BY <1>2 DEF NInv, NoticesNameCalls, ConfirmedIsImputed, NoticeOK

-----------------------------------------------------------------------------
THEOREM Invariant == Spec => []IInv
<1>1. IInv /\ [Next]_vars => IInv'
  BY NextLemma
<1> QED BY <1>1, InitLemma, PTL DEF Spec

\* The amounts and the rows keep their types: no allocation, call or receipt
\* of the sales services is ever negative.
THEOREM TypeCorrect == Spec => []TypeOK
BY Invariant, PTL DEF IInv

\* A receipt never gives more than it has and a call never takes more than it
\* asks, for every mixture of allocate_receipt and confirm_payment_notice.
THEOREM NoDoubleImputationCorrect == Spec => []NoDoubleImputation
BY Invariant, PTL DEF IInv

\* evaluate_reservation_transitions never leaves a transition to be done, in
\* whatever order fees, first instalment and signature are completed.
THEOREM NoMissedTransitionCorrect == Spec => []NoMissedTransition
BY Invariant, PTL DEF IInv

\* A file is reserved or committed on reconciled money only (B-051, B-056).
THEOREM StageIsPaidCorrect == Spec => []StageIsPaid
BY Invariant, PTL DEF IInv

\* What issue_payment_call has called is within half a franc of the legal share
\* of its last tier, and exactly the price once a last tier is called, whatever
\* the hundredths of the price and of the caps and whatever templates replace
\* each other on the way.
THEOREM CalledIsLegalCorrect == Spec => []CalledIsLegal
BY Invariant, PTL DEF IInv

\* What confirm_payment_notice confirms is reconciled money, imputed to its call
\* as far as the receipt and the call allow, and it stays so.
THEOREM ConfirmedIsImputedCorrect == Spec => []ConfirmedIsImputed
<1>1. Init => NInv
  BY DEF Init, NInv, NoticesNameCalls, ConfirmedIsImputed
<1>2. IInv /\ IInv' /\ [Next]_vars /\ NInv => NInv'
  BY NoticesStep
<1>3. NInv => ConfirmedIsImputed
  BY DEF NInv
<1> QED BY <1>1, <1>2, <1>3, Invariant, PTL DEF Spec

\* No operation takes back what covers a call, nor reopens a decided notice.
THEOREM CoverStaysCorrect == Spec => CoverStays
<1>1. IInv /\ [Next]_vars => [Advances /\ NoticesStay]_vars
  BY NextLemma
<1>2. [Advances /\ NoticesStay]_vars =>
        [/\ \A k \in Kinds : Settled(k, alloc, reconciled) => Settled(k, alloc', reconciled')
         /\ \A n \in Notices : notice[n] # None /\ ~Declared(n) => notice'[n] = notice[n]]_vars
  BY DEF Advances, NoticesStay
<1> QED BY <1>1, <1>2, Invariant, PTL DEF Spec, CoverStays
=============================================================================
