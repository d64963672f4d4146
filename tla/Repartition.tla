---------------------------- MODULE Repartition ----------------------------
(***************************************************************************)
(* The amounts the back end derives, in cents: a percentage of an amount   *)
(* (_derive_marge_estimee in backend/apps/procurement/services.py) and the *)
(* share of each lot in the costs of its programme                         *)
(* (compute_lot_repartition in backend/apps/programs/services.py).         *)
(***************************************************************************)
EXTENDS Integers, FiniteSets, Functions

\* The nearest integer to n / d, half away from zero (ROUND_HALF_UP), n >= 0.
HalfUp(n, d) == (2 * n + d) \div (2 * d)

\* Faulty: ROUND_CEILING instead of ROUND_HALF_UP.
RoundedUp(n, d) == (n + d - 1) \div d
Rounded(n, d) == HalfUp(n, d)

\* A rate is in hundredths of a percent, as its column is.
Percent(amount, rate) == Rounded(amount * rate, 10000)

\* surface gives each lot of the programme its surface, 0 when it has none.
Measured(surface) == \A l \in DOMAIN surface : surface[l] > 0
TotalSurface(surface) == SumFunction(surface)

\* LotMissingSurfaceError unless the method does without the surfaces.
Divisible(method, surface) == method = "equal" \/ Measured(surface)

LotShare(total, method, surface, l) ==
  IF method = "equal"
  THEN Rounded(total, Cardinality(DOMAIN surface))
  ELSE Rounded(total * surface[l], TotalSurface(surface))

\* What the shares add up to, beyond the total.
Drift(total, method, surface) ==
  SumFunction([l \in DOMAIN surface |-> LotShare(total, method, surface, l)]) - total
=============================================================================
