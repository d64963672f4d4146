\* One worker: requests do not overlap.  It comes back for every hold.
SPECIFICATION FairSpec
CONSTANTS
  None = None
  Workers = {w1}
  Reservations = {r1, r2}
INVARIANTS
  PaidIsNeverReleased
  LotFollowsReservation
PROPERTIES
  OnlyLapsedHoldsExpire
  ImplementsSale
  LapsedHoldIsReleased
CHECK_DEADLOCK FALSE
