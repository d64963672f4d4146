\* Two overlapping requests: PaidIsNeverReleased does not survive.
SPECIFICATION Spec
CONSTANTS
  None = None
  Workers = {w1, w2}
  Reservations = {r1, r2}
INVARIANT PaidIsNeverReleased
CHECK_DEADLOCK FALSE
