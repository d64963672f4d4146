\* Two overlapping requests, two reservation rows.
SPECIFICATION Spec
CONSTANTS
  None = None
  Workers = {w1, w2}
  Reservations = {r1, r2}
SYMMETRY Symmetry
INVARIANTS
  OneBlockingReservation
  ProgressIsPaid
PROPERTY ClosedStaysClosed
CHECK_DEADLOCK FALSE
