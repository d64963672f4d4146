\* Two overlapping requests on the versions of one contract.
SPECIFICATION MCSpec
CONSTANTS
  None = None
  Workers = {w1, w2}
  MaxVersion = 3
  Contents = {c1, c2}
SYMMETRY Symmetry
CHECK_DEADLOCK FALSE
INVARIANTS
  OneInProgress
  SignedAndPaidIsCommitted
PROPERTIES
  SignedIsImmutable
  TextChangesInDraft
  LatestIsSignedInTurn
