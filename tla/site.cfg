SPECIFICATION MCSpec
CONSTANTS
  Milestones = {m1, m2}
  Inspectors = {i1, i2}
  Budget <- Rehearsal
SYMMETRY Same
INVARIANTS ReadersAgree SyncedIsExpectedInTurn LoneReserveIsShown
PROPERTIES AcceptanceMoves
CHECK_DEADLOCK FALSE
