SPECIFICATION MCSpec
CONSTANTS
  Milestones = {m1, m2}
  Inspectors = {i1, i2}
  Budget <- Rehearsal
SYMMETRY Same
INVARIANT FreshMissionIsAccepted
CHECK_DEADLOCK FALSE
