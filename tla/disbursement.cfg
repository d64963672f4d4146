\* Two overlapping requests on the account, two companies.
SPECIFICATION MCSpec
CONSTANTS
  None = None
  Workers = {w1, w2}
  Requests = {d1, d2}
  Milestones = {m1, m2}
  Organizations = {o1, o2}
  References = {x, y}
  Amounts = {1, 2}
  MaxReceived = 3
SYMMETRY Symmetry
INVARIANTS
  OneOpenPerMilestone
PROPERTIES
  ProofOnlyAdvances
  ImplementsAccount
  PaidWhenDueInTurn
CHECK_DEADLOCK FALSE
