\* Two receipts, a notice, and a template that may change between the calls.
SPECIFICATION Spec
CONSTANTS
  None = None
  Price = 660
  Fee = 100
  Schedules <- LegalTemplates
  References = {x, y}
  Amounts = {50, 200}
  Notices = {n1}
SYMMETRY Symmetry
INVARIANTS
  NoDoubleImputation
  NoMissedTransition
  StageIsPaid
  CalledIsLegal
  ConfirmedIsImputed
CHECK_DEADLOCK FALSE
