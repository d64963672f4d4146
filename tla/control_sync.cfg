SPECIFICATION MCFair
CONSTANTS
  None = None
  Decide = decide
  Edits = {decide}
  Photos = {p1}
  Drafts = {1, 2}
  Cycles = {1, 2}
  Pending = 2
  Meetings = 1
  Budget <- Calm
CHECK_DEADLOCK FALSE
INVARIANTS
  SubmittedOnceInTurn
  SettledIsTrueInTurn
  UploadedOnceInTurn
PROPERTIES
  ConflictWaitsInTurn
  NothingAbandonedInTurn
