SPECIFICATION MCSpec
CONSTANTS
  None = None
  Decide = decide
  Edits = {decide, comment}
  Photos = {p1}
  Drafts = {1}
  Cycles = {1}
  Pending = 1
  Meetings = 3
  Budget <- Quick
CHECK_DEADLOCK FALSE
INVARIANT NoInputLost
