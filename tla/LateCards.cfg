SPECIFICATION Spec
CONSTANTS
  Jobs = {1, 2, 3, 4, 5}
  Limit = 2
  PagesMax = 1
  Overlap = 3
  Late = 2
  PullTime = 1
  Handlers = {}
  MaxTime = 8
  MaxFails = 1
CHECK_DEADLOCK FALSE
INVARIANTS
  NoCardIsMissed
