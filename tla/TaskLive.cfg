SPECIFICATION FairSpec
CONSTANTS
  NoProc = NoProc
  Proc = {p1, p2}
  p1 = p1
  p2 = p2
  MaxAttempt = 1
  MaxClaim = 3
  MaxAge = 1
  MaxCancel = 1
  MaxCrash = 1
  MaxResolve = 1
  Pollable = TRUE
  Queued = FALSE
  Faults = {"panic"}
CHECK_DEADLOCK FALSE
PROPERTIES
  TaskEnds
  OrderEnds
