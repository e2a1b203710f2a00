SPECIFICATION Spec
CONSTANTS
  NoProc = NoProc
  Proc = {p1, p2}
  p1 = p1
  p2 = p2
  MaxAttempt = 2
  MaxClaim = 3
  MaxAge = 1
  MaxCancel = 1
  MaxCrash = 1
  MaxResolve = 0
  Pollable = FALSE
  Queued = FALSE
  Faults = {"lapse"}
SYMMETRY Symmetry
CHECK_DEADLOCK FALSE
INVARIANTS
  NoRefundOfKnownRequest
  OneCreatePerAttempt
  CallStateHonest
  SettledIsDelivered
  DeliveredNotRefunded
PROPERTIES
  TerminalIsFinal
  RowNeverRegresses
