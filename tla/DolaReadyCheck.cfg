SPECIFICATION Spec
CONSTANTS
  t1 = t1
  t2 = t2
  a1 = a1
  a2 = a2
  None = None
  Tasks = {t1, t2}
  Accounts = {a1}
  Endpoint <- OwnEndpoints
  Patches <- NoPatches
  ReadyCheck <- Unbound
  MaxAttempts = 2
  MaxCrashes = 0
  MaxWriteFailures = 0
  MaxPatches = 0
  MaxBrowserEvents = 0
PROPERTY FinishedVideoIsDownloaded
CHECK_DEADLOCK FALSE
