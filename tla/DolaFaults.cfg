SPECIFICATION Spec
CONSTANTS
  t1 = t1
  t2 = t2
  a1 = a1
  a2 = a2
  None = None
  Tasks = {t1, t2}
  Accounts = {a1}
  Endpoint <- OwnEndpoints
  Patches <- AllPatches
  ReadyCheck <- Either
  MaxAttempts = 2
  MaxCrashes = 1
  MaxWriteFailures = 1
  MaxPatches = 1
  MaxBrowserEvents = 0
INVARIANTS TypeOK SubmittedAtMostOnce OneRunPerPage BusyIsLeased LeaseOutlivesTaskOnlyByFailedWrite
SYMMETRY Symmetry
CHECK_DEADLOCK FALSE
