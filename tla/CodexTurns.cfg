SPECIFICATION Spec
CONSTANTS
  a = a
  b = b
  None = None
  Requests <- MCRequests
  Procs <- MCProcs
  Canvases = {a, b}
  Threads <- MCThreads
  MaxExits = 2
INVARIANTS TypeOK TurnInItsThread
PROPERTIES TurnsEnd
CHECK_DEADLOCK FALSE
