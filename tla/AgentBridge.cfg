SPECIFICATION Spec
CONSTANTS
  c1 = c1
  r1 = r1
  r2 = r2
  None = None
  Clients = {c1}
  Calls = {r1, r2}
  MaxEdits = 1
  MaxConnections = 2
  MaxLost = 1
  MaxEvents = 3
INVARIANTS TypeOK ResultAfterState NoCallForgotten ConnectedIsHeard
PROPERTIES StateMovesForward
SYMMETRY Symmetry
CHECK_DEADLOCK FALSE
