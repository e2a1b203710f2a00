SPECIFICATION Spec
CONSTANTS
  Nodes = {1}
  Tasks <- MCTasks
  OtherNodes = TRUE
  MaxRetries = 2
  MaxLost = 1
  MaxReloads = 1
  MaxFaults = 1
INVARIANTS TypeOK OnePaidResult SucceededHasContent
PROPERTIES BoundItemEnds
CHECK_DEADLOCK FALSE
