SPECIFICATION Spec
CONSTANTS
  Nodes <- MCTwoNodes
  Tasks <- MCTasks
  OtherNodes = FALSE
  MaxRetries = 1
  MaxLost = 1
  MaxReloads = 0
  MaxFaults = 0
INVARIANT RetryableIsUnsent
CHECK_DEADLOCK FALSE
