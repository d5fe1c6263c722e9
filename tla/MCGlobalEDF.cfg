CONSTANTS
  Workers = {w1, w2}
  Priority <- MCPriority
  Budget <- MCBudget
  VirtualTime = TRUE
  InCapacity <- MCInCapacity
  MaxPackets = 3
  MaxTime = 1
SPECIFICATION FairSpec
INVARIANT NoTaskSleeps
INVARIANT GlobalOrder
INVARIANT TasksConserved
PROPERTY HeapDrains
PROPERTY AwakeThreadsEnd
CHECK_DEADLOCK FALSE
