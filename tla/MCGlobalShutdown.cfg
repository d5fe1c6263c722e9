CONSTANTS
  Workers = {w1, w2}
  Priority <- MCPriority
  Budget <- MCBudget
  VirtualTime = FALSE
  InCapacity <- MCInCapacity
  MaxPackets = 3
  MaxTime = 1
SPECIFICATION FairSpec
PROPERTY WorkersEnd
CHECK_DEADLOCK FALSE
