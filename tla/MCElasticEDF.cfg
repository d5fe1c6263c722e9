CONSTANTS
  Priority <- MCPriority
  Budget <- MCBudget
  BatchMax = 2
  UnitUs = 1000
  InCapacity = 2
  Loads <- MCLoads
  MaxTime = 1
SPECIFICATION FairSpec
INVARIANT TasksConserved
INVARIANT HighBalanced
PROPERTY ChannelOrder
PROPERTY WorkCompletes
CHECK_DEADLOCK FALSE
