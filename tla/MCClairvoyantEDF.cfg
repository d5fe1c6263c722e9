CONSTANTS
  Workers = 2
  Priority <- MCPriority
  Budget <- MCBudget
  Need <- MCNeed
  GuardCap <- MCGuardCap
  Window = 1
  Millisecond = 2
  DepthPenalty = 1
  InCapacity = 1
  Loads <- MCLoads
  MaxTime = 2
SPECIFICATION FairSpec
INVARIANT TasksConserved
INVARIANT WorkConserved
INVARIANT LongerQueueEarlier
INVARIANT MaximumExact
PROPERTY WorkCompletes
CHECK_DEADLOCK FALSE
