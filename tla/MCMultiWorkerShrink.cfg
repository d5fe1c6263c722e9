CONSTANTS
  Priority <- MCPriority
  Workers <- ShrinkWorkers
  Budget <- MCBudget
  QueueCapacity <- MCQueueCapacity
  MaxSequence = 4
  MaxArrivals = 4
  MaxRebalances = 1
  Capacities <- ShrinkCapacities
  HighPrimaryMax = 4
  HighSpillMax = 2
  MediumMax = 4
  LowMax = 4
  BestEffortMax = 1
  MinTotal <- MCMinTotal
  InitialTotal <- InitialShrinkTotal
  InitialLimit <- InitialShrinkLimit
SPECIFICATION Spec
INVARIANT RequeueSucceeds
CHECK_DEADLOCK FALSE
