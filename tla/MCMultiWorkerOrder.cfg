CONSTANTS
  Priority <- MCPriority
  Workers <- MCWorkers
  Budget <- MCBudget
  QueueCapacity <- MCQueueCapacity
  MaxSequence = 3
  MaxArrivals = 3
  MaxRebalances = 1
  Capacities <- SteadyCapacities
  HighPrimaryMax = 4
  HighSpillMax = 2
  MediumMax = 4
  LowMax = 4
  BestEffortMax = 1
  MinTotal <- MCMinTotal
  InitialTotal <- SteadyTotal
  InitialLimit <- SteadyLimit
SPECIFICATION Spec
INVARIANT PerPriorityFifo
CHECK_DEADLOCK FALSE
