CONSTANTS
  Priority <- MCPriority
  QueueCapacity <- MCQueueCapacity
  MaxSequence = 3
SPECIFICATION FairRouterSpec
INVARIANT RouterInv
INVARIANT QuiescentIsEmpty
PROPERTY EveryNumberDecided
PROPERTY FifoSpec
CHECK_DEADLOCK FALSE
