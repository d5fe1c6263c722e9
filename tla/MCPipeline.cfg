CONSTANTS
  Priority <- MCPriority
  Budget <- MCBudget
  InCapacity <- MCInCapacity
  OutCapacity <- MCOutCapacity
  Times <- MCTimes
  Sockets <- MCSockets
  Quantum <- MCQuantum
  MaxDatagrams = 3
  MaxRounds = 2
  Connected <- MCConnected
SPECIFICATION FairSpec
INVARIANT CreditConserved
INVARIANT VisitsBalanced
INVARIANT EarliestFirst
INVARIANT PacketsConserved
INVARIANT EgressOrderHolds
PROPERTY PipelineDrains
CHECK_DEADLOCK FALSE
