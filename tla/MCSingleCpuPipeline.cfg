CONSTANTS
  Priority <- MCPriority
  OutCapacity <- MCOutCapacity
  Inputs <- MCInputs
  Hints <- MCHints
  Sizes <- MCSizes
  Stash = 1
  MaxPacketSize = 1500
  MaxDatagrams = 2
  MaxTime = 1
  Connected <- MCConnected
  EventCapacity = 1
  BatchSize = 2
  Window = 0
  Quantiles <- MCQuantiles
  RoundsUp <- MCRoundsUp
SPECIFICATION FairSpec
INVARIANT InversionBounded
INVARIANT PacketsAccounted
INVARIANT BuffersConserved
INVARIANT SnapshotExact
PROPERTY PacketsLeave
CHECK_DEADLOCK FALSE
