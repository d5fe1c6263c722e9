CONSTANTS
  HighPrimaryMax = 64
  HighSpillMax = 16
  MediumMax = 160
  LowMax = 192
  BestEffortMax = 128
  MinTotal <- RealMinTotal
  InitialTotal <- RealTotal
  InitialLimit <- RealLimit
  BudgetNs <- RealBudget
  InitialEma <- RealEma
  Durations <- MCDurations
  MaxObservations = 2
  Depths <- MCDepths
SPECIFICATION Spec
INVARIANT EveryPriorityServed
INVARIANT QuotasFitTotals
INVARIANT EmaWithinObserved
INVARIANT GuardBounded
PROPERTY BacklogCovered
