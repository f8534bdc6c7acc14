SPECIFICATION FairSpec
CONSTANTS
  MAX_NUM_FDS = 2
  Masks <- MCMasks
INVARIANTS
  Unique
  NeverFull
  MaxCovers
  FlagIsReport
PROPERTIES
  ImplementsRegistry
  ReportDelivered
  DataDelivered
  LockReleased
  TermReturns
CHECK_DEADLOCK FALSE
