SPECIFICATION FairSpec
CONSTANTS
  MaxSize = 3
  MaxLen = 2
  LastFile = 1
  MaxRecs = 2
  MaxUnits = 6
INVARIANTS Seamless Complete Released
PROPERTY FailureEnds
CHECK_DEADLOCK FALSE
CONSTRAINT SomeUndisturbed
