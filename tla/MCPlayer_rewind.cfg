SPECIFICATION Spec
CONSTANTS
  Buf = 2
  MaxSize = 8
  Totals = {7, 21}
  LoadPlay = 1
  LoadTrick = 2
  Parts = 3
  MaxPlays = 1
  MaxKeys = 2
INVARIANT RewindResumes
CHECK_DEADLOCK FALSE
