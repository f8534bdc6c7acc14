SPECIFICATION FairSpec
CONSTANTS
  Buf = 2
  MaxSize = 8
  Totals = {7, 21}
  LoadPlay = 1
  LoadTrick = 2
  Parts = 3
  MaxPlays = 2
  MaxKeys = 2
INVARIANTS Aligned InPlace Played Released
PROPERTY TaskEnds
CHECK_DEADLOCK FALSE
CONSTRAINT Untangled
