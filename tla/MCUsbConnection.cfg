SPECIFICATION FairSpec
CONSTANTS
  Disks = {"a", "b"}
  Partitions = {"a1", "b1"}
  DiskOf <- Own
  Tries = 3
  MaxPlugs = 2
  None = none
CONSTRAINT Few
INVARIANTS Preserved AllMounted Listed AllReleased
PROPERTIES PullNoticed MountedAtLast
CHECK_DEADLOCK FALSE
