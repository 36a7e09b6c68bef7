SPECIFICATION FairSpec
CONSTANTS
  Size <- Fitting
  RAMFS_BASE = 3
  DTB_BASE = 6
  DDR2_SIZE = 10
  DTB_SIZE = 4
  PTR_SIZE = 2
  FifoSize = 2
  MaxLost = 2
  MaxRuns = 2
CHECK_DEADLOCK FALSE
INVARIANTS TypeOK OneRunBootsWhatWasSent OnlyWholeImages DtbKept
PROPERTIES BootsUnlessLost
