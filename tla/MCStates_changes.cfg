SPECIFICATION FairSpec
CONSTANTS
  States = {s, p}
  Synchronous = {s}
  MaxRev = 4
  WritesMayFail = TRUE
INVARIANTS TypeOK NothingForgotten
PROPERTIES DiskNeverGoesBack EventuallyOnDisk CloseEnds
CHECK_DEADLOCK FALSE
