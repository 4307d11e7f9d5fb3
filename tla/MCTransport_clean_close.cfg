SPECIFICATION Spec
CONSTANTS
  MaxRetries = 1
  FlapLimit = 0
  CleanCloses = TRUE
  Refuses = FALSE
  MaxRuns = 1
  MaxDrops = 1
  MaxQueue = 1
INVARIANTS LinkIsTold
CHECK_DEADLOCK FALSE
