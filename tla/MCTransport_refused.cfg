SPECIFICATION Spec
CONSTANTS
  MaxRetries = 2
  FlapLimit = 0
  CleanCloses = FALSE
  Refuses = TRUE
  MaxRuns = 1
  MaxDrops = 1
  MaxQueue = 1
INVARIANTS NetworkFailuresAreRetried
CHECK_DEADLOCK FALSE
