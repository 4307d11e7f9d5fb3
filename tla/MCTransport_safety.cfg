SPECIFICATION FairSpec
CONSTANTS
  MaxRetries = 1
  FlapLimit = 2
  CleanCloses = TRUE
  Refuses = TRUE
  MaxRuns = 2
  MaxDrops = 2
  MaxQueue = 2
INVARIANTS TypeOK DropsAreTold RetriesAreBounded EndReachesReceiver JoinCountsEverything
PROPERTIES DisconnectReturns
CHECK_DEADLOCK FALSE
