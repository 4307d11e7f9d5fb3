SPECIFICATION FairSpec
CONSTANTS
  MaxSession = 2
  MaxPos = 2
  MaxInbox = 2
  MaxPlain = 0
  MaxReports = 0
  Window = 1
  StoreMayFail = FALSE
  ClockStepsBack = FALSE
  Plain = Plain
  NoFrame = NoFrame
PROPERTIES EventuallyLogged
CHECK_DEADLOCK FALSE
