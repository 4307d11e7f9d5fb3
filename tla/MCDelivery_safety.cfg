SPECIFICATION Spec
CONSTANTS
  MaxSession = 2
  MaxPos = 2
  MaxInbox = 1
  MaxPlain = 1
  MaxReports = 1
  Window = 1
  StoreMayFail = TRUE
  ClockStepsBack = FALSE
  Plain = Plain
  NoFrame = NoFrame
INVARIANTS NoFrameLost LogInOrder IInv
PROPERTIES ImplementsReportLog
CHECK_DEADLOCK FALSE
