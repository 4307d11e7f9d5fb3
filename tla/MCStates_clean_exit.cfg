SPECIFICATION Spec
CONSTANTS
  States = {s, p, q}
  Synchronous = {s}
  MaxRev = 4
  WritesMayFail = FALSE
PROPERTY CleanExitKeepsLastValue
CHECK_DEADLOCK FALSE
