SPECIFICATION Spec
CONSTANTS
  t1 = t1
  t2 = t2
  a1 = a1
  a2 = a2
  a3 = a3
  Tasks <- MCTasks
  Assets <- MCAssets
  FromSource <- MCFromSource
  Apps <- MCApps
  MaxMishaps = 1
  MaxRun = 2
  MaxInbox = 2
INVARIANT ChangedIsNotUploaded
CHECK_DEADLOCK FALSE
