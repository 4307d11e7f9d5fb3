SPECIFICATION FairSpec
CONSTANTS
    Tasks <- MCTasks
    Effects <- MCEffects
    Reports <- MCReports
    Calls <- MCCalls
    TaskOf <- MCTaskOf
    Needs <- MCNeeds
    Base <- MCBase
    MaxRun = 3
CHECK_DEADLOCK FALSE
INVARIANTS TypeOK OneValue StepsOnce CallsFindTheirOwn NothingAfterTheEnd
PROPERTIES ImplementsDurable EventuallyEnds
