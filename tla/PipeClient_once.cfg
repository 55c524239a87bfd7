SPECIFICATION FairSpec
CONSTANTS
    Callers <- OneTask
    LaunchFails = TRUE
    MaxStarts = 2
    MaxWaits = 3
    MayTerminate = TRUE
    MaxLost = 1
INVARIANTS TypeOK AwakeWhileRunning
PROPERTIES ReturnsTruly CallsReturn
CHECK_DEADLOCK FALSE
