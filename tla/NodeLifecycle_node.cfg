SPECIFICATION FairSpec
CONSTANTS
    Pipes = {"p1"}
    ProcsOf <- OnePipeTwo
    Autoscale <- Uneven
    Attempts = 2
    ScalingLoad = TRUE
    EarlyDeath = TRUE
    ExitCodes = {"ok"}
    LaunchFaults = {"spawn", "log"}
    MaxLaunches = 2
    MaxProcesses = 3
    MaxStarts = 2
    MaxPauses = 1
    MaxLost = 1
INVARIANTS TypeOK WithinAutoscale RunningIsWhole
PROPERTIES CompletedWhenSinglesOver Completion JoinEnds
CHECK_DEADLOCK FALSE
