SPECIFICATION Spec
CONSTANTS
    Pipes = {"p1"}
    ProcsOf <- OnePipeOne
    Autoscale <- Twice
    Attempts = 3
    ScalingLoad = TRUE
    EarlyDeath = FALSE
    ExitCodes = {"ok", "failed"}
    LaunchFaults = {}
    MaxLaunches = 2
    MaxProcesses = 2
    MaxStarts = 1
    MaxPauses = 0
    MaxLost = 0
PROPERTIES CompletedWhenOver
CHECK_DEADLOCK FALSE
