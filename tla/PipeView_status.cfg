SPECIFICATION Spec
CONSTANTS
    p1 = p1
    p2 = p2
    a = a
    b = b
    NoPipe = NoPipe
    Pipes <- OnePipe
    GraphOf <- ChainAndShortcut
    LaunchFails = FALSE
    MaxFetches = 1
    MaxSockets = 2
    MaxChoices = 3
    MaxClicks = 1
INVARIANTS StatusShown
CHECK_DEADLOCK FALSE
