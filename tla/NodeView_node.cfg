SPECIFICATION FairSpec
CONSTANTS
    p1 = p1
    Pipes <- OnePipe
    MaxTicks = 2
    MaxWire = 1
    MaxSockets = 2
    MaxNodes = 2
    MaxClicks = 2
    MaxRestarts = 1
INVARIANTS TablesAgree ConnectedShown OneSocket
PROPERTIES ListsGrow StatsArrive
CHECK_DEADLOCK FALSE
