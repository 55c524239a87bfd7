SPECIFICATION FairSpec
CONSTANTS
    p1 = p1
    p2 = p2
    c1 = c1
    c2 = c2
    Producers <- TwoProducers
    Consumers <- OneConsumer
    DataSize = 19
    ControlSize = 1
    FrameSizes <- Mixed
    CapNum = 1
    CapDen = 3
    MaxPuts = 3
    MaxCrashes = 0
    CloseReleases = TRUE
    Free = Free
    Orphan = Orphan
INVARIANTS TypeOK Exclusion
PROPERTIES NoOverwrite Implements
