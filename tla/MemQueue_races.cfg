SPECIFICATION Spec
CONSTANTS
    p1 = p1
    p2 = p2
    c1 = c1
    c2 = c2
    Producers <- TwoProducers
    Consumers <- TwoConsumers
    DataSize = 10
    ControlSize = 1
    FrameSizes <- Small
    CapNum = 1
    CapDen = 3
    MaxPuts = 2
    MaxCrashes = 1
    CloseReleases = TRUE
    Free = Free
    Orphan = Orphan
INVARIANTS LossBounded DeliveredInOrder NoneStranded
PROPERTIES TimeoutOnlyUnderContention
