SPECIFICATION FairSpec
CONSTANTS
    c1 = c1
    c2 = c2
    Clients <- TwoClients
    MaxWorkers = 1
    Functions <- OneFunction
CHECK_DEADLOCK FALSE
INVARIANTS Tracked SessionKnown
PROPERTIES EarlierEnd
