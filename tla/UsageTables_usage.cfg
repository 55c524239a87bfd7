SPECIFICATION FairSpec
CONSTANTS
    w1 = w1
    w2 = w2
    Workers <- TwoWorkers
    MaxFrames = 2
    MaxEmits = 2
INVARIANTS NeverOverstated ReceivedWereDequeued
PROPERTIES Settles
CHECK_DEADLOCK FALSE
