SPECIFICATION Spec
CONSTANTS
    Workers <- ForkWorkers
    Queues <- ForkQueues
    InQs <- ForkIn
    OutQs <- ForkOut
    SinkQ <- ForkSink
    Remote = {}
    Tagged = {}
    Syncs = {}
    Cap <- ForkCap
    Reserve = 1
    MaxVal = 3
    MaxLost = 0
PROPERTIES EachOnce
