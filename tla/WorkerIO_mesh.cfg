SPECIFICATION FairSpec
CONSTANTS
    Workers <- MeshWorkers
    Queues <- MeshQueues
    InQs <- MeshIn
    OutQs <- MeshOut
    SinkQ <- MeshSink
    Remote = {"pipe_r"}
    Tagged = {"pipe"}
    Syncs = {"pipe"}
    Cap <- MeshCap
    Reserve = 1
    MaxVal = 2
    MaxLost = 1
INVARIANTS TypeOK RoundRobin IdsMatch
PROPERTIES NoneLeftOut OnceAlone Flow
