---------------------------- MODULE UpipeEntities ----------------------------
(***************************************************************************)
(* The entities and messages that the node and its web page exchange       *)
(* (UpipeEntities.ts, generated from the Python types), as far as the      *)
(* page's models and components look at them.                              *)
(***************************************************************************)
EXTENDS Integers, Sequences

PipeExecutionStatus ==
    [INIT |-> 1, REGISTERED |-> 2, READY |-> 3, PAUSED |-> 4, RUNNING |-> 5,
     COMPLETED |-> 6, PENDING_TERMINATION |-> 7]

UPipeEntityType ==
    [PROCESSOR |-> 1, PROCESSOR_INSTANCE |-> 2, PROCESS |-> 3, PIPELINE |-> 4,
     PIPELINE_CONTROLLER |-> 5, SERVER |-> 6, NODE |-> 7, QUEUE |-> 8]

\* Of the types of message, those that travel between the page and the node.
UPipeMessageType ==
    [Q_UPDATE |-> 2, PIPE_CONTROL |-> 7, PIPE_STATUS |-> 8, NODE_STATUS |-> 12]

PipeActionType == [START |-> 1, RESTART |-> 2, PAUSE |-> 3, TERMINATE |-> 4]

Values(enum) == {enum[name] : name \in DOMAIN enum}

\* A processor and a queue of a definition; settings and entry are left out.
APIProcessor(id) == [id |-> id, type |-> UPipeEntityType.PROCESSOR]

APIQueue(from, to) == [from_p |-> from, to_p |-> to]

APIPipe(id, processors, queues) ==
    [id |-> id, type |-> UPipeEntityType.PIPELINE,
     processors |-> processors, queues |-> queues]

APIPipeControlMessage(pipe, action) ==
    [type |-> UPipeMessageType.PIPE_CONTROL, dest |-> pipe, action |-> action,
     scope |-> UPipeEntityType.PIPELINE]

APIPipeStatusMessage(status) ==
    [type |-> UPipeMessageType.PIPE_STATUS, status |-> status]

QUpdateMessage == [type |-> UPipeMessageType.Q_UPDATE]

\* The numbers of one tick of the node: the queues are told apart by the pipe
\* they belong to, and of a processor there are the counters of its instances.
NodePerformanceStats(tick, queues, processors) ==
    [tick |-> tick, queues_usage |-> queues, processors_usage |-> processors]

APINodeUsageMessage(stats) ==
    [type |-> UPipeMessageType.NODE_STATUS, stats |-> stats]

Undefined == 0

\* What a property lookup of the browser finds in a JSON array: no type.
JsonArray(messages) == [type |-> Undefined, items |-> messages]
=============================================================================
