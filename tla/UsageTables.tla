----------------------------- MODULE UsageTables -----------------------------
(***************************************************************************)
(* How the counters of a processor and of its in queue come to the page:   *)
(* counted by the workers and the queue, sent by each worker's monitor     *)
(* thread (worker.py), kept and reported by the node (worker_controller,   *)
(* processor_controller, log_node_utilization), and shown in the tables of *)
(* queues, processors and instances (Processor.ts, Queue.ts,               *)
(* ProcessorsList.vue, QueuesList.vue).                                    *)
(*                                                                         *)
(* Every hop has its own thread or loop, and none waits for another.  When *)
(* the page listens at all is NodeView's subject; here it does.            *)
(***************************************************************************)
EXTENDS UpipeEntities, FiniteSetsExt

CONSTANTS Workers,     \* the workers of the processor
          MaxFrames,   \* bound: frames put into the queue
          MaxEmits     \* bound: emits of all workers, refused ones included

ASSUME ConstantsAssumption ==
    /\ IsFiniteSet(Workers)
    /\ MaxFrames \in Nat /\ MaxEmits \in Nat

VARIABLES
    alloc_counter, exe_counter,  \* of the queue, in shared memory
    place,                  \* of a worker: idle, got a frame, holds it, or ended
    received, processed,    \* the counters of each worker
    halfRead,               \* what the monitor thread has read so far
    instances, stats,       \* ProcessorController.instances, with their stats
    halfReport,             \* the allocation counter the node has read so far
    lastStats,              \* of the Processor object: None, or its instances' stats
    queueStats              \* of the Queue object

queueVars == <<alloc_counter, exe_counter>>
workerVars == <<place, received, processed, halfRead>>
nodeVars == <<instances, stats, halfReport>>
pageVars == <<lastStats, queueStats>>
vars == <<queueVars, workerVars, nodeVars, pageVars>>

NotRead == -1
None == {}

ProcessPerformanceStats(w, r, p) ==
    [pid |-> w, received_counter |-> r, processed_counter |-> p]

QueuePerformanceStats(alloc, exe) == [allocation_counter |-> alloc, exe_counter |-> exe]

DefaultQueuePerformanceStats == QueuePerformanceStats(0, 0)

Init ==
    /\ alloc_counter = 0 /\ exe_counter = 0
    /\ place = [w \in Workers |-> "idle"]
    /\ received = [w \in Workers |-> 0] /\ processed = [w \in Workers |-> 0]
    /\ halfRead = [w \in Workers |-> NotRead]
    /\ instances = Workers /\ stats = [w \in Workers |-> None]
    /\ halfReport = NotRead
    /\ lastStats = None /\ queueStats = DefaultQueuePerformanceStats

-----------------------------------------------------------------------------
(* The queue and the workers *)

put ==
    /\ alloc_counter < MaxFrames
    /\ alloc_counter' = alloc_counter + 1
    /\ UNCHANGED <<exe_counter, workerVars, nodeVars, pageVars>>

Goes(w, to) == place' = [place EXCEPT ![w] = to]

\* MemQueue.get counts the frame before Worker.get does.
Dequeue(w) ==
    /\ place[w] = "idle"
    /\ exe_counter < alloc_counter
    /\ exe_counter' = exe_counter + 1
    /\ Goes(w, "got")
    /\ UNCHANGED <<alloc_counter, received, processed, halfRead,
                   nodeVars, pageVars>>

CountReceived(w) ==
    /\ place[w] = "got"
    /\ received' = [received EXCEPT ![w] = @ + 1]
    /\ Goes(w, "holds")
    /\ UNCHANGED <<queueVars, processed, halfRead, nodeVars,
                   pageVars>>

\* Every emit of a worker with an out queue is counted, also one that is refused
\* and that the user code calls again.
emit(w) ==
    /\ place[w] = "holds"
    /\ MapThenSumSet(LAMBDA v : processed[v], Workers) < MaxEmits
    /\ processed' = [processed EXCEPT ![w] = @ + 1]
    /\ Goes(w, "idle") \/ UNCHANGED place
    /\ UNCHANGED <<queueVars, received, halfRead, nodeVars, pageVars>>

\* The process ends well, and its monitor thread with it.
End(w) ==
    /\ place[w] \in {"idle", "holds"}
    /\ Goes(w, "ended")
    /\ halfRead' = [halfRead EXCEPT ![w] = NotRead]
    /\ UNCHANGED <<queueVars, received, processed, nodeVars,
                   pageVars>>

\* get_stats of the monitor thread reads one counter after the other.
ReadReceived(w) ==
    /\ place[w] # "ended" /\ halfRead[w] = NotRead
    /\ halfRead' = [halfRead EXCEPT ![w] = received[w]]
    /\ UNCHANGED <<queueVars, place, received, processed, nodeVars,
                   pageVars>>

-----------------------------------------------------------------------------
(* The node *)

\* Mistaken variant: what is reported adds up.
KeptAdded(w, new) ==
    {ProcessPerformanceStats(w,
        new.received_counter + MapThenSumSet(LAMBDA old : old.received_counter, stats[w]),
        new.processed_counter)}

Kept(w, new) == {new}

\* The message is sent, and arrives at the node: what delays it delays the thread
\* here.  The socket outlives the place of the instance on the list.
update_stats(w) ==
    /\ halfReport = NotRead
    /\ halfRead[w] # NotRead
    /\ stats' = [stats EXCEPT ![w] =
                   Kept(w, ProcessPerformanceStats(w, halfRead[w], processed[w]))]
    /\ halfRead' = [halfRead EXCEPT ![w] = NotRead]
    /\ UNCHANGED <<queueVars, place, received, processed, instances, halfReport,
                   pageVars>>

\* The baby sitter takes an instance that ended well off the list.
remove_instance(w) ==
    /\ halfReport = NotRead
    /\ place[w] = "ended" /\ w \in instances
    /\ instances' = instances \ {w}
    /\ UNCHANGED <<queueVars, workerVars, stats, halfReport, pageVars>>

\* MemQueue.stats reads one counter after the other; meanwhile the workers run,
\* but no other handler of the node does.
queue_stats ==
    /\ halfReport = NotRead
    /\ halfReport' = alloc_counter
    /\ UNCHANGED <<queueVars, workerVars, instances, stats, pageVars>>

\* Mistaken variant: the queues are asked in the report before.
QueuesUsageBefore == QueuePerformanceStats(halfReport, queueStats.exe_counter)

QueuesUsage == QueuePerformanceStats(halfReport, exe_counter)

\* Mistaken variant: the instances that have nothing new to say are left out.
InstancesStatsNew == UNION {stats[w] : w \in instances} \ lastStats

\* ProcessorController.stats: an instance that has not reported is left out.
InstancesStats == UNION {stats[w] : w \in instances}

\* updateStats of the Processor and of the Queue.
processorUpdateStats(s) == lastStats' = s
queueUpdateStats(s) == queueStats' = s

onUsageStats(u) ==
    queueUpdateStats(u.queues_usage) /\ processorUpdateStats(u.processors_usage)

\* The report is sent to the page, which listens: what delays it is left out.
log_node_utilization ==
    /\ halfReport # NotRead
    /\ onUsageStats(APINodeUsageMessage(
           NodePerformanceStats(0, QueuesUsage, InstancesStats)).stats)
    /\ halfReport' = NotRead
    /\ UNCHANGED <<queueVars, workerVars, instances, stats>>

-----------------------------------------------------------------------------
(* The page *)

\* A fetch of the pipes makes new Processor objects, one of the queues new Queues.
fetch ==
    /\ \/ lastStats' = None /\ UNCHANGED queueStats
       \/ queueStats' = DefaultQueuePerformanceStats /\ UNCHANGED lastStats
    /\ UNCHANGED <<queueVars, workerVars, nodeVars>>

\* ProcessorStats sums up the instances.
ProcessorStats(of) ==
    [received_counter |-> MapThenSumSet(LAMBDA i : i.received_counter, of),
     processed_counter |-> MapThenSumSet(LAMBDA i : i.processed_counter, of)]

\* The rows of the instances table once the processor is the active one.
Instances == lastStats

processorsColumns ==
    [intancesCount |-> Cardinality(lastStats),
     received |-> ProcessorStats(lastStats).received_counter,
     processed |-> ProcessorStats(lastStats).processed_counter]

\* The two columns show each other's counter.
instancesColumns ==
    {[pid |-> i.pid, received |-> i.processed_counter, processed |-> i.received_counter] :
        i \in Instances}

\* The columns Enqueues and Dequeues of the queues table.
columns == [enqueues |-> queueStats.allocation_counter,
            dequeues |-> queueStats.exe_counter]

-----------------------------------------------------------------------------
WorkerStep(w) == Dequeue(w) \/ CountReceived(w) \/ emit(w)
ThreadStep(w) == ReadReceived(w) \/ update_stats(w)
ReportStep == queue_stats \/ log_node_utilization

Next ==
    \/ put \/ \E w \in Workers : WorkerStep(w) \/ End(w)
    \/ \E w \in Workers : ThreadStep(w) \/ remove_instance(w)
    \/ ReportStep \/ fetch

Spec == Init /\ [][Next]_vars

\* Monitor threads send once a second, the node receives and reports, the page
\* receives.  No frame need come, no worker need go on.  The node's loop gives
\* every handler its turn between two reports: strong fairness.
Fairness ==
    /\ \A w \in Workers : SF_vars(ThreadStep(w))
    /\ WF_vars(ReportStep)

FairSpec == Spec /\ Fairness

-----------------------------------------------------------------------------
(* Properties *)

\* Nothing the page shows exceeds what has been counted by then, in the queue,
\* by all workers of the processor, or by one of them.
NeverOverstated ==
    LET Total(counter) == MapThenSumSet(LAMBDA w : counter[w], Workers)
    IN  /\ columns.enqueues <= alloc_counter /\ columns.dequeues <= exe_counter
        /\ processorsColumns.received <= Total(received)
        /\ processorsColumns.processed <= Total(processed)
        /\ \A row \in instancesColumns :
              row.processed <= received[row.pid] /\ row.received <= processed[row.pid]

\* The tables never show more frames received by a processor than its queue has
\* handed out, although the numbers come from different processes at different
\* times; unless the queues have been fetched and not reported since.
ReceivedWereDequeued ==
    queueStats # DefaultQueuePerformanceStats =>
        processorsColumns.received <= columns.dequeues

\* As long as no frame comes and nobody handles one, what is shown is what is.
Quiet == exe_counter = alloc_counter /\ \A w \in Workers : place[w] = "idle"
Exact ==
    /\ columns.enqueues = alloc_counter /\ columns.dequeues = exe_counter
    /\ lastStats = {ProcessPerformanceStats(w, received[w], processed[w]) : w \in Workers}

\* When the pipe comes to rest, the tables come to show the exact counters.
Settles == Quiet ~> (Exact \/ ~Quiet)
=============================================================================
