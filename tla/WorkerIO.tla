------------------------------ MODULE WorkerIO ------------------------------
(***************************************************************************)
(* Worker.get and Worker.emit (worker.py): the workers of a pipe, passing  *)
(* data frames on through the queues between them.                         *)
(*                                                                         *)
(* The queues are taken as FrameQueue promises them, one step a call:      *)
(* MemQueue shows that they keep to it.  get and emit await between one    *)
(* queue and the next, so each queue they turn to is a step of its own.    *)
(***************************************************************************)
EXTENDS Integers, Sequences, FiniteSets, SequencesExt

CONSTANTS Workers,     \* worker processes; instances of a processor share queues
          Queues,
          InQs,        \* worker -> in_qs, in the order of the Q_UPDATE message
          OutQs,       \* worker -> out_qs
          SinkQ,       \* worker -> its sink_q, <<>> or <<queue>>
          Remote,      \* the queues with a host: put_q posts to its node
          Tagged,      \* the sources whose frames carry a pipe execution id
          Syncs,       \* the workers that call emit_sync instead of emit
          Cap,         \* queue -> frames above which put refuses
          Reserve,     \* frames that still fit in a queue that refuses
          MaxVal,      \* bound: frames each source emits
          MaxLost      \* bound: requests or replies of put_q that get lost

Sources == {w \in Workers : InQs[w] = <<>>}
NoId == <<>>
Frame == [src : Sources, val : 1..MaxVal, id : {NoId} \cup (Tagged \X (1..MaxVal))]

ASSUME QueuesAssumption ==
    /\ InQs \in [Workers -> Seq(Queues)]
    /\ OutQs \in [Workers -> Seq(Queues)]
    /\ SinkQ \in [Workers -> Seq(Queues)]
ASSUME TopologyAssumption ==
    /\ \A w \in Sources : OutQs[w] # <<>> \/ SinkQ[w] # <<>>
    /\ \A w \in Workers : /\ IsInjective(InQs[w]) /\ IsInjective(OutQs[w])
                          /\ ToSet(InQs[w]) \cap ToSet(OutQs[w]) = {}
                          /\ SinkQ[w] # <<>> => OutQs[w] = <<>>
                          /\ Len(SinkQ[w]) <= 1
    /\ Remote \subseteq Queues /\ Tagged \subseteq Sources /\ Syncs \subseteq Workers
    /\ \A w \in Syncs : OutQs[w] # <<>>
ASSUME BoundsAssumption ==
    /\ Cap \in [Queues -> Nat \ {0}] /\ Reserve \in Nat
    /\ MaxVal \in Nat \ {0} /\ MaxLost \in Nat

VARIABLES
    queue,      \* the frames in each queue
    pc,         \* "idle", "get", "wait" (emit_sync), "emit" or "done"
    pos,        \* the queue of its loop that get or emit turns to
    nextIndex,  \* consumer_next_q_index, modulo the number of queues
    exeId,      \* current_pipe_execution_id
    data,       \* the data the user code has in hand, to be emitted
    awaited,    \* executing_frames: the ids whose future has no result yet
    reader,     \* the client's _baby_sitter: "up", "raised" or "returned"
    lost,       \* requests or replies of put_q lost so far
    entered,    \* history: the last value of each source that entered each queue
    passed      \* history: how often each in queue was passed over in a row

workVars == <<pc, pos, nextIndex, exeId, data>>
clientVars == <<awaited, reader>>
vars == <<queue, workVars, clientVars, lost, entered, passed>>

\* A queue the emit loop goes through: out_qs, or the sink if there is none.
Outs(w) == IF OutQs[w] # <<>> THEN OutQs[w] ELSE SinkQ[w]

\* A queue is named for the processors at its ends (pipe.py, load), so the
\* workers that feed it are all sources or none of them is.
ASSUME FeedersAssumption ==
    \A s \in Sources, w \in Workers \ Sources : ToSet(OutQs[s]) \cap ToSet(Outs(w)) = {}

SinkQueues == UNION {ToSet(SinkQ[w]) : w \in Workers}

-----------------------------------------------------------------------------
Datum(s, v) == [src |-> s, val |-> v]

Init ==
    /\ queue = [q \in Queues |-> <<>>]
    /\ pc = [w \in Workers |-> "idle"]
    /\ pos = [w \in Workers |-> 1]
    /\ nextIndex = [w \in Workers |-> 0]
    /\ exeId = [w \in Workers |-> NoId]
    /\ data = [w \in Workers |-> Datum(w, 1)]
    /\ awaited = {} /\ reader = "up"
    /\ lost = 0
    /\ entered = [q \in Queues |-> [s \in Sources |-> 0]]
    /\ passed = [w \in Workers |-> [q \in ToSet(InQs[w]) |-> 0]]

Goes(w, to) == pc' = [pc EXCEPT ![w] = to]
At(w, k) == pos' = [pos EXCEPT ![w] = k]

-----------------------------------------------------------------------------
(* get *)

GetCall(w) ==
    /\ pc[w] = "idle"
    /\ w \notin Sources
    /\ Goes(w, "get") /\ At(w, 0)
    /\ UNCHANGED <<queue, nextIndex, exeId, data, clientVars, lost, entered, passed>>

\* Mistaken variant: the scan always starts at the first queue.
InQFirst(w) == InQs[w][1]

\* (consumer_next_q_index + i) % len(in_qs)
InQ(w) == InQs[w][((nextIndex[w] + pos[w]) % Len(InQs[w])) + 1]

\* Mistaken variant: the index is not moved on.
AdvanceIndexNever(w) == UNCHANGED nextIndex

AdvanceIndex(w) == nextIndex' = [nextIndex EXCEPT ![w] = (@ + 1) % Len(InQs[w])]

\* Mistaken variant: a frame without an id leaves the old one in place.
FrameIdKept(w, f) == IF f.id = NoId THEN exeId[w] ELSE f.id

FrameId(w, f) == f.id

PassedOver(w) ==
    passed' = [passed EXCEPT ![w] = [q \in ToSet(InQs[w]) |->
                  IF q = InQ(w) \/ queue[q] = <<>> THEN 0 ELSE @[q] + 1]]

\* The user code works on the data and emits it, where there is a way on.
GetFrame(w) ==
    /\ pc[w] = "get"
    /\ queue[InQ(w)] # <<>>
    /\ LET f == Head(queue[InQ(w)])
       IN  /\ queue' = [queue EXCEPT ![InQ(w)] = Tail(@)]
           /\ exeId' = [exeId EXCEPT ![w] = FrameId(w, f)]
           /\ IF Outs(w) = <<>> THEN Goes(w, "idle") /\ UNCHANGED data
              ELSE /\ Goes(w, IF w \in Syncs THEN "wait" ELSE "emit")
                   /\ data' = [data EXCEPT ![w] = Datum(f.src, f.val)]
    /\ AdvanceIndex(w) /\ PassedOver(w) /\ At(w, 1)
    /\ UNCHANGED <<clientVars, lost, entered>>

\* After the last queue get returns None, and the user code calls it again.
GetEmpty(w) ==
    /\ pc[w] = "get"
    /\ queue[InQ(w)] = <<>>
    /\ IF pos[w] + 1 < Len(InQs[w]) THEN At(w, pos[w] + 1) /\ UNCHANGED pc
                                    ELSE Goes(w, "idle") /\ At(w, 1)
    /\ UNCHANGED <<queue, nextIndex, exeId, data, clientVars, lost, entered, passed>>

-----------------------------------------------------------------------------
(* emit and emit_sync *)

\* emit_sync of a Pipe begins with a new future for the id of the frame, also
\* when the same frame is emitted again; emit registers nothing.
Registers(w) ==
    awaited' = IF w \in Tagged \cap Syncs THEN awaited \cup {<<w, data[w].val>>} ELSE awaited

\* A source emits its next value.
EmitCall(w) ==
    /\ pc[w] = "idle"
    /\ w \in Sources
    /\ Goes(w, IF w \in Syncs THEN "wait" ELSE "emit") /\ At(w, 1)
    /\ Registers(w)
    /\ UNCHANGED <<queue, nextIndex, exeId, data, reader, lost, entered, passed>>

\* emit_sync polls space_available of the first queue, and then emits.
\* space_available knows nothing of MAX_CAPACITY, nor of a remote ring.
SpaceAvailable(q) == q \in Remote \/ Len(queue[q]) < Cap[q] + Reserve

EmitSyncGoes(w) ==
    /\ pc[w] = "wait"
    /\ SpaceAvailable(OutQs[w][1])
    /\ Goes(w, "emit")
    /\ UNCHANGED <<queue, pos, nextIndex, exeId, data, clientVars, lost, entered, passed>>

\* The frame emit makes of the data.  A Pipe gives it an id of its own, which it
\* keeps when it is emitted again.
Framed(w) ==
    [src |-> data[w].src, val |-> data[w].val,
     id |-> IF w \in Tagged THEN <<w, data[w].val>> ELSE exeId[w]]

\* Mistaken variant: put accepts whatever comes.
AcceptsAlways(q) == TRUE

Accepts(q) == Len(queue[q]) < Cap[q]

Enters(q, f) ==
    /\ queue' = [queue EXCEPT ![q] = Append(@, f)]
    /\ entered' = [entered EXCEPT ![q][f.src] = f.val]

\* Mistaken variant: emit forgets to return its success.
ReturnsNothing(w, ok) == Goes(w, "idle") /\ UNCHANGED <<data, awaited>>

\* emit returns ok.  A caller that gets False emits the same data again.  After a
\* success emit_sync of a Pipe still waits for the result or for its timeout, which
\* may come at any time, and its caller goes on.
Returns(w, ok) ==
    IF ~ok THEN /\ Goes(w, IF w \in Syncs THEN "wait" ELSE "emit")
                /\ Registers(w) /\ UNCHANGED data
    ELSE /\ UNCHANGED awaited
         /\ IF w \notin Sources THEN Goes(w, "idle") /\ UNCHANGED data
            ELSE IF data[w].val = MaxVal THEN Goes(w, "done") /\ UNCHANGED data
            ELSE Goes(w, "idle") /\ data' = [data EXCEPT ![w] = Datum(w, @.val + 1)]

\* After the last queue emit returns its success.
Added(w) ==
    IF pos[w] < Len(Outs(w)) THEN At(w, pos[w] + 1) /\ UNCHANGED <<pc, data, awaited>>
                             ELSE At(w, 1) /\ Returns(w, TRUE)

\* Mistaken variant: the other queues are tried although one has refused.
NotAddedGoesOn(w) == Added(w)

\* success and await ...: no other queue is tried once one has refused.
NotAdded(w) == At(w, 1) /\ Returns(w, FALSE)

EmitAccepted(w) ==
    /\ pc[w] = "emit"
    /\ Accepts(Outs(w)[pos[w]])
    /\ Enters(Outs(w)[pos[w]], Framed(w))
    /\ Added(w)
    /\ UNCHANGED <<nextIndex, exeId, reader, lost, passed>>

EmitRefused(w) ==
    /\ pc[w] = "emit"
    /\ ~Accepts(Outs(w)[pos[w]])
    /\ NotAdded(w)
    /\ UNCHANGED <<queue, nextIndex, exeId, reader, lost, entered, passed>>

\* put_q takes a disconnected server for a refusal, whether or not the frame
\* had been put into the queue.
EmitLost(w) ==
    /\ pc[w] = "emit"
    /\ lost < MaxLost /\ lost' = lost + 1
    /\ LET q == Outs(w)[pos[w]]
       IN  /\ q \in Remote
           /\ \/ UNCHANGED <<queue, entered>>
              \/ Accepts(q) /\ Enters(q, Framed(w))
    /\ NotAdded(w)
    /\ UNCHANGED <<nextIndex, exeId, reader, passed>>

\* The client's reader takes what the last workers emit.  A frame without an id is
\* dropped; one with an id has its future's result set.  When there is no future
\* (a frame of Pipe.emit), or it has its result already (a frame that came again),
\* the task raises and ends.
SinkGet(q) ==
    /\ q \in SinkQueues
    /\ reader = "up"
    /\ queue[q] # <<>>
    /\ queue' = [queue EXCEPT ![q] = Tail(@)]
    /\ LET id == Head(queue[q]).id
       IN  /\ awaited' = awaited \ {id}
           /\ reader' = IF id \in awaited \cup {NoId} THEN "up" ELSE "raised"
    /\ UNCHANGED <<workVars, lost, entered, passed>>

\* The reader finds the pipe COMPLETED and returns.  The workers of the pipe need
\* not all have ended by then, but one of them has.
SinkReturns ==
    /\ reader = "up" /\ reader' = "returned"
    /\ \E w \in Workers \ Tagged : pc[w] = "done"
    /\ UNCHANGED <<queue, workVars, awaited, lost, entered, passed>>

Step(w) == \/ GetCall(w) \/ GetFrame(w) \/ GetEmpty(w) \/ EmitCall(w)
           \/ EmitSyncGoes(w) \/ EmitAccepted(w) \/ EmitRefused(w) \/ EmitLost(w)

Next == (\E w \in Workers : Step(w)) \/ (\E q \in Queues : SinkGet(q)) \/ SinkReturns

\* Every worker process runs on, and the client's reader while it is up.
Fairness == /\ \A w \in Workers : WF_vars(Step(w))
            /\ \A q \in Queues : WF_vars(SinkGet(q))

Spec == Init /\ [][Next]_vars
FairSpec == Spec /\ Fairness

-----------------------------------------------------------------------------
(* Properties *)

\* Every variable stays within its type, no queue takes more than put allows,
\* and no worker turns to a queue that it does not have.
TypeOK ==
    /\ \A q \in Queues : ToSet(queue[q]) \subseteq Frame /\ Len(queue[q]) <= Cap[q]
    /\ pc \in [Workers -> {"idle", "get", "wait", "emit", "done"}]
    /\ \A w \in Workers :
         /\ pc[w] = "get" => pos[w] \in 0..(Len(InQs[w]) - 1)
         /\ pc[w] = "emit" => pos[w] \in 1..Len(Outs(w))
         /\ nextIndex[w] = 0 \/ nextIndex[w] < Len(InQs[w])
         /\ data[w].val \in 1..MaxVal
    /\ exeId \in [Workers -> {NoId} \cup (Tagged \X (1..MaxVal))]
    /\ awaited \subseteq Tagged \X (1..MaxVal)
    /\ reader \in {"up", "raised", "returned"}
    /\ lost \in 0..MaxLost
    /\ entered \in [Queues -> [Sources -> 0..MaxVal]]

Arrives(q, f) == queue'[q] = Append(queue[q], f)

\* Whatever one of several queues refuses and whatever replies get lost, every
\* queue is given all frames of a source in order: a frame may come again
\* before the next one comes, but none is left out and none comes late.
NoneLeftOut ==
    [][\A q \in Queues, f \in Frame :
          Arrives(q, f) => f.val \in {entered[q][f.src], entered[q][f.src] + 1}]_vars

\* The sources whose frames worker w emits, when queue q carries those of carried[q].
Brings(carried, w) == ({w} \cap Sources) \cup UNION {carried[q] : q \in ToSet(InQs[w])}

\* The frames of a source have one way to each queue that carries them: no two
\* instances of a processor share their queues, and no two ways meet again.
OneWay(carried) ==
    /\ carried \in [Queues -> SUBSET Sources]
    /\ \A w \in Workers : \A q \in ToSet(Outs(w)) : Brings(carried, w) \subseteq carried[q]
    /\ \A w \in Workers : ToSet(InQs[w]) \cap SinkQueues = {}
    /\ \A w \in Workers : \A q, r \in ToSet(InQs[w]) :
          q # r => carried[q] \cap carried[r] = {}
    /\ \A w, x \in Workers : w # x =>
          /\ ToSet(InQs[w]) \cap ToSet(InQs[x]) = {}
          /\ ToSet(Outs(w)) \cap ToSet(Outs(x)) # {}
                => Brings(carried, w) \cap Brings(carried, x) = {}

FeedsAlone(s, q) == OutQs[s] = <<q>> /\ q \notin Remote

\* A source with one local queue puts every frame into it once.
OnceAlone ==
    [][\A s \in Sources, q \in Queues, f \in Frame :
          FeedsAlone(s, q) /\ Arrives(q, f) /\ f.src = s
              => f.val = entered[q][s] + 1]_vars

\* Every queue is given every frame of a source once.
EachOnce ==
    [][\A q \in Queues, f \in Frame :
          Arrives(q, f) => f.val = entered[q][f.src] + 1]_vars

\* Round robin: a queue that holds a frame is passed over by get at most as
\* often in a row as the worker has queues.
RoundRobin ==
    \A w \in Workers : \A q \in ToSet(InQs[w]) : passed[w][q] <= Len(InQs[w])

\* A frame carries the execution id of the frame it was made from, also where
\* frames with and without an id meet.
IdsMatch ==
    \A q \in Queues : \A f \in ToSet(queue[q]) :
        f.id = IF f.src \in Tagged THEN <<f.src, f.val>> ELSE NoId

\* The last value of source s that has come to worker w.
Latest(w, s) == IF w = s THEN {MaxVal} ELSE {entered[q][s] : q \in ToSet(InQs[w])}

\* Nobody reads the sink any more, and it is full.
SinkBlocked == reader # "up" /\ \E q \in SinkQueues : ~Accepts(q)

\* Back pressure blocks nobody for ever as long as the client reads the sink: when
\* all frames of a source have come to a worker that retries, they all get into
\* each of its out queues, unless the reader has raised or returned and the sink
\* is full.
Flow ==
    \A w \in Workers, s \in Sources : \A q \in ToSet(Outs(w)) :
        MaxVal \in Latest(w, s) ~> entered[q][s] = MaxVal \/ SinkBlocked
=============================================================================
