----------------------------- MODULE PipeClient -----------------------------
(***************************************************************************)
(* The client's side of a pipe (pipe.py, client.py): load, start,          *)
(* wait_for_completion and terminate, against a node that runs the pipe.   *)
(*                                                                         *)
(* Two threads of the client run here: the one with the asyncio loop, and  *)
(* the one of the WebSocket, which sets the status and the futures.  A     *)
(* future that is set from another thread does not wake the loop from its  *)
(* select: as long as a baby sitter runs the loop never sleeps, after that *)
(* it may.  What the node does with a pipe is NodeLifecycle's subject;     *)
(* here it only takes messages and reports statuses.                       *)
(***************************************************************************)
EXTENDS Integers, Sequences, FiniteSets

CONSTANTS Callers,      \* tasks of the user code that call the pipe
          LaunchFails,  \* TRUE when the node may fail to launch the workers
          MaxStarts,    \* bound: calls of start
          MaxWaits,     \* bound: calls of wait_for_completion and terminate
          MayTerminate, \* TRUE when the user code may call terminate
          MaxLost       \* bound: replies to load_pipe that get lost

ASSUME ConstantsAssumption ==
    /\ LaunchFails \in BOOLEAN /\ MayTerminate \in BOOLEAN
    /\ MaxStarts \in Nat /\ MaxWaits \in Nat /\ MaxLost \in Nat

VARIABLES
    nodeStatus,  \* PipeController.status
    toNode,      \* actions on their way to the node
    toClient,    \* statuses on their way to the client
    connected,   \* NodeClient.connected: the WebSocket has been opened
    serving,     \* the node reads from it: its handler has not raised
    loaded,      \* Pipe.loaded
    status,      \* Pipe.status
    incoming,    \* the status the WebSocket thread is handling
    startFuture, completionFuture,
    done,        \* the futures that have a result
    sitters,     \* _baby_sitter tasks
    asleep,      \* the loop is in its select with nothing to wake it
    pc, waitsOn, \* where each caller is, and the future it waits for
    starts, waits, lost,
    begun        \* history: STARTs that made the node run the pipe

nodeVars == <<nodeStatus, toNode, toClient, connected, serving, begun>>
futureVars == <<startFuture, completionFuture, done>>
callVars == <<pc, waitsOn, starts, waits>>
vars == <<nodeVars, loaded, status, incoming, futureVars, sitters, asleep,
          callVars, lost>>

Nothing == "nothing"

Init ==
    /\ nodeStatus = Nothing
    /\ toNode = <<>> /\ toClient = <<>>
    /\ connected = FALSE /\ serving = FALSE /\ loaded = FALSE
    /\ status = "INIT" /\ incoming = Nothing
    /\ startFuture = 1 /\ completionFuture = 2 /\ done = {}
    /\ sitters = 0 /\ asleep = FALSE
    /\ pc = [c \in Callers |-> "idle"]
    /\ waitsOn = [c \in Callers |-> 0]
    /\ starts = 0 /\ waits = 0 /\ lost = 0 /\ begun = 0

NewFuture == IF startFuture > completionFuture THEN startFuture + 1
                                               ELSE completionFuture + 1

\* No task is in a stretch of code without await, or in the polling of connect.
LoopFree == ~asleep /\ \A c \in Callers : pc[c] \notin {"connecting", "sent"}

Goes(c, to) == pc' = [pc EXCEPT ![c] = to]
WaitsFor(c, future) == waitsOn' = [waitsOn EXCEPT ![c] = future]

-----------------------------------------------------------------------------
(* start *)

StartCall(c) ==
    /\ LoopFree
    /\ pc[c] = "idle"
    /\ starts < MaxStarts
    /\ starts' = starts + 1
    /\ Goes(c, IF loaded THEN "connecting" ELSE "loading")
    /\ UNCHANGED <<nodeVars, loaded, status, incoming, futureVars, sitters, asleep,
                   waitsOn, waits, lost>>

\* load_pipe has been answered; connect goes on to poll for the socket.
LoadPipe(c) ==
    /\ LoopFree
    /\ pc[c] = "loading"
    /\ nodeStatus = Nothing
    /\ nodeStatus' = "READY"
    /\ loaded' = TRUE
    /\ Goes(c, "connecting")
    /\ UNCHANGED <<toNode, toClient, connected, serving, begun, status, incoming, futureVars,
                   sitters, asleep, waitsOn, starts, waits, lost>>

\* The reply is lost, and each retry is told that the pipe exists already: in
\* the end load raises TimeoutError, now and whenever it is called again.
LoadPipeFails(c) ==
    /\ LoopFree
    /\ pc[c] = "loading"
    /\ \/ nodeStatus # Nothing /\ UNCHANGED <<nodeStatus, lost>>
       \/ /\ nodeStatus = Nothing /\ nodeStatus' = "READY"
          /\ lost < MaxLost /\ lost' = lost + 1
    /\ Goes(c, "idle")
    /\ UNCHANGED <<toNode, toClient, connected, serving, begun, loaded, status, incoming,
                   futureVars, sitters, asleep, waitsOn, starts, waits>>

\* connect_pipe accepts the socket and reports the status first.
Accept ==
    /\ ~connected
    /\ \E c \in Callers : pc[c] = "connecting"
    /\ connected' = TRUE /\ serving' = TRUE
    /\ toClient' = Append(toClient, nodeStatus)
    /\ UNCHANGED <<nodeStatus, toNode, begun, loaded, status, incoming, futureVars,
                   sitters, asleep, callVars, lost>>

\* What is sent to a node that reads no longer is lost.
Sends(action) == toNode' = IF serving THEN Append(toNode, action) ELSE toNode

\* load creates another _baby_sitter task, and start sends its message, which
\* raises once the client's socket has noticed that the node has closed it.
SendStart(c) ==
    /\ pc[c] = "connecting"
    /\ connected
    /\ sitters' = sitters + 1
    /\ \/ Sends("START") /\ Goes(c, "sent")
       \/ ~serving /\ Goes(c, "idle") /\ UNCHANGED toNode
    /\ UNCHANGED <<nodeStatus, toClient, connected, serving, begun, loaded, status, incoming,
                   futureVars, asleep, waitsOn, starts, waits, lost>>

\* Mistaken variant: one future for both.
NewFuturesShared == startFuture' = NewFuture /\ completionFuture' = NewFuture

NewFutures == startFuture' = NewFuture /\ completionFuture' = NewFuture + 1

\* Only then does it make the futures that the answer is to complete.
MakeFutures(c) ==
    /\ pc[c] = "sent"
    /\ NewFutures
    /\ Goes(c, "starting") /\ WaitsFor(c, startFuture')
    /\ UNCHANGED <<nodeVars, loaded, status, incoming, done, sitters, asleep,
                   starts, waits, lost>>

-----------------------------------------------------------------------------
(* wait_for_completion, terminate, and the loop *)

WaitCall(c) ==
    /\ LoopFree
    /\ pc[c] = "idle"
    /\ waits < MaxWaits /\ waits' = waits + 1
    /\ Goes(c, "waiting") /\ WaitsFor(c, completionFuture)
    /\ UNCHANGED <<nodeVars, loaded, status, incoming, futureVars, sitters, asleep,
                   starts, lost>>

TerminateCall(c) ==
    /\ LoopFree
    /\ MayTerminate
    /\ pc[c] = "idle"
    /\ waits < MaxWaits /\ waits' = waits + 1
    /\ Sends("TERMINATE")
    /\ completionFuture' = NewFuture
    /\ Goes(c, "waiting") /\ WaitsFor(c, NewFuture)
    /\ UNCHANGED <<nodeStatus, toClient, connected, serving, begun, loaded, status, incoming,
                   startFuture, done, sitters, asleep, starts, lost>>

Waiting(c) == pc[c] \in {"starting", "waiting"}

Return(c) ==
    /\ LoopFree
    /\ Waiting(c) /\ waitsOn[c] \in done
    /\ Goes(c, "idle")
    /\ UNCHANGED <<nodeVars, loaded, status, incoming, futureVars, sitters, asleep,
                   waitsOn, starts, waits, lost>>

\* Mistaken variant: a baby sitter goes as soon as the pipe is not running.
completedOrIdle == status # "RUNNING"

completed == status = "COMPLETED"

\* Until then a _baby_sitter takes frames from the sink and yields.
BabySitterEnds ==
    /\ LoopFree
    /\ sitters > 0
    /\ completed
    /\ sitters' = sitters - 1
    /\ UNCHANGED <<nodeVars, loaded, status, incoming, futureVars, asleep, callVars,
                   lost>>

\* No task is ready: select blocks until a descriptor or a timer is.
LoopSleeps ==
    /\ LoopFree
    /\ sitters = 0
    /\ \A c \in Callers : Waiting(c) /\ waitsOn[c] \notin done
    /\ asleep' = TRUE
    /\ UNCHANGED <<nodeVars, loaded, status, incoming, futureVars, sitters, callVars,
                   lost>>

\* Something else, an idle HTTP connection that times out, say, wakes it.
LoopWakes ==
    /\ asleep
    /\ asleep' = FALSE
    /\ UNCHANGED <<nodeVars, loaded, status, incoming, futureVars, sitters, callVars,
                   lost>>

-----------------------------------------------------------------------------
(* The WebSocket thread: _handle_pipelines_message *)

SetStatus ==
    /\ incoming = Nothing
    /\ toClient # <<>>
    /\ toClient' = Tail(toClient)
    /\ status' = Head(toClient)
    /\ incoming' = IF status' \in {"RUNNING", "COMPLETED"} THEN status' ELSE Nothing
    /\ UNCHANGED <<nodeStatus, toNode, connected, serving, begun, loaded, futureVars, sitters,
                   asleep, callVars, lost>>

\* Mistaken variant: either status completes both futures.
CompletedByAny == {startFuture, completionFuture}

\* Mistaken variant: every status completes the future of start.
CompletedByStart == {startFuture}

\* The future the status completes.
CompletedBy == {IF incoming = "RUNNING" THEN startFuture ELSE completionFuture}

\* A future that has its result already raises, and nothing else changes.
SetResult ==
    /\ incoming # Nothing
    /\ incoming' = Nothing
    /\ done' = done \cup CompletedBy
    /\ UNCHANGED <<nodeVars, loaded, status, startFuture, completionFuture, sitters,
                   asleep, callVars, lost>>

-----------------------------------------------------------------------------
(* The node: PipeController, as far as a client can tell *)

NodeUnchanged == UNCHANGED <<connected, loaded, status, incoming, futureVars, sitters,
                             asleep, callVars, lost>>

\* A send to a connection whose handler has raised raises too, in a task.
Report(s) ==
    /\ nodeStatus' = s
    /\ toClient' = IF serving THEN Append(toClient, s) ELSE toClient

\* A launch that fails raises through monitor: the socket is read no longer.
HandleStart ==
    /\ toNode # <<>> /\ Head(toNode) = "START"
    /\ \/ /\ toNode' = Tail(toNode)
          /\ Report("RUNNING") /\ begun' = begun + 1
          /\ UNCHANGED serving
       \/ /\ LaunchFails
          /\ serving' = FALSE /\ toNode' = <<>>
          /\ UNCHANGED <<nodeStatus, toClient, begun>>
    /\ NodeUnchanged

\* process_control_message does not know TERMINATE.
HandleTerminate ==
    /\ toNode # <<>> /\ Head(toNode) = "TERMINATE"
    /\ toNode' = Tail(toNode)
    /\ UNCHANGED <<nodeStatus, toClient, serving, begun>> /\ NodeUnchanged

Complete ==
    /\ nodeStatus = "RUNNING"
    /\ Report("COMPLETED")
    /\ UNCHANGED <<toNode, serving, begun>> /\ NodeUnchanged

CallStep(c) == \/ StartCall(c) \/ LoadPipe(c) \/ LoadPipeFails(c) \/ SendStart(c)
               \/ MakeFutures(c) \/ WaitCall(c) \/ TerminateCall(c) \/ Return(c)

Next ==
    \/ \E c \in Callers : CallStep(c)
    \/ Accept \/ BabySitterEnds \/ LoopSleeps \/ LoopWakes
    \/ SetStatus \/ SetResult
    \/ HandleStart \/ HandleTerminate \/ Complete

\* Both threads of the client and the node go on.  Nobody need call, no pipe
\* need end, and nothing else need wake the loop.
Fairness ==
    /\ \A c \in Callers : /\ WF_vars(LoadPipe(c)) /\ WF_vars(SendStart(c))
                          /\ WF_vars(MakeFutures(c)) /\ SF_vars(Return(c))
    /\ SF_vars(BabySitterEnds) /\ WF_vars(SetStatus) /\ WF_vars(SetResult)
    /\ WF_vars(Accept) /\ WF_vars(HandleStart) /\ WF_vars(HandleTerminate)

Spec == Init /\ [][Next]_vars
FairSpec == Spec /\ Fairness

-----------------------------------------------------------------------------
(* Properties *)

Statuses == {"READY", "RUNNING", "COMPLETED"}
Futures == 1..(2 + 2 * MaxStarts + MaxWaits)

\* Every variable stays within its type, and the two futures are two.
TypeOK ==
    /\ nodeStatus \in Statuses \cup {Nothing}
    /\ toNode \in Seq({"START", "TERMINATE"}) /\ toClient \in Seq(Statuses)
    /\ connected \in BOOLEAN /\ serving \in BOOLEAN /\ loaded \in BOOLEAN /\ asleep \in BOOLEAN
    /\ status \in Statuses \cup {"INIT"}
    /\ incoming \in {Nothing, "RUNNING", "COMPLETED"}
    /\ startFuture \in Futures /\ completionFuture \in Futures \ {startFuture}
    /\ done \subseteq Futures
    /\ sitters \in 0..MaxStarts
    /\ pc \in [Callers -> {"idle", "loading", "connecting", "sent", "starting", "waiting"}]
    /\ waitsOn \in [Callers -> Futures \cup {0}]
    /\ starts \in 0..MaxStarts /\ waits \in 0..MaxWaits /\ begun \in 0..starts
    /\ lost \in 0..MaxLost

Returns(c, call) == pc[c] = call /\ pc'[c] = "idle"

\* A pipe that is started again has a baby sitter that may end at once, on the
\* status of its first execution, and may take its late messages for new ones.
FirstExecution == starts = 1

\* start returns only when the node has run the pipe for it, be it the first start
\* or another one; in the first execution wait_for_completion and terminate return
\* only when the node runs the pipe no longer.
ReturnsTruly ==
    [][\A c \in Callers :
          /\ Returns(c, "starting") => begun = starts
          /\ Returns(c, "waiting") /\ FirstExecution => nodeStatus = "COMPLETED"]_vars

\* While the pipe is running in its first execution the loop does not sleep
\* through its messages.
AwakeWhileRunning == asleep /\ status = "RUNNING" => ~FirstExecution

OnItsWay(s) == s \in {toClient[k] : k \in DOMAIN toClient}

\* A first start that has its futures before the node's answer arrives returns.
\* In the first execution wait_for_completion returns once the node has reported
\* COMPLETED, unless the loop goes to sleep before its future has its result:
\* nothing in the client then wakes it.
CallsReturn ==
    \A c \in Callers :
        /\ (pc[c] = "starting" /\ OnItsWay("RUNNING") /\ FirstExecution)
              ~> pc[c] # "starting"
        /\ (pc[c] = "waiting" /\ OnItsWay("COMPLETED") /\ FirstExecution)
              ~> (pc[c] # "waiting" \/ asleep)
=============================================================================
