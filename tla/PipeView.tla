------------------------------ MODULE PipeView ------------------------------
(***************************************************************************)
(* The web page as viewer and controller of pipes (Index.vue, PipeView.vue,*)
(* Pipe.ts, the pipes store), and the side of the node its sockets reach   *)
(* (connect_pipe, _sync_status).                                           *)
(*                                                                         *)
(* The store holds one Pipe object for each pipe, and each fetch of the    *)
(* list replaces all of them.  An object remembers its last socket only,   *)
(* while every socket it made calls it back.  What the node does to run a  *)
(* pipe is NodeLifecycle's subject.                                        *)
(***************************************************************************)
EXTENDS PipeGraph

CONSTANTS Pipes,        \* ids of the pipes the node has loaded
          NoPipe,       \* the empty id: no pipe is selected
          GraphOf,      \* the children relation each pipe was built with
          LaunchFails,  \* TRUE when the node may fail to launch the workers
          MaxFetches,   \* bound: fetches of the list of pipes
          MaxSockets,   \* bound: sockets the page makes
          MaxChoices,   \* bound: selections, Clears and fetches
          MaxClicks     \* bound: clicks on Run

ASSUME ConstantsAssumption ==
    /\ NoPipe \notin Pipes
    /\ LaunchFails \in BOOLEAN
    /\ MaxFetches \in Nat \ {0} /\ MaxSockets \in Nat
    /\ MaxChoices \in Nat /\ MaxClicks \in Nat

Sockets == 1..MaxSockets
Objects == [pipe : Pipes, fetch : 1..MaxFetches]

VARIABLES
    \* the page
    fetched,       \* the fetch whose objects the store holds
    selectedPipeId,
    nodeShown,     \* the NodeView is mounted
    drawn,         \* the pipes whose trees have been appended to #pv
    connected, socket, status,  \* of each object: the fields of Pipe
    choices, clicks,
    \* the sockets
    owner,         \* the object that made each socket, in order
    readyState,    \* of a socket, at the page
    up,            \* messages on their way to the node
    \* the node
    side,          \* of a socket: none, live, gone (closed by the page),
                   \*   failed (its handler has raised), left
    connections,   \* PipeController.connections
    nodeStatus,    \* PipeController.status
    tasks,         \* set_pipe_status tasks, in the order of their creation
    \* history
    told,          \* the last status written to a live socket
    upset,         \* pipes with a broadcast that raised, skipped or overlapped
    cleared        \* Clear has been pressed

choiceVars == <<selectedPipeId, nodeShown, drawn, choices, cleared>>
objectVars == <<connected, socket, status>>
pageVars == <<fetched, choiceVars, objectVars, clicks>>
socketVars == <<owner, readyState, up>>
nodeVars == <<side, connections, nodeStatus, tasks, told, upset>>
vars == <<pageVars, socketVars, nodeVars>>

NoStatus == -1
NotBegun == -1

Init ==
    /\ fetched = 1
    /\ selectedPipeId = NoPipe /\ nodeShown = FALSE /\ drawn = <<>>
    /\ connected = [o \in Objects |-> FALSE]
    /\ socket = [o \in Objects |-> 0]
    /\ status = [o \in Objects |-> NoStatus]
    /\ choices = 0 /\ clicks = 0
    /\ owner = <<>>
    /\ readyState = [k \in Sockets |-> "none"]
    /\ up = [k \in Sockets |-> <<>>]
    /\ side = [k \in Sockets |-> "none"]
    /\ connections = [p \in Pipes |-> <<>>]
    /\ nodeStatus = [p \in Pipes |-> PipeExecutionStatus.READY]
    /\ tasks = [p \in Pipes |-> <<>>]
    /\ told = [k \in Sockets |-> NoStatus]
    /\ upset = {} /\ cleared = FALSE

-----------------------------------------------------------------------------
(* Pipe.ts *)

used == Len(owner)

\* pipes/byId
Object(p) == [pipe |-> p, fetch |-> fetched]
pipeDef(p) == pipe_def(GraphOf[p], p)

\* connect makes a socket and forgets, but does not close, the one before: n
\* calls in a row.  The address of the socket is made of the id of the pipe.
connect(o, n) ==
    /\ used + n <= MaxSockets
    /\ owner' = owner \o [i \in 1..n |-> o]
    /\ socket' = IF n = 0 THEN socket ELSE [socket EXCEPT ![o] = used + n]

\* Mistaken variant: the pipe that has just been connected is disconnected.
ReadyStatesSwapped(closing, n) ==
    readyState' = [k \in Sockets |->
        IF k = used + n /\ n > 0 /\ closing # {} THEN "closing"
        ELSE IF k \in used + 1 .. used + n THEN "connecting" ELSE readyState[k]]

\* What becomes of the sockets when the objects of closing disconnect and the
\* next n sockets are made.  close does nothing to a socket that is closed.
ReadyStates(closing, n) ==
    readyState' = [k \in Sockets |->
        IF k \in used + 1 .. used + n THEN "connecting"
        ELSE IF /\ \E o \in closing : socket[o] = k
                /\ readyState[k] \in {"connecting", "open"}
             THEN "closing" ELSE readyState[k]]

running(o) == status[o] = PipeExecutionStatus.RUNNING

\* onMessage looks at the type of what has been parsed.
onMessage(o, m) ==
    status' = IF m.type = UPipeMessageType.PIPE_STATUS
              THEN [status EXCEPT ![o] = m.status] ELSE status

\* The node sends every message in an array.  A page whose socket is open has it
\* at once: nothing but the status that is shown depends on the delay.
FirstMessage(s) == JsonArray(<<APIPipeStatusMessage(s), QUpdateMessage>>)
StatusMessage(s) == JsonArray(<<APIPipeStatusMessage(s)>>)

\* Mistaken variant: connected tells that connect was called.
ConnectedStays(k) == UNCHANGED connected

OnOpen(k) == connected' = [connected EXCEPT ![owner[k]] = TRUE]
OnClose(k) == connected' = [connected EXCEPT ![owner[k]] = FALSE]

\* What the node has sent by now is the first message, or one after it.
Opened(k) ==
    /\ readyState[k] = "connecting"
    /\ side[k] # "none"
    /\ readyState' = [readyState EXCEPT ![k] = "open"]
    /\ OnOpen(k)
    /\ onMessage(owner[k], FirstMessage(told[k]))
    /\ UNCHANGED <<fetched, choiceVars, socket, clicks, owner, up, nodeVars>>

\* A socket whose handler has failed is closed by the node.
Closed(k) ==
    /\ \/ readyState[k] = "closing"
       \/ readyState[k] = "open" /\ side[k] = "failed"
    /\ readyState' = [readyState EXCEPT ![k] = "closed"]
    /\ OnClose(k)
    /\ UNCHANGED <<fetched, choiceVars, socket, status, clicks, owner, up, nodeVars>>

-----------------------------------------------------------------------------
(* Index.vue and PipeView.vue.  The watchers run before any other event.   *)

Mounted == nodeShown /\ selectedPipeId # NoPipe
Shown == Object(selectedPipeId)

Chooses == choices < MaxChoices /\ choices' = choices + 1

\* The objects that the watcher of pipe disconnects.
Disconnects(new, old) == {old}

\* selectPipe connects the object unless it is connected.  In a mounted view
\* the watcher of pipeId then renders the pipe, which connects it too, and so
\* does the watcher of pipe, after it has disconnected the one before.
selectPipe(p) ==
    LET new == Object(p)
        changed == Mounted /\ p # selectedPipeId
        n == (IF connected[new] THEN 0 ELSE 1) + (IF changed THEN 2 ELSE 0)
    IN  /\ Chooses
        /\ selectedPipeId' = p
        /\ connect(new, n)
        /\ ReadyStates(IF changed THEN Disconnects(new, Shown) ELSE {}, n)
        /\ drawn' = IF changed THEN Append(drawn, p) ELSE drawn
        /\ UNCHANGED <<fetched, nodeShown, cleared, connected, status, clicks, up,
                       nodeVars>>

\* The view is unmounted with its drawings; nothing disconnects.
Clear ==
    /\ Chooses
    /\ selectedPipeId # NoPipe
    /\ selectedPipeId' = NoPipe
    /\ drawn' = <<>> /\ cleared' = TRUE
    /\ UNCHANGED <<fetched, nodeShown, objectVars, clicks, socketVars, nodeVars>>

\* Mounts the view when a pipe is selected: no watcher runs for that.
selectNode ==
    /\ Chooses
    /\ ~nodeShown
    /\ nodeShown' = TRUE
    /\ UNCHANGED <<fetched, selectedPipeId, drawn, cleared, objectVars, clicks,
                   socketVars, nodeVars>>

\* fetchPipes has its answer: new objects for the same pipes.
setPipes ==
    LET new == [pipe |-> selectedPipeId, fetch |-> fetched + 1]
        n == IF Mounted THEN 1 ELSE 0
    IN  /\ Chooses
        /\ fetched < MaxFetches
        /\ fetched' = fetched + 1
        /\ connect(new, n)
        /\ ReadyStates(IF Mounted THEN Disconnects(new, Shown) ELSE {}, n)
        /\ UNCHANGED <<selectedPipeId, nodeShown, drawn, cleared, connected, status,
                       clicks, up, nodeVars>>

RunDisabled(o) == status[o] = PipeExecutionStatus.INIT

\* A socket that is connecting throws, a closed one drops the message.
toggleRun ==
    LET o == Shown
        k == socket[o]
        action == IF running(o) THEN PipeActionType.PAUSE ELSE PipeActionType.START
    IN  /\ Mounted /\ ~RunDisabled(o)
        /\ k # 0 /\ readyState[k] = "open"
        /\ clicks < MaxClicks /\ clicks' = clicks + 1
        /\ up' = [up EXCEPT ![k] =
                    Append(@, APIPipeControlMessage(o.pipe, action))]
        /\ UNCHANGED <<fetched, choiceVars, objectVars, owner, readyState,
                       nodeVars>>

statusLine(s) ==
    CASE s = PipeExecutionStatus.INIT -> "init"
      [] s = PipeExecutionStatus.REGISTERED -> "registered"
      [] s = PipeExecutionStatus.READY -> "ready"
      [] s = PipeExecutionStatus.PAUSED -> "paused"
      [] s = PipeExecutionStatus.RUNNING -> "running"
      [] s = PipeExecutionStatus.COMPLETED -> "completed"
      [] OTHER -> "NA"

\* What the page shows of the selected pipe, and on its button.
PageShows ==
    [status |-> statusLine(status[Shown]),
     icon |-> IF connected[Shown] THEN "network-wired" ELSE "exclamation-circle",
     button |-> IF running(Shown) THEN "pause" ELSE "play",
     disabled |-> RunDisabled(Shown)]

-----------------------------------------------------------------------------
(* The node *)

PageUnchanged == UNCHANGED <<pageVars, owner, readyState>>

PipeOf(k) == owner[k].pipe

\* Mistaken variant: a new connection waits for the next change of the status.
FirstStatusLater(k) == PipeExecutionStatus.INIT

FirstStatus(k) == nodeStatus[PipeOf(k)]

connect_pipe(k) ==
    /\ k <= used
    /\ readyState[k] = "connecting" /\ side[k] = "none"
    /\ side' = [side EXCEPT ![k] = "live"]
    /\ connections' = [connections EXCEPT ![PipeOf(k)] = Append(@, k)]
    /\ told' = [told EXCEPT ![k] = FirstStatus(k)]
    /\ PageUnchanged /\ UNCHANGED <<up, nodeStatus, tasks, upset>>

\* The node's WebSocket library learns that the page has closed the socket:
\* what is sent on it from now on raises.
LearnClose(k) ==
    /\ side[k] = "live"
    /\ readyState[k] \in {"closing", "closed"}
    /\ side' = [side EXCEPT ![k] = "gone"]
    /\ told' = [told EXCEPT ![k] = NoStatus]
    /\ PageUnchanged /\ UNCHANGED <<up, connections, nodeStatus, tasks, upset>>

Position(k, list) == CHOOSE i \in DOMAIN list : list[i] = k

\* Mistaken variant: what the page had sent before it closed is not looked at.
ReceivedAny(k) == TRUE

ReceivedAll(k) == up[k] = <<>>

\* monitor has handled what there was and raises WebSocketDisconnect.  A loop
\* over the connections that has passed this one will skip the next.
Leave(k) ==
    LET p == PipeOf(k)
        list == connections[p]
        i == Position(k, list)
    IN  /\ side[k] = "gone" /\ ReceivedAll(k)
        /\ side' = [side EXCEPT ![k] = "left"]
        /\ connections' = [connections EXCEPT
                             ![p] = SubSeq(list, 1, i - 1) \o SubSeq(list, i + 1, Len(list))]
        /\ upset' = upset \cup {q \in {p} : \E t \in DOMAIN tasks[p] : tasks[p][t].at >= i}
        /\ PageUnchanged /\ UNCHANGED <<up, nodeStatus, tasks, told>>

Task(s) == [status |-> s, at |-> NotBegun]

\* process_control_message: a START that fails to launch, and a PAUSE of a pipe
\* that is not running, raise; the handler ends and stays in the list.
process_control_message(k) ==
    LET p == PipeOf(k)
        pausing == Head(up[k]).action = PipeActionType.PAUSE
        new == IF pausing THEN PipeExecutionStatus.PAUSED ELSE PipeExecutionStatus.RUNNING
    IN  /\ side[k] \in {"live", "gone"} /\ up[k] # <<>>
        /\ up' = [up EXCEPT ![k] = Tail(@)]
        /\ \/ /\ pausing => nodeStatus[p] = PipeExecutionStatus.RUNNING
              /\ tasks' = [tasks EXCEPT ![p] = Append(@, Task(new))]
              /\ UNCHANGED <<side, told>>
           \/ /\ IF pausing THEN nodeStatus[p] # PipeExecutionStatus.RUNNING ELSE LaunchFails
              /\ side' = [side EXCEPT ![k] = "failed"]
              /\ told' = [told EXCEPT ![k] = NoStatus]
              /\ tasks' = tasks
        /\ PageUnchanged /\ UNCHANGED <<connections, nodeStatus, upset>>

\* The workers have ended; how, is NodeLifecycle's subject.
cleanup(p) ==
    /\ nodeStatus[p] = PipeExecutionStatus.RUNNING
    /\ \A t \in DOMAIN tasks[p] : tasks[p][t].status # PipeExecutionStatus.COMPLETED
    /\ tasks' = [tasks EXCEPT ![p] = Append(@, Task(PipeExecutionStatus.COMPLETED))]
    /\ PageUnchanged /\ UNCHANGED <<up, side, connections, nodeStatus, told, upset>>

\* set_pipe_status begins, in the order in which its tasks were created.
BeginStatus(p, t) ==
    /\ t \in DOMAIN tasks[p]
    /\ tasks[p][t].at = NotBegun
    /\ \A before \in 1..(t - 1) : tasks[p][before].at # NotBegun
    /\ nodeStatus' = [nodeStatus EXCEPT ![p] = tasks[p][t].status]
    /\ tasks' = [tasks EXCEPT ![p][t].at = 0]
    /\ upset' = IF t > 1 THEN upset \cup {p} ELSE upset
    /\ PageUnchanged /\ UNCHANGED <<up, side, connections, told>>

TaskEnds(p, t) ==
    tasks' = [tasks EXCEPT ![p] = SubSeq(@, 1, t - 1) \o SubSeq(@, t + 1, Len(@))]

\* _sync_status sends to the next connection, and may be suspended there; a
\* send to one that has gone raises and ends the loop.
SendStatus(p, t) ==
    LET task == tasks[p][t]
        k == connections[p][task.at + 1]
    IN  /\ t \in DOMAIN tasks[p] /\ tasks[p][t].at # NotBegun
        /\ task.at < Len(connections[p])
        /\ \/ /\ side[k] = "live"
              /\ told' = [told EXCEPT ![k] = task.status]
              /\ IF readyState[k] = "open"
                 THEN onMessage(owner[k], StatusMessage(task.status))
                 ELSE UNCHANGED status
              /\ tasks' = [tasks EXCEPT ![p][t].at = @ + 1]
              /\ upset' = upset
           \/ /\ side[k] # "live"
              /\ TaskEnds(p, t)
              /\ upset' = upset \cup {p}
              /\ UNCHANGED <<status, told>>
        /\ UNCHANGED <<fetched, choiceVars, connected, socket, clicks, owner,
                       readyState, up, side, connections, nodeStatus>>

EndStatus(p, t) ==
    /\ t \in DOMAIN tasks[p]
    /\ tasks[p][t].at >= Len(connections[p])
    /\ TaskEnds(p, t)
    /\ PageUnchanged /\ UNCHANGED <<up, side, connections, nodeStatus, told, upset>>

-----------------------------------------------------------------------------
UserStep == \/ \E p \in Pipes : selectPipe(p)
            \/ Clear \/ selectNode \/ setPipes \/ toggleRun

PageStep(k) == Opened(k) \/ Closed(k)

NodeStep(k) == \/ connect_pipe(k) \/ LearnClose(k) \/ Leave(k)
               \/ process_control_message(k)

StatusStep(p) == \E t \in DOMAIN tasks[p] :
                    BeginStatus(p, t) \/ SendStatus(p, t) \/ EndStatus(p, t)

SystemStep == \/ \E k \in Sockets : PageStep(k) \/ NodeStep(k)
              \/ \E p \in Pipes : StatusStep(p)

Next == UserStep \/ SystemStep \/ \E p \in Pipes : cleanup(p)

Spec == Init /\ [][Next]_vars

\* The event loops of the browser and of the node do not stop as long as they
\* have something to do.  The user need do nothing, and no pipe need end.
FairSpec == Spec /\ WF_vars(SystemStep)

-----------------------------------------------------------------------------
(* Properties *)

\* A pipe that the page shows as connected has a socket that is open, or that
\* the page has closed and not yet been told of: Pipe.connected is set by the
\* events of every socket the object ever made.
ConnectedHasSocket ==
    \A o \in Objects : connected[o] =>
        \E k \in 1..used : owner[k] = o /\ readyState[k] \in {"open", "closing"}

\* Until Clear is pressed, the page never closes the socket on which the pipe
\* it shows would send its commands, whatever is selected or fetched meanwhile.
ShownNotClosed ==
    Mounted /\ ~cleared /\ socket[Shown] # 0 =>
        \/ readyState[socket[Shown]] \in {"connecting", "open"}
        \/ side[socket[Shown]] = "failed"

\* A connection has been told the status of its pipe once no set_pipe_status
\* is under way, also one that was made in the middle of it, unless a broadcast
\* raised at a connection that has gone, skipped one, or overlapped another.
Told ==
    \A p \in Pipes : tasks[p] = <<>> /\ p \notin upset =>
        \A i \in DOMAIN connections[p] :
            LET k == connections[p][i]
            IN  side[k] = "live" => told[k] = nodeStatus[p]

\* The last tree drawn in a mounted view is the shown pipe's, and it holds
\* every way through the pipe's queues once, each drawn down to its end; it
\* begins at the one processor that no queue feeds.
TreeOfShown ==
    drawn # <<>> =>
        /\ Mounted /\ drawn[Len(drawn)] = selectedPipeId
        /\ LET def == pipeDef(selectedPipeId)
               drawing == Drawing(def)
               Grown(path) == {Append(path, q.to_p) :
                                 q \in {q \in def.queues : q.from_p = path[Len(path)]}}
           IN  /\ <<def.id>> \in drawing.nodes
               /\ \A path \in drawing.nodes :
                     /\ Grown(path) \subseteq drawing.nodes
                     /\ \A longer \in Grown(path) : <<path, longer>> \in drawing.links
                     /\ Len(path) > 1 => \E parent \in drawing.nodes :
                            path \in Grown(parent) /\ <<parent, path>> \in drawing.links
               /\ {p.id : p \in def.processors} =
                     {path[Len(path)] : path \in drawing.nodes}
               /\ {p.id : p \in entryProcs(def)} = {def.id}

\* A START that left the page is carried out, also when the page closes the
\* socket right behind it, unless the handler of that socket has failed.
RunIsCarriedOut ==
    \A k \in Sockets :
        (up[k] # <<>>) ~> (\/ side[k] = "failed"
                           \/ k <= used /\ nodeStatus[PipeOf(k)] = PipeExecutionStatus.RUNNING)

\* A pipe whose socket is open, with nothing going on at the node, is shown with
\* the status that the node has told.
StatusShown ==
    Mounted /\ socket[Shown] # 0 =>
        LET k == socket[Shown]
        IN  /\ readyState[k] = "open" /\ side[k] = "live"
            /\ PipeOf(k) \notin upset /\ tasks[PipeOf(k)] = <<>>
            => PageShows.status = statusLine(told[k])
=============================================================================
