------------------------------ MODULE NodeView ------------------------------
(***************************************************************************)
(* The web page as viewer of a node: the lists it fetches (Index.vue, the  *)
(* stores), the node's socket (Node.ts, WebsocketHandler.ts), the tables   *)
(* that show the usage reports (ResourceList.vue, QueuesList.vue,          *)
(* ProcessorsList.vue), and the side of the node that answers and reports. *)
(*                                                                         *)
(* A fetch is answered and its answer applied in two steps, in any order   *)
(* among fetches.  An applied answer replaces all objects of its list.     *)
(***************************************************************************)
EXTENDS UpipeEntities, FiniteSets, Bags

CONSTANTS Pipes,        \* pipes that may be loaded, each with its queues
          MaxTicks,     \* bound: reports told apart; later ones count as the last
          MaxWire,      \* bound: reports on their way to one socket
          MaxSockets,   \* bound: sockets the page makes
          MaxNodes,     \* bound: applied answers with the node
          MaxClicks,    \* bound: clicks on refresh, retry and the node
          MaxRestarts   \* bound: restarts of the node

ASSUME ConstantsAssumption ==
    /\ MaxTicks \in Nat \ {0} /\ MaxWire \in Nat \ {0} /\ MaxSockets \in Nat
    /\ MaxNodes \in Nat \ {0} /\ MaxClicks \in Nat /\ MaxRestarts \in Nat

NodeStatus == [INIT |-> 1, AVAILABLE |-> 2, CONNECTED |-> 3]

Sockets == 1..MaxSockets
Objects == 1..MaxNodes      \* ComputeNode objects, in the order of their making
NoNode == 0

VARIABLES
    \* the node
    loaded,          \* pipe_controllers
    tick, restarts,
    connections,     \* sockets whose handlers are in ComputeNode.connections
    wire,            \* reports on their way to each socket
    \* the page
    serverAvailable, selected, clicks,
    node,            \* the object in the store, NoNode before the first answer
    status, socketHandler,   \* of each object: its fields
    owner, readyState,       \* of the sockets, in the order of their making
    flights,         \* of each list: a bag of the fetches under way
    table,           \* of pipes and queues: the rows of each pipe, the tick they show
    heard,           \* the object the mounted tables listen to
    stale,           \* objects an unmounted table still listens to
    resources,       \* the report that the table of resources shows
    \* history
    overlapped,      \* tables with fetches that were under way together
    doubled,         \* an object was connected while it had a socket
    unwatched        \* the object was replaced while no view watched it

nodeVars == <<loaded, tick, restarts, connections, wire>>
objectVars == <<node, status>>
socketVars == <<socketHandler, owner, readyState, doubled>>
fetchVars == <<flights, overlapped>>
viewVars == <<heard, stale, resources>>
vars == <<nodeVars, serverAvailable, selected, clicks, objectVars, socketVars,
          fetchVars, table, viewVars, unwatched>>

\* The modules of the store.
Lists == {"nodes", "pipes", "queues"}
Tables == {"pipes", "queues"}
Absent == -1        \* no row
NoStats == 0        \* a row without numbers yet

\* A fetch under way: whether it is checkServer's, and the answer once there is.
Asked(check) == [check |-> check, answered |-> FALSE, pipes |-> {}]
Answer(f, pipes) == [f EXCEPT !.answered = TRUE, !.pipes = pipes]

\* The resources as they are before the first report.
NoReport == NodePerformanceStats(0, {}, {})

Init ==
    /\ loaded = {} /\ tick = 0 /\ restarts = 0
    /\ connections = {} /\ wire = [k \in Sockets |-> <<>>]
    /\ serverAvailable = FALSE /\ selected = FALSE /\ clicks = 0
    /\ node = NoNode /\ status = [o \in Objects |-> NodeStatus.INIT]
    /\ socketHandler = [o \in Objects |-> 0]
    /\ owner = <<>> /\ readyState = [k \in Sockets |-> "none"]
    /\ flights = [l \in Lists |-> IF l = "pipes" THEN SetToBag({Asked(TRUE)}) ELSE EmptyBag]
    /\ table = [t \in Tables |-> [p \in Pipes |-> Absent]]
    /\ heard = NoNode /\ stale = {} /\ resources = NoReport
    /\ overlapped = {} /\ doubled = FALSE /\ unwatched = FALSE

-----------------------------------------------------------------------------
(* The node *)

load_pipe(p) ==
    /\ p \notin loaded
    /\ loaded' = loaded \cup {p}
    /\ UNCHANGED <<tick, restarts, connections, wire>>

\* Mistaken variant: the list is cleared.
RemainingNone(k) == {}

Remaining(k) == connections \ {k}

\* log_node_utilization: one report, its queues and processors those of the
\* loaded pipes, is sent to each connection by a task of its own.
log_node_utilization ==
    LET t == IF tick < MaxTicks THEN tick + 1 ELSE MaxTicks
        report == NodePerformanceStats(t, loaded, loaded)
    IN  /\ \A k \in connections : Len(wire[k]) < MaxWire
        /\ tick' = t
        /\ wire' = [k \in Sockets |-> IF k \in connections
                                      THEN Append(wire[k], APINodeUsageMessage(report))
                                      ELSE wire[k]]
        /\ UNCHANGED <<loaded, restarts, connections>>

\* read_pipes, read_queues.  What read_nodes answers never changes.
answer(t, f) ==
    /\ ~f.answered
    /\ flights' = [flights EXCEPT ![t] = (@ (-) SetToBag({f})) (+) SetToBag({Answer(f, loaded)})]
    /\ UNCHANGED <<nodeVars, serverAvailable, selected, clicks, objectVars, socketVars,
                   overlapped, table, viewVars, unwatched>>

\* The server process ends and is started again: its memory and its sockets are
\* gone, and the page has not heard of it yet.
restart ==
    /\ restarts < MaxRestarts /\ restarts' = restarts + 1
    /\ loaded' = {} /\ connections' = {}
    /\ wire' = [k \in Sockets |-> <<>>]
    /\ readyState' = [k \in Sockets |->
          IF readyState[k] \in {"connecting", "open"} THEN "lost" ELSE readyState[k]]
    /\ UNCHANGED <<tick, serverAvailable, selected, clicks, objectVars, socketHandler,
                   owner, doubled, fetchVars, table, viewVars, unwatched>>

-----------------------------------------------------------------------------
(* Node.ts and WebsocketHandler.ts *)

used == Len(owner)
InUse(k) == readyState[k] \in {"connecting", "open"}

\* disconnect of the objects of closing, then connect of those of new: a new
\* handler with a new socket takes the place of the one before.
Reconnect(closing, new) ==
    /\ \/ /\ new = {}
          /\ UNCHANGED <<owner, socketHandler, doubled>>
       \/ /\ used < MaxSockets
          /\ \E o \in new :
                /\ owner' = Append(owner, o)
                /\ socketHandler' = [socketHandler EXCEPT ![o] = used + 1]
                /\ doubled' = (doubled \/ \E k \in 1..used : owner[k] = o /\ InUse(k))
    /\ readyState' = [k \in Sockets |->
          IF k = used + 1 /\ new # {} THEN "connecting"
          ELSE IF InUse(k) /\ \E o \in closing : socketHandler[o] = k THEN "closing"
          ELSE readyState[k]]

\* Mistaken variant: the close of a socket goes unheard.
OnConnectedOnly(k, is) ==
    status' = IF is THEN [status EXCEPT ![owner[k]] = NodeStatus.CONNECTED] ELSE status

\* connected_changed
OnConnected(k, is) ==
    status' = [status EXCEPT ![owner[k]] =
                 IF is THEN NodeStatus.CONNECTED ELSE NodeStatus.AVAILABLE]

\* The socket is accepted and listed by the node, and is open for the page.
attach(k) ==
    /\ readyState[k] = "connecting"
    /\ connections' = connections \cup {k}
    /\ readyState' = [readyState EXCEPT ![k] = "open"]
    /\ OnConnected(k, TRUE)

\* The socket the page has closed is closed for both sides: monitor raises
\* WebSocketDisconnect at the node.  One that is lost is closed for the page.
detach(k) ==
    /\ readyState[k] \in {"closing", "lost"}
    /\ connections' = Remaining(k)
    /\ readyState' = [readyState EXCEPT ![k] = "closed"]
    /\ OnConnected(k, FALSE)

SocketEvent(k) ==
    /\ attach(k) \/ detach(k)
    /\ wire' = [wire EXCEPT ![k] = <<>>]
    /\ UNCHANGED <<loaded, tick, restarts, serverAvailable, selected, clicks, node,
                   socketHandler, owner, doubled, fetchVars, table, viewVars, unwatched>>

-----------------------------------------------------------------------------
(* ResourceList.vue, QueuesList.vue, ProcessorsList.vue *)

Mounted == serverAvailable /\ selected

statusLine(o) ==
    CASE status[o] = NodeStatus.INIT -> "Pending"
      [] status[o] = NodeStatus.AVAILABLE -> "ready"
      [] status[o] = NodeStatus.CONNECTED -> "connected"

\* The icon beside the selected node of the list.
NodeIcon(o) ==
    IF status[o] = NodeStatus.CONNECTED THEN "network-wired" ELSE "exclamation-circle"

\* The rows of the pipes and of the queues.
Listed(t) == {p \in Pipes : table[t][p] # Absent}

\* What a mounted view shows.
Shows == [line |-> statusLine(node), resources |-> resources, queues |-> Listed("queues")]

\* Mounting makes new tables that listen to the object of that moment.  What is
\* unmounted stops listening to the object that is then in the store.
Mount(available, chosen) ==
    /\ serverAvailable' = available /\ selected' = chosen
    /\ IF Mounted = (available /\ chosen) THEN UNCHANGED viewVars
       ELSE /\ resources' = NoReport
            /\ heard' = IF Mounted THEN NoNode ELSE node
            /\ stale' = IF Mounted /\ heard # node THEN stale \cup {heard} ELSE stale

\* Mistaken variant: a row that has numbers keeps them.
UpdatedOnce(rows, tickShown, reported) ==
    [p \in Pipes |-> IF rows[p] = NoStats /\ p \in reported THEN tickShown ELSE rows[p]]

\* updateStats of the rows that are there.
Updated(rows, tickShown, reported) ==
    [p \in Pipes |-> IF rows[p] # Absent /\ p \in reported THEN tickShown ELSE rows[p]]

onUsageStats(u) ==
    table' = [t \in Tables |->
                Updated(table[t], u.tick,
                        IF t = "queues" THEN u.queues_usage ELSE u.processors_usage)]

NextReport(k) == Head(wire[k])

\* onMessage of the object, for whoever listens to it.
OnMessage(k) ==
    /\ readyState[k] = "open" /\ wire[k] # <<>>
    /\ wire' = [wire EXCEPT ![k] = Tail(@)]
    /\ IF owner[k] = heard THEN resources' = NextReport(k).stats ELSE UNCHANGED resources
    /\ IF owner[k] \in stale \cup {heard} THEN onUsageStats(NextReport(k).stats)
       ELSE UNCHANGED table
    /\ UNCHANGED <<loaded, tick, restarts, connections, serverAvailable, selected, clicks,
                   objectVars, socketVars, fetchVars, heard, stale, unwatched>>

-----------------------------------------------------------------------------
(* The stores and Index.vue *)

\* The fetches of back have come back to l, and one of each list of asked begins.
Fly(l, back, asked) ==
    LET left == [m \in Lists |-> IF m = l THEN flights[m] (-) back ELSE flights[m]]
    IN  /\ flights' = [m \in Lists |-> IF m \in asked THEN left[m] (+) SetToBag({Asked(FALSE)})
                                       ELSE left[m]]
        /\ overlapped' = {m \in Tables : left[m] # EmptyBag /\ m \in overlapped \cup asked}

\* setPipes, setQueues: new objects, so no numbers.
Rows(pipes) == [p \in Pipes |-> IF p \in pipes THEN NoStats ELSE Absent]

\* The node that is listed first is selected when none is; it is not connected.
AutoSelect == selected \/ node # NoNode

\* fetchPipes of checkServer has its answer: refresh at once asks for all lists.
CheckAnswered(f) ==
    /\ f.check /\ f.answered
    /\ table' = [table EXCEPT !["pipes"] = Rows(f.pipes)]
    /\ Fly("pipes", SetToBag({f}), Lists)
    /\ Mount(TRUE, AutoSelect)

\* Its request has failed, also one that was answered: the connection broke.
CheckFailed(f) ==
    /\ f.check
    /\ Fly("pipes", SetToBag({f}), {})
    /\ Mount(FALSE, AutoSelect)
    /\ UNCHANGED table

checkServerEnds(f) ==
    /\ \/ CheckAnswered(f)
       \/ restarts > 0 /\ CheckFailed(f)
    /\ UNCHANGED <<nodeVars, clicks, objectVars, socketVars, unwatched>>

\* The answer to a fetch of refresh is applied.  One that fails changes nothing:
\* it stays under way here.
setRows(t, f) ==
    /\ ~f.check /\ f.answered
    /\ table' = [table EXCEPT ![t] = Rows(f.pipes)]
    /\ Fly(t, SetToBag({f}), {})
    /\ UNCHANGED <<nodeVars, serverAvailable, selected, clicks, objectVars, socketVars,
                   viewVars, unwatched>>

\* Mistaken variant: the object that is replaced keeps its socket.
LeavesNothing(old) == {}

Leaves(old) == {old}

\* setNodes: one new object.  The watcher of a mounted NodeView disconnects the
\* old one and connects the new one; the tables go on listening to the old one.
setNodes(f) ==
    /\ node < MaxNodes
    /\ node' = node + 1
    /\ IF Mounted THEN Reconnect(Leaves(node), {node + 1}) ELSE UNCHANGED socketVars
    /\ unwatched' = (unwatched \/ (~Mounted /\ node # NoNode))
    /\ Fly("nodes", SetToBag({f}), {})
    /\ UNCHANGED <<nodeVars, serverAvailable, selected, clicks, status, table, viewVars>>

Clicks == clicks < MaxClicks /\ clicks' = clicks + 1

\* Mistaken variant: the lists are emptied until the answers come.
refreshClearing ==
    /\ Clicks /\ serverAvailable
    /\ Fly("nodes", EmptyBag, Lists)
    /\ table' = [t \in Tables |-> Rows({})]
    /\ UNCHANGED <<nodeVars, serverAvailable, selected, objectVars, socketVars, viewVars,
                   unwatched>>

refresh ==
    /\ Clicks /\ serverAvailable
    /\ Fly("nodes", EmptyBag, Lists)
    /\ UNCHANGED <<nodeVars, serverAvailable, selected, objectVars, socketVars, table,
                   viewVars, unwatched>>

\* The button is there until a check has succeeded.
retry ==
    /\ Clicks /\ ~serverAvailable
    /\ flights' = [flights EXCEPT !["pipes"] = @ (+) SetToBag({Asked(TRUE)})]
    /\ overlapped' = IF flights["pipes"] = EmptyBag THEN overlapped ELSE overlapped \cup {"pipes"}
    /\ UNCHANGED <<nodeVars, serverAvailable, selected, objectVars, socketVars, table,
                   viewVars, unwatched>>

selectNode ==
    /\ Clicks /\ serverAvailable /\ node # NoNode
    /\ Reconnect({}, IF status[node] = NodeStatus.CONNECTED THEN {} ELSE {node})
    /\ Mount(serverAvailable, TRUE)
    /\ UNCHANGED <<nodeVars, objectVars, fetchVars, table, unwatched>>

-----------------------------------------------------------------------------
PageUnchanged == UNCHANGED <<serverAvailable, selected, clicks, objectVars, socketVars,
                             fetchVars, table, viewVars, unwatched>>

UserStep == refresh \/ retry \/ selectNode

SystemStep ==
    \/ log_node_utilization /\ PageUnchanged
    \/ \E k \in 1..used : SocketEvent(k) \/ OnMessage(k)
    \/ \E t \in Tables : \E f \in DOMAIN flights[t] : answer(t, f) \/ setRows(t, f)
    \/ \E f \in DOMAIN flights["pipes"] : checkServerEnds(f)
    \/ \E f \in DOMAIN flights["nodes"] : setNodes(f)

Next == \/ UserStep \/ SystemStep \/ restart
        \/ (\E p \in Pipes : load_pipe(p)) /\ PageUnchanged

Spec == Init /\ [][Next]_vars

\* The node reports every second, and neither event loop stops while it has
\* something to do.  The user need do nothing, and nobody need load a pipe.
FairSpec == Spec /\ WF_vars(SystemStep)

-----------------------------------------------------------------------------
(* Properties *)

\* The tables of one view never mix reports: a row of a pipe that the shown
\* report speaks of has that report's numbers or, fetched since, none, through
\* refreshes, remounts and restarts; unless an unmounted table still listens.
TablesAgree ==
    stale = {} =>
        \A t \in Tables : \A p \in Listed(t) \cap resources.queues_usage :
            table[t][p] \in {NoStats, resources.tick}

\* The view and the list say of a node that it is connected only if it has a
\* socket that was opened and whose close the page has not been told; and an open
\* one shows, unless the node has restarted; also when it was connected twice.
ConnectedShown ==
    /\ Mounted /\ (Shows.line = "connected" \/ NodeIcon(node) = "network-wired") =>
          \E k \in 1..used : owner[k] = node /\ readyState[k] \in {"open", "closing", "lost"}
    /\ Mounted /\ restarts = 0 =>
          \A k \in 1..used : owner[k] = node /\ readyState[k] = "open" =>
              Shows.line = "connected" /\ NodeIcon(node) = "network-wired"

\* The page keeps no socket but the last one of the object it shows: whatever is
\* refreshed, clicked or restarted, the one before has been disconnected; unless
\* an object was connected twice, or replaced while no view watched it.
OneSocket ==
    ~doubled /\ ~unwatched =>
        \A k \in 1..used : InUse(k) => owner[k] = node /\ socketHandler[node] = k

\* A pipe that is listed stays listed while the node has not restarted, unless
\* fetches of the list were under way together: their answers may change places.
ListsGrow ==
    [][restarts' = 0 => \A t \in Tables \ overlapped : Listed(t) \subseteq Listed(t)']_vars

\* The mounted tables listen to the shown node and its socket is connected.
Hears == /\ Mounted /\ heard = node
         /\ \E k \in 1..used : owner[k] = node /\ readyState[k] = "open"

\* The rows of a loaded pipe are filled with numbers as long as the tables hear
\* the node, whichever other sockets come and go meanwhile.
StatsArrive ==
    \A t \in Tables : \A p \in Pipes :
        (Hears /\ p \in loaded \cap Listed(t))
            ~> (table[t][p] > NoStats \/ p \notin loaded \cap Listed(t) \/ ~Hears)
=============================================================================
