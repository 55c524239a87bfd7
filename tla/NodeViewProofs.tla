--------------------------- MODULE NodeViewProofs ---------------------------
(***************************************************************************)
(* Theorems about the node's sockets, the tables and the lists in NodeView,*)
(* for every set of pipes and every bound: whatever is clicked, fetched,   *)
(* lost or restarted.                                                      *)
(***************************************************************************)
EXTENDS NodeView, TLAPS

ReadyStateNames == {"none", "connecting", "open", "closing", "lost", "closed"}

\* The types of what the page knows of its objects and sockets.  No socket was
\* made by an object later than the one in the store.
SocketTypes ==
    /\ node \in 0..MaxNodes /\ restarts \in Nat
    /\ owner \in Seq(Objects) /\ used <= MaxSockets
    /\ \A k \in 1..used : owner[k] <= node
    /\ readyState \in [Sockets -> ReadyStateNames]
    /\ \A k \in Sockets : k > used => readyState[k] = "none"
    /\ socketHandler \in [Objects -> 0..MaxSockets]
    /\ status \in [Objects -> 1..3]

\* An object that is CONNECTED has a socket whose close the page does not know.
ConnectedInv ==
    \A o \in Objects : status[o] = 3 =>
        \E k \in 1..used : owner[k] = o /\ readyState[k] \in {"open", "closing", "lost"}

\* Nothing closes the sockets of the object in the store but a restart.
ShownInv ==
    restarts = 0 =>
        \A k \in 1..used : owner[k] = node =>
            /\ readyState[k] \in {"connecting", "open"}
            /\ readyState[k] = "open" => status[node] = 3

IInv == SocketTypes /\ OneSocket /\ ConnectedInv /\ ShownInv

\* Only a node that is there is selected.
SelectedInv == selected => node # NoNode

-----------------------------------------------------------------------------
LEMMA Initially == Init => IInv
  <1> SUFFICES ASSUME Init PROVE IInv
    OBVIOUS
  <1>1. SocketTypes /\ used = 0
    BY ConstantsAssumption DEF Init, SocketTypes, used, Objects, Sockets, NoNode,
          ReadyStateNames, NodeStatus
  <1>2. ConnectedInv
    BY DEF Init, ConnectedInv, NodeStatus
  <1> QED BY <1>1, <1>2 DEF IInv, OneSocket, ShownInv

\* What a step leaves alone that moves neither objects nor sockets.
LEMMA Elsewhere ==
    ASSUME IInv, UNCHANGED <<node, restarts, status, socketVars, unwatched>>
    PROVE  IInv'
  BY DEF IInv, SocketTypes, OneSocket, ConnectedInv, ShownInv, used, InUse, socketVars

\* The sockets that were made, and who made them.
LEMMA Made ==
    ASSUME SocketTypes
    PROVE  /\ used \in Nat /\ 1..used \subseteq Sockets
           /\ node \in Nat /\ MaxNodes \in Nat /\ MaxSockets \in Nat
           /\ \A k \in 1..used : owner[k] \in Objects /\ owner[k] \in Nat \ {0}
  <1>1. used \in Nat /\ \A k \in 1..used : owner[k] \in Objects
    BY DEF SocketTypes, used
  <1>2. node \in Nat /\ MaxNodes \in Nat /\ MaxSockets \in Nat
    BY ConstantsAssumption DEF SocketTypes
  <1>3. 1..used \subseteq Sockets
    BY <1>1, <1>2 DEF SocketTypes, Sockets
  <1>4. \A o \in Objects : o \in Nat \ {0}
    BY <1>2 DEF Objects
  <1> QED BY <1>1, <1>2, <1>3, <1>4

\* What a new socket of object o leaves behind, when those of closing disconnect.
SocketAdded(o, closing) ==
    /\ used' = used + 1 /\ used' <= MaxSockets
    /\ owner' \in Seq(Objects) /\ owner'[used + 1] = o
    /\ \A k \in 1..used : owner'[k] = owner[k]
    /\ socketHandler' = [socketHandler EXCEPT ![o] = used + 1]
    /\ socketHandler' \in [Objects -> 0..MaxSockets]
    /\ readyState' \in [Sockets -> ReadyStateNames]
    /\ readyState'[used + 1] = "connecting"
    /\ \A k \in 1..used :
          readyState'[k] = IF InUse(k) /\ \E c \in closing : socketHandler[c] = k
                           THEN "closing" ELSE readyState[k]
    /\ \A k \in Sockets : k > used + 1 => readyState'[k] = "none"
    /\ ~doubled' => ~doubled /\ \A k \in 1..used : ~(owner[k] = o /\ InUse(k))

LEMMA NewSocket ==
    ASSUME SocketTypes, NEW o \in Objects, NEW closing, Reconnect(closing, {o})
    PROVE  SocketAdded(o, closing)
  <1>1. /\ used < MaxSockets /\ used \in Nat
        /\ owner' = Append(owner, o)
        /\ socketHandler' = [socketHandler EXCEPT ![o] = used + 1]
        /\ doubled' = (doubled \/ \E k \in 1..used : owner[k] = o /\ InUse(k))
        /\ readyState' = [k \in Sockets |->
              IF k = used + 1 THEN "connecting"
              ELSE IF InUse(k) /\ \E c \in closing : socketHandler[c] = k THEN "closing"
              ELSE readyState[k]]
    BY DEF Reconnect, SocketTypes, used
  <1>2. /\ owner' \in Seq(Objects) /\ used' = used + 1
        /\ owner'[used + 1] = o /\ \A k \in 1..used : owner'[k] = owner[k]
    BY <1>1 DEF used, SocketTypes
  <1>3. used + 1 \in Sockets /\ 1..used \subseteq Sockets /\ MaxSockets \in Nat
    BY <1>1, ConstantsAssumption DEF Sockets
  <1>4. socketHandler' \in [Objects -> 0..MaxSockets]
    BY <1>1, <1>3 DEF SocketTypes
  <1>5. readyState' \in [Sockets -> ReadyStateNames]
    BY <1>1 DEF SocketTypes, ReadyStateNames
  <1>6. readyState'[used + 1] = "connecting"
    BY <1>1, <1>3
  <1>7. ASSUME NEW k \in 1..used
        PROVE  readyState'[k] = IF InUse(k) /\ \E c \in closing : socketHandler[c] = k
                                THEN "closing" ELSE readyState[k]
    <2>1. k \in Sockets /\ k # used + 1
      BY <1>1, <1>3
    <2> QED BY <1>1, <2>1 DEF InUse
  <1>8. ASSUME NEW k \in Sockets, k > used + 1
        PROVE  readyState'[k] = "none"
    <2>1. k # used + 1 /\ readyState[k] = "none"
      BY <1>1, <1>8 DEF SocketTypes, Sockets
    <2> QED BY <1>1, <2>1 DEF InUse
  <1>9. ~doubled' => ~doubled /\ \A k \in 1..used : ~(owner[k] = o /\ InUse(k))
    BY <1>1, Zenon
  <1>10. used' = used + 1 /\ used' <= MaxSockets
    BY <1>1, <1>2, <1>3
  <1> QED BY <1>1, <1>2, <1>4, <1>5, <1>6, <1>7, <1>8, <1>9, <1>10 DEF SocketAdded

\* The types, when o is or becomes the object in the store.
LEMMA NewSocketTypes ==
    ASSUME SocketTypes, NEW o \in Objects, NEW closing, SocketAdded(o, closing),
           o = node', node' \in {node, node + 1}, UNCHANGED <<restarts, status>>
    PROVE  SocketTypes'
  <1>1. \A k \in 1..used' : k \in 1..used \/ k = used + 1
    BY Made DEF SocketAdded
  <1>2. \A k \in 1..used' : owner'[k] <= node'
    <2> SUFFICES ASSUME NEW k \in 1..used' PROVE owner'[k] <= node'
      OBVIOUS
    <2>1. CASE k \in 1..used
      <3>1. owner'[k] = owner[k] /\ owner[k] <= node /\ owner[k] \in Nat
        BY <2>1, Made DEF SocketAdded, SocketTypes
      <3> QED BY <3>1, Made
    <2>2. CASE k = used + 1
      <3>1. owner'[k] = o
        BY <2>2 DEF SocketAdded
      <3>2. o \in Nat
        BY Made DEF Objects
      <3> QED BY <3>1, <3>2
    <2> QED BY <1>1, <2>1, <2>2
  <1>3. \A k \in Sockets : k > used' => readyState'[k] = "none"
    BY DEF SocketAdded
  <1>4. node' \in 0..MaxNodes
    BY Made DEF Objects
  <1> QED BY <1>2, <1>3, <1>4 DEF SocketAdded, SocketTypes

\* An object that is CONNECTED keeps the socket that tells so.
LEMMA NewSocketConnected ==
    ASSUME SocketTypes, ConnectedInv, NEW o \in Objects, NEW closing,
           SocketAdded(o, closing), UNCHANGED status
    PROVE  ConnectedInv'
  <1> SUFFICES ASSUME NEW c \in Objects, status[c] = 3
               PROVE  \E k \in 1..used' : owner'[k] = c
                         /\ readyState'[k] \in {"open", "closing", "lost"}
    BY DEF ConnectedInv
  <1>1. PICK k \in 1..used : owner[k] = c /\ readyState[k] \in {"open", "closing", "lost"}
    BY DEF ConnectedInv
  <1>2. readyState'[k] \in {"open", "closing", "lost"} /\ owner'[k] = c
    BY <1>1 DEF SocketAdded
  <1>3. k \in 1..used'
    BY Made DEF SocketAdded
  <1> QED BY <1>2, <1>3

-----------------------------------------------------------------------------
\* An open or a close, of any socket, at the page.
LEMMA SocketEventKeeps ==
    ASSUME IInv, NEW k \in 1..used, SocketEvent(k)
    PROVE  IInv'
  <1>1. /\ UNCHANGED <<node, restarts, owner, socketHandler, doubled, unwatched>>
        /\ k \in Sockets /\ owner[k] \in Objects
    BY ConstantsAssumption DEF SocketEvent, attach, detach, IInv, SocketTypes, used, Sockets
  <1>2. CASE attach(k)
    <2>1. /\ readyState[k] = "connecting"
          /\ readyState' = [readyState EXCEPT ![k] = "open"]
          /\ status' = [status EXCEPT ![owner[k]] = 3]
      BY <1>2 DEF attach, OnConnected, NodeStatus
    <2>2. SocketTypes'
      BY <1>1, <2>1 DEF IInv, SocketTypes, used, ReadyStateNames
    <2>3. OneSocket'
      BY <1>1, <2>1 DEF IInv, SocketTypes, OneSocket, InUse, used
    <2>4. ShownInv'
      BY <1>1, <2>1 DEF IInv, SocketTypes, ShownInv, used
    <2>5. SUFFICES ASSUME NEW o \in Objects, status'[o] = 3
                   PROVE  \E j \in 1..used : /\ owner[j] = o
                                             /\ readyState'[j] \in {"open", "closing", "lost"}
      BY <1>1, <2>2, <2>3, <2>4 DEF IInv, ConnectedInv, used
    <2>6. readyState'[k] = "open" /\ \A j \in Sockets \ {k} : readyState'[j] = readyState[j]
      BY <1>1, <2>1 DEF IInv, SocketTypes
    <2>7. CASE o = owner[k]
      BY <2>6, <2>7
    <2>8. CASE o # owner[k]
      <3>1. PICK j \in 1..used : owner[j] = o /\ readyState[j] \in {"open", "closing", "lost"}
        BY <1>1, <2>1, <2>5, <2>8 DEF IInv, SocketTypes, ConnectedInv
      <3>2. j \in Sockets \ {k}
        BY <2>8, <3>1, ConstantsAssumption DEF IInv, SocketTypes, used, Sockets
      <3> QED BY <2>6, <3>1, <3>2
    <2> QED BY <2>7, <2>8
  <1>3. CASE detach(k)
    <2>1. /\ readyState[k] \in {"closing", "lost"}
          /\ readyState' = [readyState EXCEPT ![k] = "closed"]
          /\ status' = [status EXCEPT ![owner[k]] = 2]
      BY <1>3 DEF detach, OnConnected, NodeStatus
    <2>2. SocketTypes'
      BY <1>1, <2>1 DEF IInv, SocketTypes, used, ReadyStateNames
    <2>3. OneSocket'
      BY <1>1, <2>1 DEF IInv, SocketTypes, OneSocket, InUse, used
    <2>4. ConnectedInv'
      BY <1>1, <2>1 DEF IInv, SocketTypes, ConnectedInv, used
    <2>5. ShownInv'
      BY <1>1, <2>1 DEF IInv, SocketTypes, ShownInv, used
    <2> QED BY <2>2, <2>3, <2>4, <2>5 DEF IInv
  <1> QED BY <1>2, <1>3 DEF SocketEvent

\* All sockets break, and the page has not heard of it.
LEMMA RestartKeeps ==
    ASSUME IInv, restart
    PROVE  IInv'
  <1>1. /\ UNCHANGED <<node, status, owner, socketHandler, doubled, unwatched>>
        /\ restarts' = restarts + 1
        /\ readyState' = [k \in Sockets |->
              IF readyState[k] \in {"connecting", "open"} THEN "lost" ELSE readyState[k]]
    BY DEF restart, objectVars
  <1>2. SocketTypes' /\ 1..used \subseteq Sockets /\ used' = used
    BY <1>1, ConstantsAssumption DEF IInv, SocketTypes, used, ReadyStateNames, Sockets
  <1>3. OneSocket'
    BY <1>1, <1>2 DEF IInv, OneSocket, InUse, SocketTypes
  <1>4. ConnectedInv'
    BY <1>1, <1>2 DEF IInv, ConnectedInv, SocketTypes
  <1>5. ShownInv'
    BY <1>1 DEF IInv, SocketTypes, ShownInv
  <1> QED BY <1>2, <1>3, <1>4, <1>5 DEF IInv

\* The object in the store is replaced.  A mounted view closes its socket, and by
\* OneSocket there is no other in use; an unmounted one is what unwatched tells.
LEMMA SetNodesKeeps ==
    ASSUME IInv, NEW f, setNodes(f)
    PROVE  IInv'
  <1>1. /\ node < MaxNodes /\ node' = node + 1 /\ node + 1 \in Objects
        /\ UNCHANGED <<restarts, status>>
        /\ unwatched' = (unwatched \/ (~Mounted /\ node # NoNode))
    BY ConstantsAssumption DEF setNodes, nodeVars, IInv, SocketTypes, Objects
  <1>2. CASE Mounted
    <2>1. Reconnect({node}, {node + 1})
      BY <1>2 DEF setNodes, Leaves
    <2>2. SocketAdded(node + 1, {node})
      BY <1>1, <2>1, NewSocket DEF IInv
    <2>3. SocketTypes'
      BY <1>1, <2>2, NewSocketTypes DEF IInv
    <2>4. \A k \in 1..used' : k \in 1..used \/ k = used + 1
      BY <2>2, Made DEF IInv, SocketAdded
    <2>5. OneSocket'
      <3> SUFFICES ASSUME ~doubled', ~unwatched', NEW k \in 1..used', InUse(k)'
                   PROVE  owner'[k] = node' /\ socketHandler'[node'] = k
        BY DEF OneSocket
      <3>1. ~doubled /\ ~unwatched
        BY <1>1, <2>2 DEF SocketAdded
      <3>2. ASSUME k \in 1..used PROVE FALSE
        <4>1. readyState'[k] = IF InUse(k) /\ socketHandler[node] = k
                               THEN "closing" ELSE readyState[k]
          BY <2>2, <3>2 DEF SocketAdded
        <4> QED BY <3>1, <3>2, <4>1 DEF IInv, OneSocket, InUse
      <3>3. k = used + 1
        BY <2>4, <3>2
      <3> QED BY <1>1, <2>2, <3>3 DEF SocketAdded, IInv, SocketTypes
    <2>6. ConnectedInv'
      BY <1>1, <2>2, NewSocketConnected DEF IInv
    <2>7. ShownInv'
      <3>1. \A k \in 1..used : owner'[k] # node'
        <4> SUFFICES ASSUME NEW k \in 1..used PROVE owner'[k] # node'
          OBVIOUS
        <4>1. owner'[k] = owner[k]
          BY <2>2 DEF SocketAdded
        <4>2. owner[k] <= node /\ owner[k] \in Nat /\ node \in Nat
          BY Made DEF IInv, SocketTypes
        <4> QED BY <1>1, <4>1, <4>2
      <3> QED BY <1>1, <2>2, <2>4, <3>1 DEF SocketAdded, ShownInv
    <2> QED BY <2>3, <2>5, <2>6, <2>7 DEF IInv
  <1>3. CASE ~Mounted
    <2>1. UNCHANGED <<owner, socketHandler, readyState, doubled>> /\ used' = used
      BY <1>3 DEF setNodes, socketVars, used
    <2>2. \A k \in 1..used : owner[k] <= node /\ owner[k] # node' /\ owner[k] \in Nat \ {0}
      BY <1>1, Made DEF IInv, SocketTypes
    <2>3. SocketTypes'
      <3>1. node' \in 0..MaxNodes
        BY <1>1, Made DEF IInv
      <3>2. \A k \in 1..used' : owner'[k] <= node'
        BY <1>1, <2>1, <2>2, Made DEF IInv
      <3> QED BY <1>1, <2>1, <3>1, <3>2 DEF IInv, SocketTypes
    <2>4. OneSocket'
      <3> SUFFICES ASSUME ~doubled', ~unwatched', NEW k \in 1..used', InUse(k)'
                   PROVE  FALSE
        BY DEF OneSocket
      <3>1. ~doubled /\ ~unwatched /\ node = NoNode
        BY <1>1, <1>3, <2>1
      <3> QED BY <2>1, <2>2, <3>1 DEF IInv, OneSocket, InUse, NoNode
    <2>5. ConnectedInv'
      BY <1>1, <2>1 DEF IInv, ConnectedInv
    <2>6. ShownInv'
      BY <1>1, <2>1, <2>2 DEF IInv, ShownInv
    <2> QED BY <2>3, <2>4, <2>5, <2>6 DEF IInv
  <1> QED BY <1>2, <1>3

\* A click on the node connects it once more unless it is CONNECTED; that it had a
\* socket in use is what doubled tells.
LEMMA SelectNodeKeeps ==
    ASSUME IInv, selectNode
    PROVE  IInv'
  <1>1. /\ UNCHANGED <<node, status, restarts, unwatched>>
        /\ node \in Objects
    BY DEF selectNode, nodeVars, objectVars, IInv, SocketTypes, Objects, NoNode
  <1>2. CASE status[node] = NodeStatus.CONNECTED
    <2>1. Reconnect({}, {})
      BY <1>2 DEF selectNode
    <2>2. /\ UNCHANGED <<owner, socketHandler, doubled>>
          /\ readyState' = [k \in Sockets |-> readyState[k]]
      BY <2>1 DEF Reconnect
    <2>3. UNCHANGED <<node, restarts, status, socketVars, unwatched>>
      BY <1>1, <2>2 DEF socketVars, IInv, SocketTypes
    <2> QED BY <2>3, Elsewhere
  <1>3. CASE status[node] # NodeStatus.CONNECTED
    <2>1. Reconnect({}, {node})
      BY <1>3 DEF selectNode
    <2>2. SocketAdded(node, {})
      BY <1>1, <2>1, NewSocket DEF IInv
    <2>3. SocketTypes'
      BY <1>1, <2>2, NewSocketTypes DEF IInv
    <2>4. /\ \A k \in 1..used' : k \in 1..used \/ k = used + 1
          /\ \A k \in 1..used : readyState'[k] = readyState[k] /\ owner'[k] = owner[k]
      BY <2>2, Made DEF IInv, SocketAdded
    <2>5. OneSocket'
      <3> SUFFICES ASSUME ~doubled', ~unwatched', NEW k \in 1..used', InUse(k)'
                   PROVE  owner'[k] = node' /\ socketHandler'[node'] = k
        BY DEF OneSocket
      <3>1. /\ ~doubled /\ ~unwatched
            /\ \A j \in 1..used : ~(owner[j] = node /\ InUse(j))
        BY <1>1, <2>2 DEF SocketAdded
      <3>2. ASSUME k \in 1..used PROVE FALSE
        BY <2>4, <3>1, <3>2 DEF IInv, OneSocket, InUse
      <3>3. k = used + 1
        BY <2>4, <3>2
      <3> QED BY <1>1, <2>2, <3>3 DEF SocketAdded, IInv, SocketTypes
    <2>6. ConnectedInv'
      BY <1>1, <2>2, NewSocketConnected DEF IInv
    <2>7. ShownInv'
      BY <1>1, <2>2, <2>4 DEF SocketAdded, IInv, ShownInv
    <2> QED BY <2>3, <2>5, <2>6, <2>7 DEF IInv
  <1> QED BY <1>2, <1>3

-----------------------------------------------------------------------------
LEMMA Inductive == IInv /\ [Next]_vars => IInv'
  <1> SUFFICES ASSUME IInv, [Next]_vars PROVE IInv'
    OBVIOUS
  <1> DEFINE Still == UNCHANGED <<node, restarts, status, socketVars, unwatched>>
  <1>1. CASE UNCHANGED vars
    <2>1. Still
      BY <1>1 DEF vars, nodeVars, objectVars
    <2> QED BY <2>1, Elsewhere
  <1>2. CASE refresh \/ retry
    <2>1. Still
      BY <1>2 DEF refresh, retry, nodeVars, objectVars
    <2> QED BY <2>1, Elsewhere
  <1>3. CASE selectNode
    BY <1>3, SelectNodeKeeps
  <1>4. CASE (log_node_utilization \/ \E p \in Pipes : load_pipe(p)) /\ PageUnchanged
    <2>1. Still
      BY <1>4 DEF log_node_utilization, load_pipe, PageUnchanged, objectVars
    <2> QED BY <2>1, Elsewhere
  <1>5. ASSUME NEW k \in 1..used, SocketEvent(k) PROVE IInv'
    BY <1>5, SocketEventKeeps
  <1>6. ASSUME NEW k \in 1..used, OnMessage(k) PROVE IInv'
    <2>1. Still
      BY <1>6 DEF OnMessage, objectVars
    <2> QED BY <2>1, Elsewhere
  <1>7. ASSUME NEW t, NEW f, answer(t, f) \/ setRows(t, f) PROVE IInv'
    <2>1. Still
      BY <1>7 DEF answer, setRows, nodeVars, objectVars
    <2> QED BY <2>1, Elsewhere
  <1>8. ASSUME NEW f, checkServerEnds(f) PROVE IInv'
    <2>1. Still
      BY <1>8 DEF checkServerEnds, nodeVars, objectVars
    <2> QED BY <2>1, Elsewhere
  <1>9. ASSUME NEW f, setNodes(f) PROVE IInv'
    BY <1>9, SetNodesKeeps
  <1>10. CASE restart
    BY <1>10, RestartKeeps
  <1> QED
    BY <1>1, <1>2, <1>3, <1>4, <1>5, <1>6, <1>7, <1>8, <1>9, <1>10
       DEF Next, UserStep, SystemStep

LEMMA SelectedInductive == SocketTypes /\ SelectedInv /\ [Next]_vars => SelectedInv'
  <1> SUFFICES ASSUME SocketTypes, SelectedInv, [Next]_vars PROVE SelectedInv'
    OBVIOUS
  <1>1. CASE UNCHANGED <<selected, node>>
    BY <1>1 DEF SelectedInv
  <1>2. CASE selectNode
    BY <1>2 DEF selectNode, Mount, objectVars, SelectedInv
  <1>3. ASSUME NEW f, checkServerEnds(f) PROVE SelectedInv'
    BY <1>3 DEF checkServerEnds, CheckAnswered, CheckFailed, Mount, AutoSelect, objectVars,
          SelectedInv
  <1>4. ASSUME NEW f, setNodes(f) PROVE SelectedInv'
    BY <1>4 DEF setNodes, SocketTypes, SelectedInv, NoNode
  <1>5. CASE /\ ~selectNode /\ \A f : ~checkServerEnds(f) /\ ~setNodes(f)
             /\ [Next]_vars
    <2>1. UNCHANGED <<selected, node>>
      BY <1>5 DEF Next, UserStep, SystemStep, vars, objectVars, refresh, retry, restart,
            PageUnchanged, SocketEvent, OnMessage, answer, setRows, attach, detach
    <2> QED BY <2>1, <1>1
  <1> QED BY <1>2, <1>3, <1>4, <1>5

LEMMA Invariance == Spec => [](IInv /\ SelectedInv)
  <1>1. Init => SelectedInv
    BY DEF Init, SelectedInv
  <1>2. IInv => SocketTypes
    BY DEF IInv
  <1> QED BY <1>1, <1>2, Initially, Inductive, SelectedInductive, PTL DEF Spec

\* Every refresh and every click leaves at most the last socket of the shown node
\* in use, as NodeView.vue's watcher promises, where a view watches it and nobody
\* clicks on a node that is connecting.
THEOREM OneSocketAlways == Spec => []OneSocket
  <1>1. IInv => OneSocket
    BY DEF IInv
  <1> QED BY <1>1, Invariance, PTL

\* What the view (statusLine) and the list (the icon) say of the node's connection
\* is so, however many sockets its objects have had.
THEOREM ConnectedTruly == Spec => []ConnectedShown
  <1>1. IInv /\ SelectedInv => ConnectedShown
    <2> SUFFICES ASSUME IInv, SelectedInv, Mounted PROVE ConnectedShown
      BY DEF ConnectedShown
    <2>1. /\ Shows.line = "connected" <=> status[node] = 3
          /\ NodeIcon(node) = "network-wired" <=> status[node] = 3
      <3>1. node \in Objects /\ status[node] \in {1, 2, 3}
        BY DEF IInv, SocketTypes, SelectedInv, Mounted, NoNode, Objects
      <3> QED BY <3>1 DEF Shows, statusLine, NodeIcon, NodeStatus
    <2>2. status[node] = 3 =>
             \E k \in 1..used : owner[k] = node /\ readyState[k] \in {"open", "closing", "lost"}
      BY DEF IInv, ConnectedInv, SocketTypes, SelectedInv, Mounted, NoNode, Objects
    <2>3. restarts = 0 =>
             \A k \in 1..used : owner[k] = node /\ readyState[k] = "open" => status[node] = 3
      BY DEF IInv, ShownInv
    <2> QED BY <2>1, <2>2, <2>3 DEF ConnectedShown
  <1> QED BY <1>1, Invariance, PTL

-----------------------------------------------------------------------------
(* The numbers the tables show *)

\* What the node reports: of the same pipes in both parts.
Stats == {NodePerformanceStats(n, pipes, pipes) : n \in Nat, pipes \in SUBSET Pipes}

TableTypes ==
    /\ loaded \subseteq Pipes /\ tick \in Nat
    /\ table \in [Tables -> [Pipes -> Int]]

ReportsInv ==
    /\ resources \in Stats
    /\ wire \in [Sockets -> Seq({APINodeUsageMessage(s) : s \in Stats})]

NumbersInv == TableTypes /\ ReportsInv /\ TablesAgree

\* A report speaks of the same pipes in both parts.
LEMMA StatsFacts ==
    /\ NoReport \in Stats /\ NoReport.queues_usage = {}
    /\ \A s \in Stats : /\ s.tick \in Nat /\ s.processors_usage = s.queues_usage
                        /\ APINodeUsageMessage(s).stats = s
    /\ \A n \in Nat : \A pipes \in SUBSET Pipes : NodePerformanceStats(n, pipes, pipes) \in Stats
  <1>1. \A n \in Nat : \A pipes \in SUBSET Pipes : NodePerformanceStats(n, pipes, pipes) \in Stats
    BY DEF Stats
  <1>2. NoReport \in Stats /\ NoReport.queues_usage = {}
    BY <1>1 DEF NoReport, NodePerformanceStats
  <1>3. ASSUME NEW s \in Stats
        PROVE  s.tick \in Nat /\ s.processors_usage = s.queues_usage
    <2>1. PICK n \in Nat, pipes \in SUBSET Pipes : s = NodePerformanceStats(n, pipes, pipes)
      BY DEF Stats
    <2> QED BY <2>1 DEF NodePerformanceStats
  <1>4. \A s \in Stats : APINodeUsageMessage(s).stats = s
    BY DEF APINodeUsageMessage
  <1> QED BY <1>1, <1>2, <1>3, <1>4

LEMMA NumbersInitially == Init => NumbersInv
  <1> SUFFICES ASSUME Init PROVE NumbersInv
    OBVIOUS
  <1>1. TableTypes
    BY DEF Init, TableTypes, Absent
  <1>2. ReportsInv
    BY StatsFacts DEF Init, ReportsInv
  <1>3. TablesAgree
    BY StatsFacts DEF Init, TablesAgree
  <1> QED BY <1>1, <1>2, <1>3 DEF NumbersInv

\* A view that comes or goes shows no report.
LEMMA MountFacts ==
    ASSUME NEW available, NEW chosen, Mount(available, chosen)
    PROVE  /\ stale' = {} => stale = {}
           /\ resources' = resources \/ resources' = NoReport
  BY DEF Mount, viewVars

\* New rows have no numbers yet; those of another list stay.
LEMMA FreshRows ==
    ASSUME NumbersInv, NEW t \in Tables, NEW pipes,
           table' = [table EXCEPT ![t] = Rows(pipes)] \/ table' = table,
           resources' = resources \/ resources' = NoReport,
           stale' = {} => stale = {},
           UNCHANGED <<loaded, tick, wire>>
    PROVE  NumbersInv'
  <1>1. Rows(pipes) \in [Pipes -> Int]
    BY DEF Rows, NoStats, Absent
  <1>2. TableTypes'
    BY <1>1 DEF NumbersInv, TableTypes
  <1>3. ReportsInv'
    BY StatsFacts DEF NumbersInv, ReportsInv
  <1>4. TablesAgree'
    <2> SUFFICES ASSUME stale' = {}, NEW u \in Tables, NEW p \in Pipes,
                        table'[u][p] # Absent, p \in resources'.queues_usage
                 PROVE  table'[u][p] \in {NoStats, resources'.tick}
      BY DEF TablesAgree, Listed
    <2>1. resources' = resources /\ p \in resources.queues_usage /\ stale = {}
      BY StatsFacts
    <2>2. table'[u] = table[u] \/ table'[u] = Rows(pipes)
      BY DEF NumbersInv, TableTypes
    <2>3. CASE table'[u] = table[u]
      BY <2>1, <2>3 DEF NumbersInv, TablesAgree, Listed
    <2>4. CASE table'[u] = Rows(pipes)
      BY <2>4 DEF Rows
    <2> QED BY <2>2, <2>3, <2>4
  <1> QED BY <1>2, <1>3, <1>4 DEF NumbersInv

\* A report comes to the tables that listen to its object, and to the table of
\* resources if they are the mounted ones.
LEMMA OnMessageKeeps ==
    ASSUME NumbersInv, NEW k \in Sockets, OnMessage(k)
    PROVE  NumbersInv'
  <1> DEFINE u == NextReport(k).stats
  <1>1. /\ wire[k] # <<>> /\ wire' = [wire EXCEPT ![k] = Tail(wire[k])]
        /\ UNCHANGED <<loaded, tick, stale>>
        /\ IF owner[k] = heard THEN resources' = u ELSE UNCHANGED resources
        /\ IF owner[k] \in stale \cup {heard} THEN onUsageStats(u) ELSE UNCHANGED table
    BY DEF OnMessage
  <1>2. Head(wire[k]) \in {APINodeUsageMessage(s) : s \in Stats}
        /\ Tail(wire[k]) \in Seq({APINodeUsageMessage(s) : s \in Stats})
    BY <1>1 DEF NumbersInv, ReportsInv
  <1>3. u \in Stats
    BY <1>2, StatsFacts DEF NextReport
  <1> HIDE DEF u
  <1>4. u.tick \in Nat /\ u.processors_usage = u.queues_usage
    BY <1>3, StatsFacts
  <1>5. ASSUME onUsageStats(u)
        PROVE  \A t \in Tables : table'[t] = Updated(table[t], u.tick, u.queues_usage)
    BY <1>4, <1>5 DEF onUsageStats
  <1>6. \A t \in Tables : Updated(table[t], u.tick, u.queues_usage) \in [Pipes -> Int]
    BY <1>4 DEF NumbersInv, TableTypes, Updated
  <1>7. TableTypes'
    <2>1. CASE onUsageStats(u)
      <3>1. table' = [t \in Tables |-> table'[t]]
        BY <2>1 DEF onUsageStats
      <3> QED BY <1>1, <1>5, <1>6, <2>1, <3>1 DEF NumbersInv, TableTypes
    <2>2. CASE UNCHANGED table
      BY <1>1, <2>2 DEF NumbersInv, TableTypes
    <2> QED BY <1>1, <2>1, <2>2
  <1>8. ReportsInv'
    BY <1>1, <1>2, <1>3 DEF NumbersInv, ReportsInv
  <1>9. TablesAgree'
    <2> SUFFICES ASSUME stale' = {}, NEW t \in Tables, NEW p \in Pipes,
                        table'[t][p] # Absent, p \in resources'.queues_usage
                 PROVE  table'[t][p] \in {NoStats, resources'.tick}
      BY DEF TablesAgree, Listed
    <2>1. CASE owner[k] = heard
      <3>1. resources' = u /\ table'[t] = Updated(table[t], u.tick, u.queues_usage)
        BY <1>1, <1>5, <2>1
      <3> QED BY <3>1 DEF Updated
    <2>2. CASE owner[k] # heard
      <3>1. UNCHANGED <<resources, table>> /\ stale = {}
        BY <1>1, <2>2
      <3> QED BY <3>1 DEF NumbersInv, TablesAgree, Listed
    <2> QED BY <2>1, <2>2
  <1> QED BY <1>7, <1>8, <1>9 DEF NumbersInv

\* What moves neither the tables nor what they have been sent.
LEMMA NumbersElsewhere ==
    ASSUME NumbersInv, UNCHANGED <<table, resources, stale>>,
           loaded' \subseteq Pipes, tick' \in Nat,
           wire' \in [Sockets -> Seq({APINodeUsageMessage(s) : s \in Stats})]
    PROVE  NumbersInv'
  BY DEF NumbersInv, TableTypes, ReportsInv, TablesAgree, Listed

\* What the node sends is a report.
LEMMA ReportSent ==
    ASSUME NumbersInv, log_node_utilization
    PROVE  /\ tick' \in Nat
           /\ wire' \in [Sockets -> Seq({APINodeUsageMessage(s) : s \in Stats})]
  <1> DEFINE t == IF tick < MaxTicks THEN tick + 1 ELSE MaxTicks
             message == APINodeUsageMessage(NodePerformanceStats(t, loaded, loaded))
             Messages == {APINodeUsageMessage(s) : s \in Stats}
  <1>1. /\ tick' = t
        /\ wire' = [k \in Sockets |-> IF k \in connections THEN Append(wire[k], message) ELSE wire[k]]
    BY DEF log_node_utilization
  <1>2. t \in Nat
    BY ConstantsAssumption DEF NumbersInv, TableTypes
  <1>3. message \in Messages
    <2>1. loaded \in SUBSET Pipes
      BY DEF NumbersInv, TableTypes
    <2> HIDE DEF t
    <2> QED BY <1>2, <2>1, StatsFacts
  <1> HIDE DEF message, Messages
  <1>4. wire \in [Sockets -> Seq(Messages)]
    BY DEF NumbersInv, ReportsInv, Messages
  <1>5. wire' \in [Sockets -> Seq(Messages)]
    BY <1>1, <1>3, <1>4
  <1> QED BY <1>1, <1>2, <1>5 DEF Messages

\* Every step keeps the numbers of one report together.
LEMMA NumbersInductive == NumbersInv /\ SocketTypes /\ [Next]_vars => NumbersInv'
  <1> SUFFICES ASSUME NumbersInv, SocketTypes, [Next]_vars PROVE NumbersInv'
    OBVIOUS
  <1> DEFINE Messages == {APINodeUsageMessage(s) : s \in Stats}
  <1>0. wire \in [Sockets -> Seq(Messages)] /\ loaded \subseteq Pipes /\ tick \in Nat
    BY DEF NumbersInv, TableTypes, ReportsInv
  <1> HIDE DEF Messages
  <1>e. <<>> \in Seq(Messages)
    OBVIOUS
  <1>s. 1..used \subseteq Sockets
    BY Made
  <1>1. CASE UNCHANGED vars
    BY <1>0, <1>1, NumbersElsewhere DEF vars, nodeVars, viewVars, Messages
  <1>2. CASE refresh \/ retry
    BY <1>0, <1>2, NumbersElsewhere DEF refresh, retry, nodeVars, viewVars, Messages
  <1>3. CASE selectNode
    <2>1. /\ UNCHANGED <<table, loaded, tick, wire>> /\ Mount(serverAvailable, TRUE)
      BY <1>3 DEF selectNode, nodeVars
    <2>2. "pipes" \in Tables
      BY DEF Tables
    <2> QED BY <2>1, <2>2, MountFacts, FreshRows
  <1>4. CASE log_node_utilization /\ PageUnchanged
    <2>1. UNCHANGED <<table, resources, stale, loaded>>
      BY <1>4 DEF log_node_utilization, PageUnchanged, viewVars
    <2> QED BY <1>0, <1>4, <2>1, ReportSent, NumbersElsewhere
  <1>5. ASSUME NEW p \in Pipes, load_pipe(p), PageUnchanged PROVE NumbersInv'
    <2>1. /\ UNCHANGED <<table, resources, stale, tick, wire>>
          /\ loaded' \subseteq Pipes
      BY <1>0, <1>5 DEF load_pipe, PageUnchanged, viewVars
    <2> QED BY <1>0, <2>1, NumbersElsewhere DEF Messages
  <1>6. ASSUME NEW k \in 1..used, SocketEvent(k) PROVE NumbersInv'
    <2>1. UNCHANGED <<table, resources, stale, loaded, tick>> /\ wire' = [wire EXCEPT ![k] = <<>>]
      BY <1>6 DEF SocketEvent, viewVars
    <2>2. wire' \in [Sockets -> Seq(Messages)]
      BY <1>0, <1>e, <2>1
    <2> QED BY <1>0, <2>1, <2>2, NumbersElsewhere DEF Messages
  <1>7. ASSUME NEW k \in 1..used, OnMessage(k) PROVE NumbersInv'
    BY <1>s, <1>7, OnMessageKeeps
  <1>8. ASSUME NEW t \in Tables, NEW f, answer(t, f) \/ setRows(t, f) PROVE NumbersInv'
    <2>1. CASE answer(t, f)
      BY <1>0, <2>1, NumbersElsewhere DEF answer, nodeVars, viewVars, Messages
    <2>2. CASE setRows(t, f)
      BY <2>2, FreshRows DEF setRows, nodeVars, viewVars
    <2> QED BY <1>8, <2>1, <2>2
  <1>9. ASSUME NEW f, checkServerEnds(f) PROVE NumbersInv'
    <2>1. /\ UNCHANGED <<loaded, tick, wire>>
          /\ table' = [table EXCEPT !["pipes"] = Rows(f.pipes)] \/ table' = table
          /\ \E available : Mount(available, AutoSelect)
      BY <1>9 DEF checkServerEnds, CheckAnswered, CheckFailed, nodeVars
    <2>2. "pipes" \in Tables
      BY DEF Tables
    <2> QED BY <2>1, <2>2, MountFacts, FreshRows
  <1>10. ASSUME NEW f, setNodes(f) PROVE NumbersInv'
    BY <1>0, <1>10, NumbersElsewhere DEF setNodes, nodeVars, viewVars, Messages
  <1>11. CASE restart
    <2>1. UNCHANGED <<table, resources, stale, tick>> /\ loaded' = {} /\ wire' = [k \in Sockets |-> <<>>]
      BY <1>11 DEF restart, viewVars
    <2>2. wire' \in [Sockets -> Seq(Messages)]
      BY <1>e, <2>1
    <2> QED BY <1>0, <2>1, <2>2, NumbersElsewhere DEF Messages
  <1> QED
    BY <1>1, <1>2, <1>3, <1>4, <1>5, <1>6, <1>7, <1>8, <1>9, <1>10, <1>11
       DEF Next, UserStep, SystemStep

LEMMA NumbersInvariance == Spec => []NumbersInv
  <1>1. IInv => SocketTypes
    BY DEF IInv
  <1> QED BY <1>1, Invariance, NumbersInitially, NumbersInductive, PTL DEF Spec

\* Through refreshes, new views and restarts the three tables of a view show one
\* report: no row keeps the numbers of an earlier one that the last report speaks of.
THEOREM NumbersOfOneReport == Spec => []TablesAgree
  <1>1. NumbersInv => TablesAgree
    BY DEF NumbersInv
  <1> QED BY <1>1, NumbersInvariance, PTL

-----------------------------------------------------------------------------
(* The fetches under way *)

\* A bag of one element, and what adding and taking away does to bags.
One(f) == SetToBag({f})

LEMMA BagFacts ==
    /\ DOMAIN EmptyBag = {}
    /\ \A f : DOMAIN One(f) = {f}
  BY DEF EmptyBag, SetToBag, One

LEMMA BagDomains ==
    /\ \A b, c : DOMAIN (b (+) c) = DOMAIN b \cup DOMAIN c
    /\ \A b, c : DOMAIN (b (-) c) \subseteq DOMAIN b
  BY DEF (+), (-)

LEMMA BagSingles ==
    /\ EmptyBag (-) EmptyBag = EmptyBag
    /\ \A f : /\ One(f) (-) One(f) = EmptyBag
              /\ EmptyBag (+) One(f) = One(f)
              /\ One(f) (-) EmptyBag = One(f)
  BY DEF EmptyBag, SetToBag, One, (+), (-)

Fetches == [check : BOOLEAN, answered : BOOLEAN, pipes : SUBSET Pipes]

FetchTypes ==
    /\ DOMAIN flights = Lists
    /\ \A t \in Tables : DOMAIN flights[t] \subseteq Fetches

\* Until a restart, what is listed, and every answer under way, is loaded.
AnswersInv ==
    restarts = 0 =>
        \A t \in Tables :
            /\ Listed(t) \subseteq loaded
            /\ \A f \in DOMAIN flights[t] : f.answered => f.pipes \subseteq loaded

\* One fetch of a list is under way at a time, unless some overlapped; its answer
\* lists what is listed already.
AloneInv ==
    \A t \in Tables \ overlapped :
        \/ flights[t] = EmptyBag
        \/ \E f \in Fetches :
              /\ flights[t] = One(f)
              /\ restarts = 0 /\ f.answered => Listed(t) \subseteq f.pipes

ListsInv == FetchTypes /\ AnswersInv /\ AloneInv

\* A fetch and its answer, and the names of the lists.
LEMMA FetchFacts ==
    /\ \A check \in BOOLEAN : Asked(check) \in Fetches /\ ~Asked(check).answered
    /\ \A f \in Fetches : \A pipes \in SUBSET Pipes :
          Answer(f, pipes) \in Fetches /\ Answer(f, pipes).pipes = pipes
    /\ "pipes" \in Lists /\ "nodes" \in Lists /\ "nodes" \notin Tables /\ Tables \subseteq Lists
  <1>1. \A check \in BOOLEAN : Asked(check) \in Fetches /\ ~Asked(check).answered
    BY DEF Fetches, Asked
  <1>2. \A f \in Fetches : \A pipes \in SUBSET Pipes :
            Answer(f, pipes) \in Fetches /\ Answer(f, pipes).pipes = pipes
    BY DEF Fetches, Answer
  <1> QED BY <1>1, <1>2 DEF Lists, Tables

\* An applied answer lists its pipes.
LEMMA RowsListed ==
    ASSUME NumbersInv, NEW t \in Tables, NEW pipes, table' = [table EXCEPT ![t] = Rows(pipes)]
    PROVE  /\ Listed(t)' = pipes \cap Pipes
           /\ \A u \in Tables \ {t} : Listed(u)' = Listed(u)
  <1>1. table'[t] = Rows(pipes) /\ \A u \in Tables \ {t} : table'[u] = table[u]
    BY DEF NumbersInv, TableTypes
  <1> QED BY <1>1 DEF Listed, Rows, Absent, NoStats

\* Numbers add no row and remove none.
LEMMA OnMessageListed ==
    ASSUME NumbersInv, NEW k \in Sockets, OnMessage(k)
    PROVE  \A t \in Tables : Listed(t)' = Listed(t)
  <1> DEFINE Messages == {APINodeUsageMessage(s) : s \in Stats}
  <1>0. wire[k] # <<>> /\ wire[k] \in Seq(Messages)
    BY DEF OnMessage, NumbersInv, ReportsInv
  <1> HIDE DEF Messages
  <1>1. Head(wire[k]) \in Messages
    BY <1>0
  <1> USE DEF Messages
  <1>2. NextReport(k).stats.tick \in Nat
    BY <1>1, StatsFacts DEF NextReport
  <1>3. CASE UNCHANGED table
    BY <1>3 DEF Listed
  <1>4. CASE onUsageStats(NextReport(k).stats)
    <2> DEFINE n == NextReport(k).stats.tick
    <2> SUFFICES ASSUME NEW t \in Tables PROVE Listed(t)' = Listed(t)
      OBVIOUS
    <2>1. PICK reported : table'[t] = Updated(table[t], n, reported)
      BY <1>4 DEF onUsageStats
    <2>2. \A p \in Pipes : table'[t][p] # Absent <=> table[t][p] # Absent
      BY <1>2, <2>1 DEF Updated, Absent
    <2> QED BY <2>2 DEF Listed
  <1> QED BY <1>3, <1>4 DEF OnMessage

\* What leaves the fetches and the lists alone.
LEMMA ListsElsewhere ==
    ASSUME ListsInv, UNCHANGED fetchVars, \A t \in Tables : Listed(t)' = Listed(t),
           (restarts' = restarts /\ loaded \subseteq loaded') \/ restarts' # 0
    PROVE  ListsInv'
  <1>1. flights' = flights /\ overlapped' = overlapped
    BY DEF fetchVars
  <1>2. AnswersInv'
    BY <1>1 DEF ListsInv, AnswersInv
  <1>3. AloneInv'
    BY <1>1 DEF ListsInv, AloneInv
  <1> QED BY <1>1, <1>2, <1>3 DEF ListsInv, FetchTypes

\* Where no fetches overlapped, one that is under way is the only one.
LEMMA OnlyFetch ==
    ASSUME ListsInv, NEW t \in Tables \ overlapped, NEW f \in DOMAIN flights[t]
    PROVE  /\ flights[t] = One(f)
           /\ restarts = 0 /\ f.answered => Listed(t) \subseteq f.pipes
  <1>1. flights[t] # EmptyBag
    BY BagFacts
  <1>2. PICK g \in Fetches : /\ flights[t] = One(g)
                             /\ restarts = 0 /\ g.answered => Listed(t) \subseteq g.pipes
    BY <1>1 DEF ListsInv, AloneInv
  <1>3. g = f
    BY <1>2, BagFacts
  <1> QED BY <1>2, <1>3

\* The answer to a fetch: what is loaded at that moment.
LEMMA AnswerKeeps ==
    ASSUME NumbersInv, ListsInv, NEW t \in Tables, NEW f \in DOMAIN flights[t], answer(t, f)
    PROVE  ListsInv'
  <1> DEFINE g == Answer(f, loaded)
             back == One(f)
             now == One(g)
  <1>1. /\ ~f.answered /\ f \in Fetches /\ UNCHANGED <<restarts, loaded, table, overlapped>>
        /\ flights' = [flights EXCEPT ![t] = (flights[t] (-) back) (+) now]
    BY DEF answer, ListsInv, FetchTypes, nodeVars, One
  <1>2. g \in Fetches /\ g.pipes = loaded
    BY <1>1, FetchFacts DEF NumbersInv, TableTypes
  <1>3. /\ flights'[t] = (flights[t] (-) back) (+) now
        /\ \A u \in Lists \ {t} : flights'[u] = flights[u]
        /\ DOMAIN flights' = Lists
    BY <1>1, FetchFacts DEF ListsInv, FetchTypes
  <1>4. DOMAIN flights'[t] \subseteq DOMAIN flights[t] \cup {g}
    <2>1. DOMAIN now = {g}
      BY BagFacts
    <2> DEFINE left == flights[t] (-) back
    <2>2. DOMAIN left \subseteq DOMAIN flights[t]
      BY BagDomains
    <2>3. flights'[t] = left (+) now
      BY <1>3
    <2> HIDE DEF now, left
    <2>4. DOMAIN flights'[t] = DOMAIN left \cup DOMAIN now
      BY <2>3, BagDomains
    <2> QED BY <2>1, <2>2, <2>4
  <1> HIDE DEF g
  <1>5. FetchTypes'
    BY <1>2, <1>3, <1>4, FetchFacts DEF ListsInv, FetchTypes
  <1>6. \A u \in Tables : Listed(u)' = Listed(u)
    BY <1>1 DEF Listed
  <1>7. AnswersInv'
    BY <1>1, <1>2, <1>3, <1>4, <1>6, FetchFacts DEF ListsInv, AnswersInv
  <1>8. AloneInv'
    <2> SUFFICES ASSUME NEW u \in Tables \ overlapped
                 PROVE  \/ flights'[u] = EmptyBag
                        \/ \E h \in Fetches :
                              /\ flights'[u] = One(h)
                              /\ restarts = 0 /\ h.answered => Listed(u) \subseteq h.pipes
      BY <1>1, <1>6 DEF AloneInv
    <2>1. CASE u # t
      BY <1>3, <2>1, FetchFacts DEF ListsInv, AloneInv
    <2>2. CASE u = t
      <3>1. flights[t] = One(f)
        BY <2>2, OnlyFetch
      <3>2. flights'[t] = One(g)
        BY <1>3, <3>1, BagSingles DEF back, now
      <3>3. restarts = 0 => Listed(t) \subseteq loaded
        BY DEF ListsInv, AnswersInv
      <3> QED BY <1>2, <2>2, <3>2, <3>3
    <2> QED BY <2>1, <2>2
  <1> QED BY <1>5, <1>7, <1>8 DEF ListsInv

\* What comes back to a list was alone, or leaves others behind it, which then
\* have overlapped, as have those that are under way when another begins.
LEMMA FlyFacts ==
    ASSUME ListsInv, NEW l \in Lists, NEW back, NEW asked \in SUBSET Lists, Fly(l, back, asked),
           back = EmptyBag \/ \E f \in DOMAIN flights[l] : back = One(f)
    PROVE  /\ DOMAIN flights' = Lists
           /\ \A t \in Tables : DOMAIN flights'[t] \subseteq DOMAIN flights[t] \cup {Asked(FALSE)}
           /\ \A t \in Tables \ overlapped' :
                 \/ flights'[t] = EmptyBag \/ flights'[t] = One(Asked(FALSE))
                 \/ /\ t \notin overlapped /\ flights'[t] = flights[t]
                    /\ t # l \/ back = EmptyBag
  <1> DEFINE left == [m \in Lists |-> IF m = l THEN flights[m] (-) back ELSE flights[m]]
             new == One(Asked(FALSE))
  <1>1. /\ flights' = [m \in Lists |-> IF m \in asked THEN left[m] (+) new ELSE left[m]]
        /\ overlapped' = {m \in Tables : left[m] # EmptyBag /\ m \in overlapped \cup asked}
    BY DEF Fly, One
  <1>2. DOMAIN new = {Asked(FALSE)} /\ EmptyBag (+) new = new
    BY BagFacts, BagSingles
  <1>3. \A m \in Lists : left[m] = IF m = l THEN flights[m] (-) back ELSE flights[m]
    OBVIOUS
  <1> HIDE DEF left, new
  <1>4. \A m \in Lists : DOMAIN left[m] \subseteq DOMAIN flights[m]
    BY <1>3, BagDomains
  <1>5. ASSUME NEW t \in Tables
        PROVE  DOMAIN flights'[t] \subseteq DOMAIN flights[t] \cup {Asked(FALSE)}
    <2>1. t \in Lists
      BY FetchFacts
    <2>2. DOMAIN (left[t] (+) new) = DOMAIN left[t] \cup {Asked(FALSE)}
      <3>1. DOMAIN (left[t] (+) new) = DOMAIN left[t] \cup DOMAIN new
        BY BagDomains
      <3> QED BY <1>2, <3>1
    <2>3. flights'[t] = left[t] (+) new \/ flights'[t] = left[t]
      BY <1>1, <2>1
    <2> QED BY <1>4, <2>1, <2>2, <2>3
  <1>6. ASSUME NEW t \in Tables \ overlapped'
        PROVE  \/ flights'[t] = EmptyBag \/ flights'[t] = new
               \/ /\ t \notin overlapped /\ flights'[t] = flights[t]
                  /\ t # l \/ back = EmptyBag
    <2>1. t \in Lists
      BY FetchFacts
    <2>2. CASE left[t] = EmptyBag
      <3>1. flights'[t] = IF t \in asked THEN left[t] (+) new ELSE left[t]
        BY <1>1, <2>1
      <3> QED BY <1>2, <2>2, <3>1
    <2>3. CASE left[t] # EmptyBag
      <3>1. t \notin overlapped /\ t \notin asked /\ flights'[t] = left[t]
        BY <1>1, <2>1, <2>3
      <3>2. CASE t # l
        BY <1>3, <2>1, <3>1, <3>2
      <3>3. CASE t = l
        <4>1. flights[t] = EmptyBag \/ \E f \in Fetches : flights[t] = One(f)
          BY <3>1 DEF ListsInv, AloneInv
        <4>2. left[t] = flights[t] (-) back
          BY <1>3, <2>1, <3>3
        <4>3. back = EmptyBag
          <5>1. ASSUME NEW f \in DOMAIN flights[l], back = One(f) PROVE FALSE
            <6>1. flights[t] = One(f)
              BY <3>1, <3>3, OnlyFetch
            <6> QED BY <2>3, <4>2, <5>1, <6>1, BagSingles
          <5> QED BY <5>1
        <4>4. left[t] = flights[t]
          BY <4>1, <4>2, <4>3, BagSingles
        <4> QED BY <3>1, <4>3, <4>4
      <3> QED BY <3>2, <3>3
    <2> QED BY <2>2, <2>3
  <1>7. DOMAIN flights' = Lists
    BY <1>1
  <1> QED BY <1>5, <1>6, <1>7 DEF new

\* The lists after fetches have come back and begun: the answer that is shown was
\* the one that came back.
LEMMA FlyKeeps ==
    ASSUME NumbersInv, ListsInv, NEW l \in Lists, NEW back, NEW asked \in SUBSET Lists,
           Fly(l, back, asked), UNCHANGED <<restarts, loaded>>,
           \/ /\ back = EmptyBag \/ \E f \in DOMAIN flights[l] : back = One(f)
              /\ UNCHANGED table
           \/ \E f \in DOMAIN flights[l] :
                 /\ back = One(f) /\ f.answered /\ l \in Tables
                 /\ table' = [table EXCEPT ![l] = Rows(f.pipes)]
    PROVE  /\ ListsInv'
           /\ restarts' = 0 => \A t \in Tables \ overlapped : Listed(t) \subseteq Listed(t)'
  <1> DEFINE new == Asked(FALSE)
  <1>1. back = EmptyBag \/ \E f \in DOMAIN flights[l] : back = One(f)
    OBVIOUS
  <1>2. new \in Fetches /\ ~new.answered /\ Tables \subseteq Lists
    BY FetchFacts
  <1>3. /\ DOMAIN flights' = Lists
        /\ \A t \in Tables : DOMAIN flights'[t] \subseteq DOMAIN flights[t] \cup {new}
        /\ \A t \in Tables \ overlapped' :
              \/ flights'[t] = EmptyBag \/ flights'[t] = One(new)
              \/ /\ t \notin overlapped /\ flights'[t] = flights[t]
                 /\ t # l \/ back = EmptyBag
    BY <1>1, FlyFacts
  <1> HIDE DEF new
  <1>4. \/ \A t \in Tables : Listed(t)' = Listed(t)
        \/ /\ l \in Tables /\ \A t \in Tables \ {l} : Listed(t)' = Listed(t)
           /\ \E f \in DOMAIN flights[l] : /\ back = One(f) /\ f.answered
                                           /\ Listed(l)' = f.pipes \cap Pipes
    <2>1. CASE UNCHANGED table
      BY <2>1 DEF Listed
    <2>2. CASE \E f \in DOMAIN flights[l] :
                  /\ back = One(f) /\ f.answered /\ l \in Tables
                  /\ table' = [table EXCEPT ![l] = Rows(f.pipes)]
      BY <2>2, RowsListed
    <2> QED BY <2>1, <2>2
  <1>5. FetchTypes'
    BY <1>2, <1>3 DEF ListsInv, FetchTypes
  <1>6. AnswersInv'
    <2> SUFFICES ASSUME restarts = 0, NEW t \in Tables
                 PROVE  /\ Listed(t)' \subseteq loaded
                        /\ \A f \in DOMAIN flights'[t] : f.answered => f.pipes \subseteq loaded
      BY DEF AnswersInv
    <2>1. /\ Listed(t) \subseteq loaded
          /\ \A f \in DOMAIN flights[t] : f.answered => f.pipes \subseteq loaded
      BY DEF ListsInv, AnswersInv
    <2> QED BY <1>2, <1>3, <1>4, <2>1
  <1>7. AloneInv'
    <2> SUFFICES ASSUME NEW t \in Tables \ overlapped'
                 PROVE  \/ flights'[t] = EmptyBag
                        \/ \E f \in Fetches :
                              /\ flights'[t] = One(f)
                              /\ restarts = 0 /\ f.answered => Listed(t)' \subseteq f.pipes
      BY DEF AloneInv
    <2>1. CASE flights'[t] = One(new)
      BY <1>2, <2>1
    <2>2. CASE /\ t \notin overlapped /\ flights'[t] = flights[t]
               /\ t # l \/ back = EmptyBag
      <3>1. \A f : back = One(f) => back # EmptyBag
        BY BagFacts
      <3>2. Listed(t)' = Listed(t)
        BY <1>4, <2>2, <3>1
      <3> QED BY <2>2, <3>2 DEF ListsInv, AloneInv
    <2> QED BY <1>3, <2>1, <2>2
  <1>8. ASSUME restarts' = 0, NEW t \in Tables \ overlapped
        PROVE  Listed(t) \subseteq Listed(t)'
    <2>1. CASE Listed(t)' = Listed(t)
      BY <2>1
    <2>2. CASE t = l /\ \E f \in DOMAIN flights[l] :
                          f.answered /\ Listed(l)' = f.pipes \cap Pipes
      <3>1. PICK f \in DOMAIN flights[t] : f.answered /\ Listed(t)' = f.pipes \cap Pipes
        BY <2>2
      <3>2. Listed(t) \subseteq f.pipes
        BY <1>8, <3>1, OnlyFetch
      <3> QED BY <3>1, <3>2 DEF Listed
    <2> QED BY <1>4, <2>1, <2>2
  <1> QED BY <1>5, <1>6, <1>7, <1>8 DEF ListsInv

LEMMA ListsInitially == Init => ListsInv
  <1> SUFFICES ASSUME Init PROVE ListsInv
    OBVIOUS
  <1>1. /\ DOMAIN flights = Lists /\ \A t \in Tables : Listed(t) = {}
        /\ flights["pipes"] = One(Asked(TRUE)) /\ flights["queues"] = EmptyBag
    BY FetchFacts DEF Init, Listed, One, Lists, Tables
  <1>2. \A t \in Tables : DOMAIN flights[t] \subseteq {Asked(TRUE)}
    BY <1>1, BagFacts DEF Tables
  <1>3. Asked(TRUE) \in Fetches /\ ~Asked(TRUE).answered
    BY FetchFacts
  <1>4. FetchTypes /\ AnswersInv
    BY <1>1, <1>2, <1>3 DEF FetchTypes, AnswersInv
  <1>5. AloneInv
    BY <1>1, <1>3 DEF AloneInv, Tables
  <1> QED BY <1>4, <1>5 DEF ListsInv

\* Asking again while the check is under way overlaps.
LEMMA RetryKeeps ==
    ASSUME ListsInv, retry
    PROVE  ListsInv'
  <1> DEFINE new == Asked(TRUE)
             more == flights["pipes"] (+) One(new)
  <1>1. /\ UNCHANGED <<restarts, loaded, table>> /\ flights' = [flights EXCEPT !["pipes"] = more]
        /\ overlapped' = IF flights["pipes"] = EmptyBag THEN overlapped ELSE overlapped \cup {"pipes"}
    BY DEF retry, nodeVars, One
  <1>2. new \in Fetches /\ ~new.answered /\ Tables \subseteq Lists /\ "pipes" \in Lists
    BY FetchFacts
  <1>3. /\ DOMAIN more = DOMAIN flights["pipes"] \cup {new}
        /\ flights["pipes"] = EmptyBag => more = One(new)
    <2>1. DOMAIN One(new) = {new}
      BY BagFacts
    <2> HIDE DEF new
    <2>2. DOMAIN more = DOMAIN flights["pipes"] \cup DOMAIN One(new)
      BY BagDomains
    <2> QED BY <2>1, <2>2, BagSingles
  <1> HIDE DEF new, more
  <1>4. /\ DOMAIN flights' = Lists /\ flights'["pipes"] = more
        /\ \A t \in Lists \ {"pipes"} : flights'[t] = flights[t]
    BY <1>1, <1>2 DEF ListsInv, FetchTypes
  <1>5. \A t \in Tables : Listed(t)' = Listed(t)
    BY <1>1 DEF Listed
  <1>6. \A t \in Tables : DOMAIN flights'[t] \subseteq DOMAIN flights[t] \cup {new}
    BY <1>2, <1>3, <1>4
  <1>7. FetchTypes' /\ AnswersInv'
    BY <1>1, <1>2, <1>4, <1>5, <1>6 DEF ListsInv, FetchTypes, AnswersInv
  <1>8. AloneInv'
    <2> SUFFICES ASSUME NEW t \in Tables \ overlapped'
                 PROVE  \/ flights'[t] = EmptyBag
                        \/ \E f \in Fetches :
                              /\ flights'[t] = One(f)
                              /\ restarts = 0 /\ f.answered => Listed(t) \subseteq f.pipes
      BY <1>1, <1>5 DEF AloneInv
    <2>1. t \notin overlapped /\ t \in Lists
      BY <1>1, <1>2
    <2>2. CASE t = "pipes"
      <3>1. flights["pipes"] = EmptyBag
        BY <1>1, <2>2
      <3> QED BY <1>2, <1>3, <1>4, <2>2, <3>1
    <2>3. CASE t # "pipes"
      BY <1>4, <2>1, <2>3 DEF ListsInv, AloneInv
    <2> QED BY <2>2, <2>3
  <1> QED BY <1>7, <1>8 DEF ListsInv

\* Every step keeps the invariant, and what is listed.
LEMMA ListsInductive ==
    ASSUME NumbersInv, SocketTypes, ListsInv, [Next]_vars
    PROVE  /\ ListsInv'
           /\ restarts' = 0 => \A t \in Tables \ overlapped : Listed(t) \subseteq Listed(t)'
  <1> DEFINE Grow == restarts' = 0 => \A t \in Tables \ overlapped : Listed(t) \subseteq Listed(t)'
  <1>s. UNCHANGED table => \A t \in Tables : Listed(t)' = Listed(t)
    BY DEF Listed
  <1>g. (\A t \in Tables : Listed(t)' = Listed(t)) => Grow
    OBVIOUS
  <1>u. 1..used \subseteq Sockets
    BY Made
  <1>b. EmptyBag (+) EmptyBag = EmptyBag /\ Lists \in SUBSET Lists /\ {} \in SUBSET Lists
    BY DEF EmptyBag, SetToBag, (+)
  <1>1. CASE UNCHANGED vars
    BY <1>1, <1>s, <1>g, ListsElsewhere DEF vars, nodeVars
  <1>2. CASE refresh
    <2>1. Fly("nodes", EmptyBag, Lists) /\ UNCHANGED <<restarts, loaded, table>>
      BY <1>2 DEF refresh, nodeVars
    <2> QED BY <1>b, <2>1, FetchFacts, FlyKeeps
  <1>3. CASE retry
    <2>1. UNCHANGED table
      BY <1>3 DEF retry
    <2> QED BY <1>3, <1>s, <1>g, <2>1, RetryKeeps
  <1>4. CASE selectNode
    BY <1>4, <1>s, <1>g, ListsElsewhere DEF selectNode, nodeVars
  <1>5. CASE log_node_utilization /\ PageUnchanged
    BY <1>5, <1>s, <1>g, ListsElsewhere DEF log_node_utilization, PageUnchanged
  <1>6. ASSUME NEW p \in Pipes, load_pipe(p), PageUnchanged PROVE ListsInv' /\ Grow
    BY <1>6, <1>s, <1>g, ListsElsewhere DEF load_pipe, PageUnchanged
  <1>7. ASSUME NEW k \in 1..used, SocketEvent(k) PROVE ListsInv' /\ Grow
    BY <1>7, <1>s, <1>g, ListsElsewhere DEF SocketEvent
  <1>8. ASSUME NEW k \in 1..used, OnMessage(k) PROVE ListsInv' /\ Grow
    <2>1. /\ \A t \in Tables : Listed(t)' = Listed(t)
          /\ UNCHANGED <<fetchVars, restarts, loaded>>
      BY <1>8, <1>u, OnMessageListed DEF OnMessage
    <2> QED BY <2>1, <1>g, ListsElsewhere
  <1>9. ASSUME NEW t \in Tables, NEW f \in DOMAIN flights[t], answer(t, f)
        PROVE  ListsInv' /\ Grow
    <2>1. UNCHANGED table
      BY <1>9 DEF answer
    <2> QED BY <1>9, <1>s, <1>g, <2>1, AnswerKeeps
  <1>10. ASSUME NEW t \in Tables, NEW f \in DOMAIN flights[t], setRows(t, f)
         PROVE  ListsInv' /\ Grow
    <2>1. /\ f.answered /\ table' = [table EXCEPT ![t] = Rows(f.pipes)]
          /\ Fly(t, One(f), {}) /\ UNCHANGED <<restarts, loaded>>
      BY <1>10 DEF setRows, nodeVars, One
    <2> QED BY <1>b, <2>1, FetchFacts, FlyKeeps
  <1>11. ASSUME NEW f \in DOMAIN flights["pipes"], checkServerEnds(f)
         PROVE  ListsInv' /\ Grow
    <2>1. UNCHANGED <<restarts, loaded>> /\ "pipes" \in Lists /\ "pipes" \in Tables
      BY <1>11 DEF checkServerEnds, nodeVars, Tables, Lists
    <2>2. CASE CheckAnswered(f)
      <3>1. /\ f.answered /\ table' = [table EXCEPT !["pipes"] = Rows(f.pipes)]
            /\ Fly("pipes", One(f), Lists)
        BY <2>2 DEF CheckAnswered, One
      <3> QED BY <1>b, <2>1, <3>1, FlyKeeps
    <2>3. CASE CheckFailed(f)
      <3>1. UNCHANGED table /\ Fly("pipes", One(f), {})
        BY <2>3 DEF CheckFailed, One
      <3> QED BY <1>b, <2>1, <3>1, FlyKeeps
    <2> QED BY <1>11, <2>2, <2>3 DEF checkServerEnds
  <1>12. ASSUME NEW f \in DOMAIN flights["nodes"], setNodes(f)
         PROVE  ListsInv' /\ Grow
    <2>1. /\ UNCHANGED <<restarts, loaded, table>> /\ Fly("nodes", One(f), {})
      BY <1>12 DEF setNodes, nodeVars, One
    <2> QED BY <1>b, <2>1, FetchFacts, FlyKeeps
  <1>13. CASE restart
    <2>1. restarts' # 0 /\ UNCHANGED <<table, fetchVars>>
      BY <1>13 DEF restart, SocketTypes
    <2> QED BY <2>1, <1>s, <1>g, ListsElsewhere
  <1> QED
    BY <1>1, <1>2, <1>3, <1>4, <1>5, <1>6, <1>7, <1>8, <1>9, <1>10, <1>11, <1>12, <1>13
       DEF Next, UserStep, SystemStep

LEMMA ListsInvariance == Spec => []ListsInv
  <1>1. IInv => SocketTypes
    BY DEF IInv
  <1>2. NumbersInv /\ SocketTypes /\ ListsInv /\ [Next]_vars => ListsInv'
    BY ListsInductive
  <1> QED BY <1>1, <1>2, Invariance, NumbersInvariance, ListsInitially, PTL DEF Spec

\* Until the node restarts, what is listed stays listed, as read_pipes and read_queues
\* answer all that is loaded, and the answers come in the order of the fetches where
\* only one is under way at a time.
THEOREM ListedStays == Spec => ListsGrow
  <1>1. IInv => SocketTypes
    BY DEF IInv
  <1>2. NumbersInv /\ SocketTypes /\ ListsInv /\ [Next]_vars
           => [restarts' = 0 => \A t \in Tables \ overlapped : Listed(t) \subseteq Listed(t)']_vars
    BY ListsInductive
  <1> QED BY <1>1, <1>2, Invariance, NumbersInvariance, ListsInvariance, PTL DEF Spec, ListsGrow
=============================================================================
