--------------------------- MODULE PipeViewProofs ---------------------------
(***************************************************************************)
(* Theorems about the sockets of the Pipe objects in PipeView, about what  *)
(* the node tells its ends of them, and about the trees that are drawn, for*)
(* every set of pipes, every graph (the trees: of any that can be built)   *)
(* and every bound: whatever is selected, fetched, run or failed.          *)
(***************************************************************************)
EXTENDS PipeView, SequenceTheorems, FiniteSetTheorems, WellFoundedInduction, TLAPS

ReadyStateNames == {"none", "connecting", "open", "closing", "closed"}
Sides == {"none", "live", "gone", "failed", "left"}

SocketTypes ==
    /\ fetched \in 1..MaxFetches
    /\ selectedPipeId \in Pipes \cup {NoPipe}
    /\ connected \in [Objects -> BOOLEAN]
    /\ owner \in Seq(Objects) /\ used <= MaxSockets
    /\ socket \in [Objects -> 0..used]
    /\ readyState \in [Sockets -> ReadyStateNames]
    /\ \A k \in Sockets : k > used => readyState[k] = "none"
    /\ side \in [Sockets -> Sides]

\* A socket that neither the page nor a failed handler has closed, or one whose
\* handler has failed.
Kept(k) == readyState[k] \in {"connecting", "open"} \/ side[k] = "failed"

\* Only a mounted NodeView closes sockets.
UnmountedInv == ~nodeShown => \A k \in 1..used : Kept(k)

\* Before the first selection there is no socket.
FirstInv == ~cleared /\ selectedPipeId = NoPipe => used = 0

\* ShownNotClosed, whether or not the view is mounted.
SelectedInv ==
    ~cleared /\ selectedPipeId # NoPipe /\ socket[Shown] # 0 => Kept(socket[Shown])

IInv == SocketTypes /\ ConnectedHasSocket /\ UnmountedInv /\ FirstInv /\ SelectedInv

-----------------------------------------------------------------------------
LEMMA Initially == Init => IInv
  <1> SUFFICES ASSUME Init PROVE IInv
    OBVIOUS
  <1>1. SocketTypes /\ used = 0
    BY ConstantsAssumption DEF Init, SocketTypes, used, Sockets, ReadyStateNames, Sides
  <1>2. ConnectedHasSocket
    BY DEF Init, ConnectedHasSocket
  <1>3. UnmountedInv /\ FirstInv /\ SelectedInv
    BY <1>1 DEF Init, UnmountedInv, FirstInv, SelectedInv
  <1> QED BY <1>1, <1>2, <1>3 DEF IInv

\* The sockets that were made, and the objects.
LEMMA Made ==
    ASSUME SocketTypes
    PROVE  /\ used \in Nat /\ 1..used \subseteq Sockets /\ MaxSockets \in Nat
           /\ \A k \in 1..used : owner[k] \in Objects
           /\ \A p \in Pipes : Object(p) \in Objects
  <1>1. owner \in Seq(Objects) /\ used <= MaxSockets /\ fetched \in 1..MaxFetches
    BY DEF SocketTypes
  <1>2. used \in Nat /\ MaxSockets \in Nat
    BY <1>1, ConstantsAssumption DEF used
  <1>3. 1..used \subseteq Sockets
    BY <1>1, <1>2 DEF Sockets
  <1>4. \A k \in 1..used : owner[k] \in Objects
    BY <1>1 DEF used
  <1>5. \A p \in Pipes : Object(p) \in Objects
    BY <1>1 DEF Objects, Object
  <1> QED BY <1>2, <1>3, <1>4, <1>5

-----------------------------------------------------------------------------
(* The steps that make and close no socket *)

\* What the node does, and clicks on Run: a handler that has failed stays so.
LEMMA Elsewhere ==
    ASSUME IInv,
           UNCHANGED <<fetched, selectedPipeId, nodeShown, cleared, connected, socket,
                       owner, readyState>>,
           side' \in [Sockets -> Sides],
           \A k \in Sockets : side[k] = "failed" => side'[k] = "failed"
    PROVE  IInv'
  <1>1. SocketTypes' /\ used' = used
    BY DEF IInv, SocketTypes, used
  <1>2. \A k \in 1..used : Kept(k) => Kept(k)'
    BY Made DEF IInv, Kept
  <1>3. ConnectedHasSocket'
    BY <1>1 DEF IInv, ConnectedHasSocket
  <1>4. UnmountedInv' /\ FirstInv'
    BY <1>1, <1>2 DEF IInv, UnmountedInv, FirstInv
  <1>5. SelectedInv'
    <2> SUFFICES ASSUME ~cleared, selectedPipeId # NoPipe, socket[Shown] # 0
                 PROVE  Kept(socket[Shown])'
      BY DEF SelectedInv, Shown, Object
    <2>1. Shown' = Shown /\ socket' = socket /\ socket[Shown] \in 1..used
      BY Made DEF IInv, SocketTypes, Shown, Object
    <2>2. Kept(socket[Shown])
      BY DEF IInv, SelectedInv
    <2> QED BY <2>1, <2>2, <1>2
  <1> QED BY <1>1, <1>3, <1>4, <1>5 DEF IInv

\* Clear leaves the sockets; what is selected next is not promised anything.
LEMMA ClearKeeps ==
    ASSUME IInv, Clear
    PROVE  IInv'
  <1>1. /\ UNCHANGED <<fetched, nodeShown, connected, socket, owner, readyState, side>>
        /\ selectedPipeId' = NoPipe /\ cleared' /\ used' = used
    BY DEF Clear, objectVars, socketVars, nodeVars, used
  <1> QED BY <1>1 DEF IInv, SocketTypes, ConnectedHasSocket, UnmountedInv, FirstInv,
                SelectedInv, Kept

LEMMA SelectNodeKeeps ==
    ASSUME IInv, selectNode
    PROVE  IInv'
  <1>1. /\ UNCHANGED <<fetched, selectedPipeId, cleared, connected, socket, owner,
                       readyState, side>>
        /\ nodeShown' /\ used' = used
    BY DEF selectNode, objectVars, socketVars, nodeVars, used
  <1> QED BY <1>1 DEF IInv, SocketTypes, ConnectedHasSocket, UnmountedInv, FirstInv,
                SelectedInv, Kept, Shown, Object

\* A socket opens: a promise more.
LEMMA OpenedKeeps ==
    ASSUME IInv, NEW k \in Sockets, Opened(k)
    PROVE  IInv'
  <1>1. /\ UNCHANGED <<fetched, selectedPipeId, nodeShown, cleared, socket, owner, side>>
        /\ readyState[k] = "connecting" /\ readyState' = [readyState EXCEPT ![k] = "open"]
        /\ connected' = [connected EXCEPT ![owner[k]] = TRUE]
        /\ used' = used
    BY DEF Opened, OnOpen, choiceVars, nodeVars, used
  <1>2. k \in 1..used
    <2>1. readyState[k] # "none"
      BY <1>1
    <2> QED BY <2>1, Made DEF IInv, SocketTypes, Sockets
  <1>3. SocketTypes'
    BY <1>1 DEF IInv, SocketTypes, ReadyStateNames
  <1>4. ConnectedHasSocket'
    BY <1>1, <1>2, Made DEF IInv, SocketTypes, ConnectedHasSocket
  <1>5. \A j \in 1..used : Kept(j) => Kept(j)'
    BY <1>1, Made DEF IInv, SocketTypes, Kept
  <1>6. UnmountedInv' /\ FirstInv'
    BY <1>1, <1>5 DEF IInv, UnmountedInv, FirstInv
  <1>7. SelectedInv'
    <2>1. socket' = socket /\ Shown' = Shown
      BY <1>1 DEF Shown, Object
    <2>2. selectedPipeId # NoPipe /\ socket[Shown] # 0 => socket[Shown] \in 1..used
      BY Made DEF IInv, SocketTypes, Shown
    <2> QED BY <1>1, <1>5, <2>1, <2>2 DEF IInv, SelectedInv
  <1> QED BY <1>3, <1>4, <1>6, <1>7 DEF IInv

\* A socket is closed: it was closing, so it was none of those that are kept, or its
\* handler has failed.
LEMMA ClosedKeeps ==
    ASSUME IInv, NEW k \in Sockets, Closed(k)
    PROVE  IInv'
  <1>1. /\ UNCHANGED <<fetched, selectedPipeId, nodeShown, cleared, socket, owner, side>>
        /\ readyState[k] = "closing" \/ side[k] = "failed"
        /\ readyState[k] # "none"
        /\ readyState' = [readyState EXCEPT ![k] = "closed"]
        /\ connected' = [connected EXCEPT ![owner[k]] = FALSE]
        /\ used' = used
    BY DEF Closed, OnClose, choiceVars, nodeVars, used
  <1>2. k \in 1..used
    BY <1>1, Made DEF IInv, SocketTypes, Sockets
  <1>3. SocketTypes'
    BY <1>1 DEF IInv, SocketTypes, ReadyStateNames
  <1>4. ConnectedHasSocket'
    BY <1>1, <1>2, Made DEF IInv, SocketTypes, ConnectedHasSocket
  <1>5. \A j \in 1..used : Kept(j) => Kept(j)'
    BY <1>1, Made DEF IInv, SocketTypes, Kept
  <1>6. UnmountedInv' /\ FirstInv'
    BY <1>1, <1>5 DEF IInv, UnmountedInv, FirstInv
  <1>7. SelectedInv'
    <2>1. socket' = socket /\ Shown' = Shown
      BY <1>1 DEF Shown, Object
    <2>2. selectedPipeId # NoPipe /\ socket[Shown] # 0 => socket[Shown] \in 1..used
      BY Made DEF IInv, SocketTypes, Shown
    <2> QED BY <1>1, <1>5, <2>1, <2>2 DEF IInv, SelectedInv
  <1> QED BY <1>3, <1>4, <1>6, <1>7 DEF IInv

-----------------------------------------------------------------------------
(* The steps that make and close sockets *)

\* What n new sockets of object o leave behind, when those of closing disconnect.
SocketsAdded(o, n, closing) ==
    /\ used' = used + n /\ used' <= MaxSockets
    /\ owner' \in Seq(Objects)
    /\ \A k \in 1..used : owner'[k] = owner[k]
    /\ socket' \in [Objects -> 0..used']
    /\ socket' = IF n = 0 THEN socket ELSE [socket EXCEPT ![o] = used + n]
    /\ readyState' \in [Sockets -> ReadyStateNames]
    /\ \A k \in Sockets : k > used' => readyState'[k] = "none"
    /\ \A k \in used + 1 .. used + n : readyState'[k] = "connecting"
    /\ \A k \in 1..used :
          readyState'[k] = IF /\ \E c \in closing : socket[c] = k
                              /\ readyState[k] \in {"connecting", "open"}
                           THEN "closing" ELSE readyState[k]

LEMMA NewSockets ==
    ASSUME SocketTypes, NEW o \in Objects, NEW n \in Nat, NEW closing,
           connect(o, n), ReadyStates(closing, n)
    PROVE  SocketsAdded(o, n, closing)
  <1>1. /\ used + n <= MaxSockets /\ used \in Nat
        /\ owner' = owner \o [i \in 1..n |-> o]
        /\ socket' = IF n = 0 THEN socket ELSE [socket EXCEPT ![o] = used + n]
        /\ readyState' = [k \in Sockets |->
              IF k \in used + 1 .. used + n THEN "connecting"
              ELSE IF /\ \E c \in closing : socket[c] = k
                      /\ readyState[k] \in {"connecting", "open"}
                   THEN "closing" ELSE readyState[k]]
    BY Made DEF connect, ReadyStates
  <1>2. [i \in 1..n |-> o] \in Seq(Objects) /\ Len([i \in 1..n |-> o]) = n
    OBVIOUS
  <1>3. /\ owner' \in Seq(Objects) /\ used' = used + n
        /\ \A k \in 1..used : owner'[k] = owner[k]
    BY <1>1, <1>2 DEF used, SocketTypes
  <1>4. socket' \in [Objects -> 0..used']
    BY <1>1, <1>3 DEF SocketTypes
  <1>5. readyState' \in [Sockets -> ReadyStateNames]
    BY <1>1 DEF SocketTypes, ReadyStateNames
  <1>6. \A k \in Sockets : k > used' => readyState'[k] = "none"
    BY <1>1, <1>3 DEF SocketTypes, Sockets
  <1>7. \A k \in used + 1 .. used + n : readyState'[k] = "connecting"
    BY <1>1, Made DEF Sockets
  <1>8. \A k \in 1..used :
           readyState'[k] = IF /\ \E c \in closing : socket[c] = k
                               /\ readyState[k] \in {"connecting", "open"}
                            THEN "closing" ELSE readyState[k]
    BY <1>1, Made DEF Sockets
  <1> QED BY <1>1, <1>3, <1>4, <1>5, <1>6, <1>7, <1>8 DEF SocketsAdded

\* A pipe that is connected stays so: what was open is open or closing.
LEMMA NewSocketsConnected ==
    ASSUME SocketTypes, ConnectedHasSocket, NEW o \in Objects, NEW n \in Nat, NEW closing,
           SocketsAdded(o, n, closing), UNCHANGED connected
    PROVE  ConnectedHasSocket'
  <1> SUFFICES ASSUME NEW c \in Objects, connected[c]
               PROVE  \E k \in 1..used' : owner'[k] = c /\ readyState'[k] \in {"open", "closing"}
    BY DEF ConnectedHasSocket
  <1>1. PICK k \in 1..used : owner[k] = c /\ readyState[k] \in {"open", "closing"}
    BY DEF ConnectedHasSocket
  <1>2. readyState'[k] \in {"open", "closing"} /\ owner'[k] = c
    BY <1>1 DEF SocketsAdded
  <1>3. k \in 1..used'
    BY Made DEF SocketsAdded
  <1> QED BY <1>2, <1>3

\* Where nothing disconnects, what is kept stays, and so do new sockets.
LEMMA NewSocketsKept ==
    ASSUME SocketTypes, NEW o \in Objects, NEW n \in Nat, SocketsAdded(o, n, {}),
           UNCHANGED side
    PROVE  /\ \A k \in 1..used : Kept(k) => Kept(k)'
           /\ \A k \in 1..used' : k \in 1..used \/ Kept(k)'
  <1>1. \A k \in 1..used : readyState'[k] = readyState[k]
    BY DEF SocketsAdded
  <1>2. \A k \in 1..used' : k \in 1..used \/ k \in used + 1 .. used + n
    BY Made DEF SocketsAdded
  <1> QED BY <1>1, <1>2 DEF SocketsAdded, Kept

\* A pipe is selected.  In a mounted view another one than before gets new sockets
\* after the old one is disconnected.
LEMMA SelectPipeKeeps ==
    ASSUME IInv, NEW p \in Pipes, selectPipe(p)
    PROVE  IInv'
  <1> DEFINE new == Object(p)
             changed == Mounted /\ p # selectedPipeId
             n == (IF connected[new] THEN 0 ELSE 1) + (IF changed THEN 2 ELSE 0)
             closing == IF changed THEN Disconnects(new, Shown) ELSE {}
  <1>1. /\ selectedPipeId' = p /\ p # NoPipe
        /\ UNCHANGED <<fetched, nodeShown, cleared, connected, side>>
        /\ connect(new, n) /\ ReadyStates(closing, n)
    BY ConstantsAssumption DEF selectPipe, nodeVars
  <1>2. new \in Objects /\ n \in Nat /\ (changed => n >= 2) /\ (~connected[new] => n >= 1)
    BY Made DEF IInv
  <1>3. SocketsAdded(new, n, closing)
    BY <1>1, <1>2, NewSockets DEF IInv
  <1> HIDE DEF new, n, closing
  <1>4. SocketTypes'
    BY <1>1, <1>3 DEF IInv, SocketTypes, SocketsAdded
  <1>5. ConnectedHasSocket'
    BY <1>1, <1>2, <1>3, NewSocketsConnected DEF IInv
  <1>6. FirstInv'
    BY <1>1 DEF FirstInv
  <1>7. Shown' = new
    BY <1>1 DEF Shown, Object, new
  <1>8. CASE changed
    <2>1. /\ socket'[new] = used + n /\ readyState'[used + n] = "connecting"
          /\ nodeShown
      BY <1>2, <1>3, <1>8, Made DEF IInv, SocketsAdded, SocketTypes, Mounted
    <2>2. UnmountedInv' /\ SelectedInv'
      BY <1>1, <1>7, <2>1 DEF UnmountedInv, SelectedInv, Kept
    <2> QED BY <1>4, <1>5, <1>6, <2>2 DEF IInv
  <1>9. CASE ~changed
    <2>1. SocketsAdded(new, n, {})
      BY <1>3, <1>9 DEF closing
    <2>2. /\ \A k \in 1..used : Kept(k) => Kept(k)'
          /\ \A k \in 1..used' : k \in 1..used \/ Kept(k)'
      BY <1>1, <1>2, <2>1, NewSocketsKept DEF IInv
    <2>3. UnmountedInv'
      BY <1>1, <2>2 DEF IInv, UnmountedInv
    <2>4. SelectedInv'
      <3> SUFFICES ASSUME ~cleared, NEW k, k = socket'[new], k # 0 PROVE Kept(k)'
        BY <1>1, <1>7 DEF SelectedInv, Kept
      <3>0. used \in Nat /\ used' = used + n /\ socket' \in [Objects -> 0..used']
        BY <2>1, Made DEF SocketsAdded, IInv
      <3>1. k \in 1..used'
        BY <1>2, <3>0
      <3>2. CASE n # 0
        <4>1. k = used + n
          BY <1>2, <3>2, <2>1 DEF SocketsAdded, IInv, SocketTypes
        <4>2. k \notin 1..used
          BY <1>2, <3>0, <3>2, <4>1
        <4> QED BY <3>1, <4>2, <2>2
      <3>3. CASE n = 0
        <4>1. socket' = socket /\ connected[new] /\ used' = used
          BY <1>2, <3>3, <2>1, Made DEF SocketsAdded, IInv
        <4>2. CASE ~nodeShown
          BY <4>1, <4>2, <3>1, <2>2 DEF IInv, UnmountedInv
        <4>3. CASE selectedPipeId = NoPipe
          <5>1. used = 0
            BY <4>3 DEF IInv, FirstInv
          <5> QED BY <4>1, <3>1, <5>1
        <4>4. CASE nodeShown /\ selectedPipeId # NoPipe
          <5>1. p = selectedPipeId /\ new = Shown
            BY <4>4, <1>9 DEF Mounted, Shown, new
          <5>2. Kept(k)
            BY <4>1, <4>4, <5>1, <1>1 DEF IInv, SelectedInv
          <5> QED BY <5>2, <4>1, <3>1, <2>2
        <4> QED BY <4>2, <4>3, <4>4
      <3> QED BY <3>2, <3>3
    <2> QED BY <1>4, <1>5, <1>6, <2>3, <2>4 DEF IInv
  <1> QED BY <1>8, <1>9

\* The objects are replaced.  A mounted view disconnects the one it shows and
\* connects the new one.
LEMMA SetPipesKeeps ==
    ASSUME IInv, setPipes
    PROVE  IInv'
  <1> DEFINE new == [pipe |-> selectedPipeId, fetch |-> fetched + 1]
  <1>1. /\ UNCHANGED <<selectedPipeId, nodeShown, cleared, connected, side>>
        /\ fetched' = fetched + 1 /\ fetched' \in 1..MaxFetches
    BY ConstantsAssumption DEF setPipes, nodeVars, IInv, SocketTypes
  <1>2. Shown' = new
    BY <1>1 DEF Shown, Object
  <1>3. CASE Mounted
    <2>1. connect(new, 1) /\ ReadyStates(Disconnects(new, Shown), 1)
      BY <1>3 DEF setPipes
    <2>2. new \in Objects
      BY <1>1, <1>3 DEF IInv, SocketTypes, Mounted, Objects
    <2>3. SocketsAdded(new, 1, Disconnects(new, Shown))
      BY <2>1, <2>2, NewSockets DEF IInv
    <2> HIDE DEF new
    <2>4. SocketTypes'
      BY <1>1, <2>3 DEF IInv, SocketTypes, SocketsAdded
    <2>5. ConnectedHasSocket'
      BY <1>1, <2>2, <2>3, NewSocketsConnected DEF IInv
    <2>6. socket'[new] = used + 1 /\ readyState'[used + 1] = "connecting"
      BY <2>2, <2>3, Made DEF SocketsAdded, IInv, SocketTypes
    <2>7. UnmountedInv' /\ FirstInv' /\ SelectedInv'
      BY <1>1, <1>2, <1>3, <2>6 DEF UnmountedInv, FirstInv, SelectedInv, Kept, Mounted
    <2> QED BY <2>4, <2>5, <2>7 DEF IInv
  <1>4. CASE ~Mounted
    <2>1. /\ owner' = owner \o [i \in 1..0 |-> new] /\ socket' = socket
          /\ readyState' = [k \in Sockets |-> readyState[k]]
      BY <1>4, Made DEF setPipes, connect, ReadyStates, IInv
    <2>2. owner' = owner /\ readyState' = readyState /\ used' = used
      BY <2>1 DEF IInv, SocketTypes, used
    <2>3. SocketTypes'
      BY <1>1, <2>1, <2>2 DEF IInv, SocketTypes
    <2>4. ConnectedHasSocket' /\ UnmountedInv' /\ FirstInv'
      BY <1>1, <2>1, <2>2 DEF IInv, ConnectedHasSocket, UnmountedInv, FirstInv, Kept
    <2>5. SelectedInv'
      <3> SUFFICES ASSUME selectedPipeId # NoPipe, socket'[Shown'] # 0
                   PROVE  Kept(socket[Shown])'
        BY <1>1 DEF SelectedInv
      <3>1. ~nodeShown /\ new \in Objects
        BY <1>1, <1>4 DEF Mounted, IInv, SocketTypes, Objects
      <3>2. socket'[Shown'] \in 1..used
        BY <1>2, <2>1, <3>1, Made DEF IInv, SocketTypes
      <3> QED BY <1>1, <2>2, <3>1, <3>2 DEF IInv, UnmountedInv, Kept
    <2> QED BY <2>3, <2>4, <2>5 DEF IInv
  <1> QED BY <1>3, <1>4

-----------------------------------------------------------------------------
LEMMA Inductive == IInv /\ [Next]_vars => IInv'
  <1> SUFFICES ASSUME IInv, [Next]_vars PROVE IInv'
    OBVIOUS
  <1> DEFINE Still == /\ UNCHANGED <<fetched, selectedPipeId, nodeShown, cleared, connected,
                                     socket, owner, readyState>>
                      /\ side' \in [Sockets -> Sides]
                      /\ \A k \in Sockets : side[k] = "failed" => side'[k] = "failed"
  <1>0. Still => IInv'
    BY Elsewhere
  <1>t. side \in [Sockets -> Sides]
    BY DEF IInv, SocketTypes
  <1>1. CASE UNCHANGED vars
    <2>1. Still
      BY <1>t, <1>1 DEF vars, pageVars, choiceVars, objectVars, socketVars, nodeVars
    <2> QED BY <2>1, <1>0
  <1>2. ASSUME NEW p \in Pipes, selectPipe(p) PROVE IInv'
    BY <1>2, SelectPipeKeeps
  <1>3. CASE Clear
    BY <1>3, ClearKeeps
  <1>4. CASE selectNode
    BY <1>4, SelectNodeKeeps
  <1>5. CASE setPipes
    BY <1>5, SetPipesKeeps
  <1>6. CASE toggleRun
    <2>1. Still
      BY <1>t, <1>6 DEF toggleRun, choiceVars, objectVars, nodeVars
    <2> QED BY <2>1, <1>0
  <1>7. ASSUME NEW k \in Sockets, Opened(k) \/ Closed(k) PROVE IInv'
    BY <1>7, OpenedKeeps, ClosedKeeps
  <1>8. ASSUME NEW k \in Sockets,
               connect_pipe(k) \/ LearnClose(k) \/ Leave(k) \/ process_control_message(k)
        PROVE  IInv'
    <2>1. UNCHANGED <<fetched, selectedPipeId, nodeShown, cleared, connected, socket,
                      owner, readyState>>
      BY <1>8 DEF connect_pipe, LearnClose, Leave, process_control_message, PageUnchanged,
            pageVars, choiceVars, objectVars
    <2>2. \/ side' = side
          \/ \E s \in Sides : side' = [side EXCEPT ![k] = s] /\ (side[k] = "failed" => s = "failed")
      BY <1>8 DEF connect_pipe, LearnClose, Leave, process_control_message, Sides
    <2>3. Still
      BY <1>t, <2>1, <2>2
    <2> QED BY <2>3, <1>0
  <1>9. ASSUME NEW p \in Pipes, StatusStep(p) \/ cleanup(p) PROVE IInv'
    <2>1. Still
      BY <1>t, <1>9 DEF StatusStep, BeginStatus, SendStatus, EndStatus, cleanup, PageUnchanged,
            pageVars, choiceVars, objectVars
    <2> QED BY <2>1, <1>0
  <1> QED
    BY <1>1, <1>2, <1>3, <1>4, <1>5, <1>6, <1>7, <1>8, <1>9
       DEF Next, UserStep, SystemStep, PageStep, NodeStep

LEMMA Invariance == Spec => []IInv
  BY Initially, Inductive, PTL DEF Spec

\* The icon of a pipe, set by the events of all sockets its object ever made, never
\* tells of a connection that is not there or is not being closed.
THEOREM ConnectedAlways == Spec => []ConnectedHasSocket
  <1>1. IInv => ConnectedHasSocket
    BY DEF IInv
  <1> QED BY <1>1, Invariance, PTL

\* Until Clear is pressed the three places that connect and disconnect a selected
\* pipe leave it the socket they made last.
THEOREM ShownKeepsSocket == Spec => []ShownNotClosed
  <1>1. IInv => ShownNotClosed
    BY DEF IInv, SelectedInv, ShownNotClosed, Mounted, Kept
  <1> QED BY <1>1, Invariance, PTL

-----------------------------------------------------------------------------
(* What the node has told its connections                                  *)

Statuses == {PipeExecutionStatus.READY, PipeExecutionStatus.RUNNING, PipeExecutionStatus.PAUSED,
             PipeExecutionStatus.COMPLETED}
Begun == Nat
Tasks == [status : Statuses, at : Begun \cup {NotBegun}]

NodeTypes ==
    /\ connections \in [Pipes -> Seq(Sockets)]
    /\ nodeStatus \in [Pipes -> Statuses]
    /\ tasks \in [Pipes -> Seq(Tasks)]
    /\ told \in [Sockets -> Statuses \cup {NoStatus}]

\* A pipe's connections are sockets that were made for it, and a socket stays one
\* of them until its handler leaves.
ListedInv ==
    /\ \A p \in Pipes : \A i \in 1..Len(connections[p]) :
          LET k == connections[p][i]
          IN  k \in 1..used /\ owner[k].pipe = p /\ side[k] # "none"
    /\ \A k \in Sockets : side[k] \in {"live", "gone"} =>
          k \in 1..used /\ \E i \in 1..Len(connections[PipeOf(k)]) : connections[PipeOf(k)][i] = k

\* The connection at i has been told the status of the pipe, if it listens.
Heard(p, i) == LET k == connections[p][i] IN side[k] = "live" => told[k] = nodeStatus[p]

\* Unless p is upset, only the first of its tasks is under way, with the pipe's
\* status, and those connections have been told it that the task has come by.
ToldInv ==
    \A p \in Pipes \ upset :
        /\ \A t \in 2..Len(tasks[p]) : tasks[p][t].at = NotBegun
        /\ IF tasks[p] = <<>> \/ tasks[p][1].at = NotBegun
           THEN \A i \in 1..Len(connections[p]) : Heard(p, i)
           ELSE /\ tasks[p][1].status = nodeStatus[p]
                /\ \A i \in 1..Len(connections[p]) : i <= tasks[p][1].at => Heard(p, i)

NodeInv == NodeTypes /\ ListedInv /\ ToldInv

\* What the page does with its sockets leaves the node as it was.
LEMMA PageApart ==
    ASSUME IInv, NodeInv, UNCHANGED <<side, connections, nodeStatus, tasks, told, upset>>,
           used' \in Nat, used <= used', \A k \in 1..used : owner'[k] = owner[k]
    PROVE  NodeInv'
  <1>1. used \in Nat
    BY Made DEF IInv
  <1>2. 1..used \subseteq 1..(used')
    BY <1>1
  <1>3. ListedInv'
    <2>1. ASSUME NEW p \in Pipes, NEW i \in 1..Len(connections[p])
          PROVE  LET k == connections[p][i]
                 IN  k \in 1..used' /\ owner'[k].pipe = p /\ side[k] # "none"
      BY <1>2, <2>1 DEF NodeInv, ListedInv
    <2>2. ASSUME NEW k \in Sockets, side[k] \in {"live", "gone"}
          PROVE  /\ k \in 1..used' /\ owner'[k] = owner[k]
                 /\ \E i \in 1..Len(connections[owner[k].pipe]) : connections[owner[k].pipe][i] = k
      BY <1>2, <2>2 DEF NodeInv, ListedInv, PipeOf
    <2> QED BY <2>1, <2>2 DEF ListedInv, PipeOf
  <1>4. NodeTypes' /\ ToldInv'
    BY DEF NodeInv, NodeTypes, ToldInv, Heard
  <1> QED BY <1>3, <1>4 DEF NodeInv

\* A socket of the page is accepted: it is told the pipe's status at once.
LEMMA ConnectKeeps ==
    ASSUME IInv, NodeInv, NEW k \in Sockets, connect_pipe(k)
    PROVE  NodeInv'
  <1> DEFINE p == PipeOf(k)
  <1>1. /\ k \in 1..used /\ side[k] = "none"
        /\ side' = [side EXCEPT ![k] = "live"]
        /\ connections' = [connections EXCEPT ![p] = Append(connections[p], k)]
        /\ told' = [told EXCEPT ![k] = nodeStatus[p]]
        /\ UNCHANGED <<owner, nodeStatus, tasks, upset>>
    BY Made DEF connect_pipe, FirstStatus, PageUnchanged, Sockets, IInv
  <1>2. p \in Pipes /\ owner[k].pipe = p
    BY <1>1, Made DEF IInv, Objects, PipeOf
  <1>3. /\ connections \in [Pipes -> Seq(Sockets)] /\ nodeStatus \in [Pipes -> Statuses]
        /\ tasks \in [Pipes -> Seq(Tasks)] /\ told \in [Sockets -> Statuses \cup {NoStatus}]
        /\ side \in [Sockets -> Sides] /\ used' = used
    BY <1>1 DEF NodeInv, NodeTypes, IInv, SocketTypes, used
  <1> HIDE DEF p
  <1>4. /\ Len(connections[p]) \in Nat
        /\ connections'[p] = Append(connections[p], k) /\ Append(connections[p], k) \in Seq(Sockets)
        /\ Len(connections'[p]) = Len(connections[p]) + 1
        /\ connections'[p][Len(connections[p]) + 1] = k
        /\ \A i \in 1..Len(connections[p]) : connections'[p][i] = connections[p][i]
        /\ \A q \in Pipes \ {p} : connections'[q] = connections[q]
    BY <1>1, <1>2, <1>3
  <1>5. /\ side'[k] = "live" /\ told'[k] = nodeStatus[p]
        /\ \A m \in Sockets \ {k} : side'[m] = side[m] /\ told'[m] = told[m]
    BY <1>1, <1>3
  <1>6. NodeTypes'
    BY <1>1, <1>2, <1>3, <1>4 DEF NodeTypes
  <1>7. \A q \in Pipes : \A i \in 1..Len(connections[q]) :
            connections[q][i] \in Sockets \ {k} /\ connections'[q][i] = connections[q][i]
    BY <1>1, <1>3, <1>4 DEF NodeInv, ListedInv
  <1>8. \A q \in Pipes : \A i \in 1..Len(connections'[q]) :
            i \in 1..Len(connections[q]) \/ (q = p /\ connections'[q][i] = k)
    BY <1>4
  <1>9. ListedInv'
    <2>1. ASSUME NEW q \in Pipes, NEW i \in 1..Len(connections'[q])
          PROVE  LET m == connections'[q][i]
                 IN  m \in 1..used' /\ owner'[m].pipe = q /\ side'[m] # "none"
      <3>1. CASE i \in 1..Len(connections[q])
        BY <1>1, <1>3, <1>5, <1>7, <3>1 DEF NodeInv, ListedInv
      <3>2. CASE q = p /\ connections'[q][i] = k
        BY <1>1, <1>2, <1>3, <1>5, <3>2
      <3> QED BY <1>8, <3>1, <3>2
    <2>2. ASSUME NEW m \in Sockets, side'[m] \in {"live", "gone"}
          PROVE  /\ m \in 1..used'
                 /\ \E i \in 1..Len(connections'[owner'[m].pipe]) : connections'[owner'[m].pipe][i] = m
      <3>1. CASE m = k
        BY <1>1, <1>2, <1>3, <1>4, <3>1
      <3>2. CASE m # k
        <4>1. m \in 1..used /\ \E i \in 1..Len(connections[owner[m].pipe]) : connections[owner[m].pipe][i] = m
          BY <1>5, <2>2, <3>2 DEF NodeInv, ListedInv, PipeOf
        <4>2. owner[m].pipe \in Pipes
          BY <4>1, Made DEF IInv, Objects
        <4>3. \A i \in 1..Len(connections[owner[m].pipe]) : i \in 1..Len(connections'[owner[m].pipe])
          BY <1>4, <4>2
        <4> QED BY <1>1, <1>3, <1>7, <4>1, <4>2, <4>3
      <3> QED BY <3>1, <3>2
    <2> QED BY <2>1, <2>2 DEF ListedInv, PipeOf
  <1>10. \A q \in Pipes : \A i \in 1..Len(connections'[q]) :
            Heard(q, i)' \/ (i \in 1..Len(connections[q]) /\ (Heard(q, i) => Heard(q, i)'))
    BY <1>1, <1>5, <1>7, <1>8 DEF Heard
  <1>11. ToldInv'
    BY <1>1, <1>10 DEF NodeInv, ToldInv
  <1> QED BY <1>6, <1>9, <1>11 DEF NodeInv

\* Two sequences after one another.
LEMMA Joined ==
    ASSUME NEW S, NEW s \in Seq(S), NEW t \in Seq(S)
    PROVE  /\ s \o t \in Seq(S) /\ Len(s) \in Nat /\ Len(t) \in Nat
           /\ Len(s \o t) = Len(s) + Len(t)
           /\ \A k \in 1..Len(s \o t) : (s \o t)[k] = IF k <= Len(s) THEN s[k] ELSE t[k - Len(s)]
  OBVIOUS

\* A sequence without its element t.
Without(q, t) == SubSeq(q, 1, t - 1) \o SubSeq(q, t + 1, Len(q))

LEMMA Removed ==
    ASSUME NEW S, NEW q \in Seq(S), NEW t \in 1..Len(q), NEW r, r = Without(q, t)
    PROVE  /\ r \in Seq(S) /\ Len(r) = Len(q) - 1 /\ Len(q) \in Nat
           /\ \A i \in 1..Len(r) : r[i] = IF i < t THEN q[i] ELSE q[i + 1]
  <1> DEFINE a == SubSeq(q, 1, t - 1)
             b == SubSeq(q, t + 1, Len(q))
  <1>1. Len(q) \in Nat /\ t \in Nat /\ t >= 1 /\ t <= Len(q)
    OBVIOUS
  <1>2. a \in Seq(S) /\ Len(a) = t - 1 /\ \A i \in 1..(t - 1) : a[i] = q[i]
    BY <1>1
  <1>3. b \in Seq(S) /\ Len(b) = Len(q) - t /\ \A i \in 1..(Len(q) - t) : b[i] = q[i + t]
    BY <1>1
  <1>4. r = a \o b
    BY DEF Without
  <1> HIDE DEF a, b
  <1>5. /\ a \o b \in Seq(S) /\ Len(a) \in Nat /\ Len(b) \in Nat /\ Len(a \o b) = Len(a) + Len(b)
        /\ \A k \in 1..Len(a \o b) : (a \o b)[k] = IF k <= Len(a) THEN a[k] ELSE b[k - Len(a)]
    <2>1. a \in Seq(S) /\ b \in Seq(S)
      BY <1>2, <1>3
    <2> QED BY <2>1, Joined
  <1>6. r \in Seq(S) /\ Len(r) = Len(q) - 1
    <2>1. Len(a) + Len(b) = Len(q) - 1
      BY <1>1, <1>2, <1>3
    <2> QED BY <1>4, <1>5, <2>1
  <1>7. ASSUME NEW i \in 1..Len(r) PROVE r[i] = IF i < t THEN q[i] ELSE q[i + 1]
    <2>0. i \in 1..(Len(q) - 1)
      BY <1>6
    <2>1. i \in Nat /\ i >= 1 /\ i <= Len(q) - 1
      BY <1>1, <2>0
    <2>2. r[i] = IF i <= t - 1 THEN a[i] ELSE b[i - (t - 1)]
      BY <1>2, <1>4, <1>5
    <2>3. CASE i < t
      <3>1. i <= t - 1 /\ i \in 1..(t - 1)
        BY <1>1, <2>1, <2>3
      <3> QED BY <1>2, <2>2, <2>3, <3>1
    <2>4. CASE ~(i < t)
      <3>1. ~(i <= t - 1) /\ i - (t - 1) \in 1..(Len(q) - t) /\ (i - (t - 1)) + t = i + 1
        BY <1>1, <2>1, <2>4
      <3>2. b[i - (t - 1)] = q[(i - (t - 1)) + t]
        BY <1>3, <3>1
      <3> QED BY <2>2, <2>4, <3>1, <3>2
    <2> QED BY <2>3, <2>4
  <1> QED BY <1>1, <1>6, <1>7

\* A connection that the page has closed, or whose handler fails, listens no longer.
LEMMA SilentKeeps ==
    ASSUME IInv, NodeInv, NEW k \in Sockets, side[k] \in {"live", "gone"},
           NEW s \in {"gone", "failed"}, side' = [side EXCEPT ![k] = s],
           told' = [told EXCEPT ![k] = NoStatus],
           UNCHANGED <<owner, connections, nodeStatus, tasks, upset>>
    PROVE  NodeInv'
  <1>1. /\ told \in [Sockets -> Statuses \cup {NoStatus}] /\ side \in [Sockets -> Sides]
        /\ used' = used
    BY DEF NodeInv, NodeTypes, IInv, SocketTypes, used
  <1>2. /\ side'[k] = s /\ \A m \in Sockets \ {k} : side'[m] = side[m] /\ told'[m] = told[m]
    BY <1>1
  <1>3. \A p \in Pipes : \A i \in 1..Len(connections[p]) : connections[p][i] \in Sockets
    BY Made DEF NodeInv, ListedInv, IInv
  <1>4. NodeTypes'
    BY DEF NodeInv, NodeTypes
  <1>5. ListedInv'
    BY <1>1, <1>2, <1>3 DEF NodeInv, ListedInv, PipeOf
  <1>6. \A p \in Pipes : \A i \in 1..Len(connections[p]) : Heard(p, i) => Heard(p, i)'
    BY <1>2, <1>3 DEF Heard
  <1>7. ToldInv'
    BY <1>6 DEF NodeInv, ToldInv
  <1> QED BY <1>4, <1>5, <1>7 DEF NodeInv

\* A handler takes its socket from the list.
LEMMA LeaveKeeps ==
    ASSUME IInv, NodeInv, NEW k \in Sockets, Leave(k)
    PROVE  NodeInv'
  <1> DEFINE p == PipeOf(k)
             list == connections[p]
             j == Position(k, list)
  <1>1. /\ side[k] = "gone" /\ side' = [side EXCEPT ![k] = "left"]
        /\ connections' = [connections EXCEPT
                             ![p] = SubSeq(list, 1, j - 1) \o SubSeq(list, j + 1, Len(list))]
        /\ upset' = upset \cup {q \in {p} : \E t \in DOMAIN tasks[p] : tasks[p][t].at >= j}
        /\ UNCHANGED <<owner, nodeStatus, tasks, told>>
    BY DEF Leave, PageUnchanged
  <1>2. k \in 1..used /\ \E i \in 1..Len(list) : list[i] = k
    BY <1>1 DEF NodeInv, ListedInv
  <1>3. p \in Pipes /\ owner[k].pipe = p
    BY <1>2, Made DEF IInv, Objects, PipeOf
  <1>4. /\ connections \in [Pipes -> Seq(Sockets)] /\ nodeStatus \in [Pipes -> Statuses]
        /\ tasks \in [Pipes -> Seq(Tasks)] /\ told \in [Sockets -> Statuses \cup {NoStatus}]
        /\ side \in [Sockets -> Sides] /\ used' = used
    BY <1>1 DEF NodeInv, NodeTypes, IInv, SocketTypes, used
  <1>5. list \in Seq(Sockets) /\ DOMAIN list = 1..Len(list) /\ Len(list) \in Nat
    BY <1>3, <1>4
  <1>6. j \in 1..Len(list) /\ list[j] = k
    BY <1>2, <1>5 DEF Position
  <1>7. connections'[p] = SubSeq(list, 1, j - 1) \o SubSeq(list, j + 1, Len(list))
    BY <1>1, <1>3, <1>4
  <1>8. \A q \in Pipes \ {p} : connections'[q] = connections[q]
    BY <1>1, <1>4
  <1> HIDE DEF p, list, j
  <1>9. /\ connections'[p] \in Seq(Sockets) /\ Len(connections'[p]) = Len(list) - 1
        /\ \A i \in 1..Len(connections'[p]) : connections'[p][i] = IF i < j THEN list[i] ELSE list[i + 1]
    <2>1. list \in Seq(Sockets) /\ j \in 1..Len(list)
      BY <1>5, <1>6
    <2>2. PICK r : r = connections'[p]
      OBVIOUS
    <2>3. r = Without(list, j)
      BY <1>7, <2>2 DEF Without
    <2>4. /\ r \in Seq(Sockets) /\ Len(r) = Len(list) - 1
          /\ \A i \in 1..Len(r) : r[i] = IF i < j THEN list[i] ELSE list[i + 1]
      BY <2>1, <2>3, Removed
    <2> QED BY <2>2, <2>4
  <1>10. list = connections[p]
    BY DEF list
  <1>11. /\ side'[k] = "left" /\ \A m \in Sockets \ {k} : side'[m] = side[m]
    BY <1>1, <1>4
  <1>12. NodeTypes'
    <2>1. connections' \in [Pipes -> Seq(Sockets)]
      BY <1>1, <1>4, <1>7, <1>9 DEF list
    <2> QED BY <1>1, <1>4, <2>1 DEF NodeTypes
  <1>13. \A q \in Pipes : \A i \in 1..Len(connections'[q]) :
            \E h \in 1..Len(connections[q]) :
                 /\ connections'[q][i] = connections[q][h]
                 /\ h = i \/ (q = p /\ h = i + 1 /\ i >= j)
    <2> SUFFICES ASSUME NEW q \in Pipes, NEW i \in 1..Len(connections'[q])
                 PROVE  \E h \in 1..Len(connections[q]) :
                            /\ connections'[q][i] = connections[q][h]
                            /\ h = i \/ (q = p /\ h = i + 1 /\ i >= j)
      OBVIOUS
    <2>1. CASE q # p
      BY <1>8, <2>1
    <2>2. CASE q = p /\ i < j
      <3>1. i \in 1..Len(connections[q]) /\ connections'[q][i] = connections[q][i]
        BY <1>5, <1>6, <1>9, <1>10, <2>2
      <3> QED BY <3>1
    <2>3. CASE q = p /\ i >= j
      <3>1. i + 1 \in 1..Len(connections[q]) /\ connections'[q][i] = connections[q][i + 1]
        BY <1>5, <1>6, <1>9, <1>10, <2>3
      <3> QED BY <2>3, <3>1
    <2> QED BY <1>5, <1>6, <2>1, <2>2, <2>3
  <1>14. ListedInv'
    <2>1. ASSUME NEW q \in Pipes, NEW i \in 1..Len(connections'[q])
          PROVE  LET m == connections'[q][i]
                 IN  m \in 1..used' /\ owner'[m].pipe = q /\ side'[m] # "none"
      <3>1. PICK h \in 1..Len(connections[q]) : connections'[q][i] = connections[q][h]
        BY <1>13
      <3>2. /\ connections[q][h] \in 1..used /\ owner[connections[q][h]].pipe = q
            /\ side[connections[q][h]] # "none" /\ connections[q][h] \in Sockets
        BY Made DEF NodeInv, ListedInv, IInv
      <3> QED BY <1>1, <1>4, <1>11, <3>1, <3>2
    <2>2. ASSUME NEW m \in Sockets, side'[m] \in {"live", "gone"}
          PROVE  /\ m \in 1..used'
                 /\ \E i \in 1..Len(connections'[owner'[m].pipe]) : connections'[owner'[m].pipe][i] = m
      <3>1. m # k /\ side[m] \in {"live", "gone"}
        BY <1>11, <2>2
      <3>2. m \in 1..used /\ \E i \in 1..Len(connections[owner[m].pipe]) : connections[owner[m].pipe][i] = m
        BY <3>1 DEF NodeInv, ListedInv, PipeOf
      <3>3. owner[m].pipe \in Pipes
        BY <3>2, Made DEF IInv, Objects
      <3>4. CASE owner[m].pipe # p
        BY <1>1, <1>4, <1>8, <3>2, <3>3, <3>4
      <3>5. CASE owner[m].pipe = p
        <4>1. PICK h \in 1..Len(list) : list[h] = m
          BY <1>10, <3>2, <3>5
        <4>2. h # j
          BY <1>6, <3>1, <4>1
        <4>3. \E i \in 1..Len(connections'[p]) : connections'[p][i] = m
          <5>1. CASE h < j
            <6>1. h \in 1..Len(connections'[p]) /\ connections'[p][h] = m
              <7>1. h \in Nat /\ h >= 1 /\ j \in Nat /\ j <= Len(list)
                BY <1>5, <1>6
              <7>2. h \in 1..(Len(list) - 1)
                BY <1>5, <5>1, <7>1
              <7>3. h \in 1..Len(connections'[p])
                BY <1>9, <7>2
              <7> QED BY <1>9, <4>1, <5>1, <7>3
            <6> QED BY <6>1
          <5>2. CASE h > j
            <6>1. h - 1 \in 1..Len(connections'[p]) /\ ~(h - 1 < j) /\ (h - 1) + 1 = h
              <7>1. h \in Nat /\ h <= Len(list) /\ j \in Nat /\ j >= 1
                BY <1>5, <1>6
              <7>2. h - 1 \in 1..(Len(list) - 1) /\ ~(h - 1 < j) /\ (h - 1) + 1 = h
                BY <1>5, <5>2, <7>1
              <7> QED BY <1>9, <7>2
            <6>2. connections'[p][h - 1] = m
              BY <1>9, <4>1, <6>1
            <6> QED BY <6>1, <6>2
          <5> QED BY <1>5, <1>6, <4>2, <5>1, <5>2
        <4> QED BY <1>1, <1>4, <3>2, <3>5, <4>3
      <3> QED BY <3>4, <3>5
    <2> QED BY <2>1, <2>2 DEF ListedInv, PipeOf
  <1>15. \A q \in Pipes : \A i \in 1..Len(connections'[q]) : \A h \in 1..Len(connections[q]) :
            connections'[q][i] = connections[q][h] /\ Heard(q, h) => Heard(q, i)'
    <2> SUFFICES ASSUME NEW q \in Pipes, NEW i \in 1..Len(connections'[q]), NEW h \in 1..Len(connections[q]),
                        connections'[q][i] = connections[q][h], Heard(q, h)
                 PROVE  Heard(q, i)'
      OBVIOUS
    <2>1. connections[q][h] \in Sockets
      BY Made DEF NodeInv, ListedInv, IInv
    <2> QED BY <1>1, <1>11, <2>1 DEF Heard
  <1>16. ToldInv'
    <2> SUFFICES ASSUME NEW q \in Pipes \ upset'
                 PROVE  /\ \A t \in 2..Len(tasks[q]) : tasks[q][t].at = NotBegun
                        /\ IF tasks[q] = <<>> \/ tasks[q][1].at = NotBegun
                           THEN \A i \in 1..Len(connections'[q]) : Heard(q, i)'
                           ELSE /\ tasks[q][1].status = nodeStatus[q]
                                /\ \A i \in 1..Len(connections'[q]) :
                                      i <= tasks[q][1].at => Heard(q, i)'
      BY <1>1 DEF ToldInv
    <2>1. q \notin upset
      BY <1>1
    <2>2. /\ \A t \in 2..Len(tasks[q]) : tasks[q][t].at = NotBegun
          /\ IF tasks[q] = <<>> \/ tasks[q][1].at = NotBegun
             THEN \A i \in 1..Len(connections[q]) : Heard(q, i)
             ELSE /\ tasks[q][1].status = nodeStatus[q]
                  /\ \A i \in 1..Len(connections[q]) : i <= tasks[q][1].at => Heard(q, i)
      BY <2>1 DEF NodeInv, ToldInv
    <2>3. CASE tasks[q] = <<>> \/ tasks[q][1].at = NotBegun
      BY <1>13, <1>15, <2>2, <2>3
    <2>4. CASE ~(tasks[q] = <<>> \/ tasks[q][1].at = NotBegun)
      <3>1. 1 \in DOMAIN tasks[q] /\ tasks[q][1].at \in Nat
        <4>1. tasks[q] \in Seq(Tasks)
          BY <1>4
        <4>2. 1 \in DOMAIN tasks[q]
          BY <2>4, <4>1
        <4>3. tasks[q][1] \in Tasks
          BY <4>1, <4>2
        <4> QED BY <2>4, <4>2, <4>3 DEF Tasks, Begun
      <3>2. q = p => ~(tasks[p][1].at >= j)
        BY <1>1, <3>1
      <3> SUFFICES ASSUME NEW i \in 1..Len(connections'[q]), i <= tasks[q][1].at PROVE Heard(q, i)'
        BY <2>2, <2>4
      <3>3. PICK h \in 1..Len(connections[q]) :
                 /\ connections'[q][i] = connections[q][h]
                 /\ h = i \/ (q = p /\ h = i + 1 /\ i >= j)
        BY <1>13
      <3>4. h = i
        <4>1. ~(q = p /\ i >= j)
          BY <1>5, <1>6, <3>1, <3>2
        <4> QED BY <3>3, <4>1
      <3>5. Heard(q, h)
        BY <2>2, <2>4, <3>4
      <3> QED BY <1>15, <3>3, <3>5
    <2> QED BY <2>2, <2>3, <2>4
  <1> QED BY <1>12, <1>14, <1>16 DEF NodeInv

\* A pipe has one more task, that has not begun.
LEMMA TaskAdded ==
    ASSUME IInv, NodeInv, NEW p \in Pipes, NEW s \in Statuses,
           tasks' = [tasks EXCEPT ![p] = Append(tasks[p], Task(s))],
           UNCHANGED <<owner, side, connections, nodeStatus, told, upset>>
    PROVE  NodeInv'
  <1>1. /\ tasks \in [Pipes -> Seq(Tasks)] /\ Task(s) \in Tasks
        /\ Task(s).at = NotBegun /\ used' = used
    BY DEF NodeInv, NodeTypes, Tasks, Task, used
  <1>2. /\ tasks[p] \in Seq(Tasks) /\ Len(tasks[p]) \in Nat
        /\ tasks'[p] = Append(tasks[p], Task(s)) /\ Append(tasks[p], Task(s)) \in Seq(Tasks)
        /\ Len(tasks'[p]) = Len(tasks[p]) + 1
        /\ tasks'[p][Len(tasks[p]) + 1] = Task(s)
        /\ \A t \in 1..Len(tasks[p]) : tasks'[p][t] = tasks[p][t]
        /\ \A q \in Pipes \ {p} : tasks'[q] = tasks[q]
    BY <1>1
  <1>3. NodeTypes'
    BY <1>1, <1>2 DEF NodeInv, NodeTypes
  <1>4. ListedInv'
    BY <1>1 DEF NodeInv, ListedInv, PipeOf
  <1>5. \A q \in Pipes : \A i \in 1..Len(connections[q]) : Heard(q, i) => Heard(q, i)'
    BY DEF Heard
  <1>6. ToldInv'
    <2> SUFFICES ASSUME NEW q \in Pipes \ upset
                 PROVE  /\ \A t \in 2..Len(tasks'[q]) : tasks'[q][t].at = NotBegun
                        /\ IF tasks'[q] = <<>> \/ tasks'[q][1].at = NotBegun
                           THEN \A i \in 1..Len(connections[q]) : Heard(q, i)'
                           ELSE /\ tasks'[q][1].status = nodeStatus[q]
                                /\ \A i \in 1..Len(connections[q]) :
                                      i <= tasks'[q][1].at => Heard(q, i)'
      BY DEF ToldInv
    <2>1. /\ \A t \in 2..Len(tasks[q]) : tasks[q][t].at = NotBegun
          /\ IF tasks[q] = <<>> \/ tasks[q][1].at = NotBegun
             THEN \A i \in 1..Len(connections[q]) : Heard(q, i)
             ELSE /\ tasks[q][1].status = nodeStatus[q]
                  /\ \A i \in 1..Len(connections[q]) : i <= tasks[q][1].at => Heard(q, i)
      BY DEF NodeInv, ToldInv
    <2>2. CASE q # p
      BY <1>2, <1>5, <2>1, <2>2
    <2>3. CASE q = p
      <3>1. \A t \in 2..Len(tasks'[q]) : tasks'[q][t].at = NotBegun
        <4> SUFFICES ASSUME NEW t \in 2..Len(tasks'[q]) PROVE tasks'[q][t].at = NotBegun
          OBVIOUS
        <4>0. t \in 2..(Len(tasks[p]) + 1)
          BY <1>2, <2>3
        <4>1. t = Len(tasks[p]) + 1 \/ (t \in 2..Len(tasks[p]) /\ t \in 1..Len(tasks[p]))
          BY <1>2, <4>0
        <4> QED BY <1>1, <1>2, <2>1, <2>3, <4>1
      <3>2. CASE tasks[p] = <<>>
        <4>1. Len(tasks[p]) = 0 /\ tasks'[q][1] = Task(s)
          BY <1>2, <2>3, <3>2
        <4> QED BY <1>1, <1>5, <2>1, <2>3, <3>1, <3>2, <4>1
      <3>3. CASE tasks[p] # <<>>
        <4>1. 1 \in 1..Len(tasks[p])
          BY <1>2, <3>3
        <4>2. tasks'[q][1] = tasks[q][1] /\ tasks'[q] # <<>>
          BY <1>2, <2>3, <4>1
        <4> QED BY <1>5, <2>1, <2>3, <3>1, <3>3, <4>2
      <3> QED BY <3>2, <3>3
    <2> QED BY <2>2, <2>3
  <1> QED BY <1>3, <1>4, <1>6 DEF NodeInv

LEMMA ControlKeeps ==
    ASSUME IInv, NodeInv, NEW k \in Sockets, process_control_message(k)
    PROVE  NodeInv'
  <1>1. side[k] \in {"live", "gone"} /\ UNCHANGED <<owner, connections, nodeStatus, upset>>
    BY DEF process_control_message, PageUnchanged
  <1>2. PipeOf(k) \in Pipes
    BY <1>1, Made DEF NodeInv, ListedInv, IInv, Objects, PipeOf
  <1>3. CASE UNCHANGED <<side, told>> /\ \E s \in Statuses :
                 tasks' = [tasks EXCEPT ![PipeOf(k)] = Append(tasks[PipeOf(k)], Task(s))]
    BY <1>1, <1>2, <1>3, TaskAdded
  <1>4. CASE /\ side' = [side EXCEPT ![k] = "failed"] /\ told' = [told EXCEPT ![k] = NoStatus]
             /\ tasks' = tasks
    BY <1>1, <1>4, SilentKeeps
  <1> QED BY <1>3, <1>4 DEF process_control_message, Statuses, PipeExecutionStatus

LEMMA CleanupKeeps ==
    ASSUME IInv, NodeInv, NEW p \in Pipes, cleanup(p)
    PROVE  NodeInv'
  BY TaskAdded DEF cleanup, PageUnchanged, Statuses, PipeExecutionStatus

LEMMA LearnCloseKeeps ==
    ASSUME IInv, NodeInv, NEW k \in Sockets, LearnClose(k)
    PROVE  NodeInv'
  <1>1. /\ side[k] \in {"live", "gone"} /\ side' = [side EXCEPT ![k] = "gone"]
        /\ told' = [told EXCEPT ![k] = NoStatus]
        /\ UNCHANGED <<owner, connections, nodeStatus, tasks, upset>>
    BY DEF LearnClose, PageUnchanged
  <1> QED BY <1>1, SilentKeeps

\* A task ends: its pipe is upset, or the task was the first and has come by all
\* the connections.
LEMMA TaskEnded ==
    ASSUME IInv, NodeInv, NEW p \in Pipes, NEW t \in DOMAIN tasks[p], TaskEnds(p, t),
           UNCHANGED <<owner, side, connections, nodeStatus, told>>,
           upset' = upset \/ upset' = upset \cup {p},
           p \notin upset' => /\ tasks[p][t].at # NotBegun
                              /\ \A i \in 1..Len(connections[p]) : i <= tasks[p][t].at
    PROVE  NodeInv'
  <1>1. /\ tasks \in [Pipes -> Seq(Tasks)] /\ used' = used
    BY DEF NodeInv, NodeTypes, used
  <1>2. /\ tasks[p] \in Seq(Tasks) /\ Len(tasks[p]) \in Nat /\ t \in 1..Len(tasks[p])
        /\ tasks'[p] = SubSeq(tasks[p], 1, t - 1) \o SubSeq(tasks[p], t + 1, Len(tasks[p]))
        /\ \A q \in Pipes \ {p} : tasks'[q] = tasks[q]
    <2> DEFINE rest == SubSeq(tasks[p], 1, t - 1) \o SubSeq(tasks[p], t + 1, Len(tasks[p]))
    <2>1. tasks[p] \in Seq(Tasks) /\ Len(tasks[p]) \in Nat /\ t \in 1..Len(tasks[p])
      BY <1>1
    <2>2. tasks' = [tasks EXCEPT ![p] = rest]
      BY DEF TaskEnds
    <2> HIDE DEF rest
    <2>3. tasks'[p] = rest /\ \A q \in Pipes \ {p} : tasks'[q] = tasks[q]
      BY <1>1, <2>2
    <2> QED BY <2>1, <2>3 DEF rest
  <1> DEFINE list == tasks[p]
             left == tasks'[p]
  <1>3. /\ tasks'[p] \in Seq(Tasks) /\ Len(tasks'[p]) = Len(tasks[p]) - 1
        /\ \A i \in 1..Len(tasks'[p]) : tasks'[p][i] = IF i < t THEN tasks[p][i] ELSE tasks[p][i + 1]
    <2>1. /\ list \in Seq(Tasks) /\ t \in 1..Len(list)
          /\ left = SubSeq(list, 1, t - 1) \o SubSeq(list, t + 1, Len(list))
      BY <1>2
    <2> HIDE DEF list, left
    <2>2. /\ left \in Seq(Tasks) /\ Len(left) = Len(list) - 1
          /\ \A i \in 1..Len(left) : left[i] = IF i < t THEN list[i] ELSE list[i + 1]
      <3>1. list \in Seq(Tasks) /\ t \in 1..Len(list)
        BY <2>1
      <3>2. left = Without(list, t)
        BY <2>1 DEF Without
      <3> QED BY <3>1, <3>2, Removed
    <2> QED BY <2>2 DEF list, left
  <1>4. NodeTypes'
    <2>1. tasks' = [tasks EXCEPT ![p] = left]
      BY <1>1, <1>2 DEF TaskEnds
    <2>2. left \in Seq(Tasks)
      BY <1>3
    <2> HIDE DEF left
    <2>3. tasks' \in [Pipes -> Seq(Tasks)]
      BY <1>1, <2>1, <2>2
    <2> QED BY <2>3 DEF NodeInv, NodeTypes
  <1>5. ListedInv'
    BY <1>1 DEF NodeInv, ListedInv, PipeOf
  <1>6. \A q \in Pipes : \A i \in 1..Len(connections[q]) : Heard(q, i) => Heard(q, i)'
    BY DEF Heard
  <1>7. ToldInv'
    <2> SUFFICES ASSUME NEW q \in Pipes \ upset'
                 PROVE  /\ \A n \in 2..Len(tasks'[q]) : tasks'[q][n].at = NotBegun
                        /\ IF tasks'[q] = <<>> \/ tasks'[q][1].at = NotBegun
                           THEN \A i \in 1..Len(connections[q]) : Heard(q, i)'
                           ELSE /\ tasks'[q][1].status = nodeStatus[q]
                                /\ \A i \in 1..Len(connections[q]) :
                                      i <= tasks'[q][1].at => Heard(q, i)'
      BY DEF ToldInv
    <2>1. q \notin upset
      OBVIOUS
    <2>2. /\ \A n \in 2..Len(tasks[q]) : tasks[q][n].at = NotBegun
          /\ IF tasks[q] = <<>> \/ tasks[q][1].at = NotBegun
             THEN \A i \in 1..Len(connections[q]) : Heard(q, i)
             ELSE /\ tasks[q][1].status = nodeStatus[q]
                  /\ \A i \in 1..Len(connections[q]) : i <= tasks[q][1].at => Heard(q, i)
      BY <2>1 DEF NodeInv, ToldInv
    <2>3. CASE q # p
      BY <1>2, <1>6, <2>2, <2>3
    <2>4. CASE q = p
      <3>1. tasks[p][t].at # NotBegun /\ \A i \in 1..Len(connections[p]) : i <= tasks[p][t].at
        BY <2>4
      <3>2. t = 1
        <4>1. ~(t \in 2..Len(tasks[p]))
          BY <2>2, <2>4, <3>1
        <4> QED BY <1>2, <4>1
      <3>3. \A i \in 1..Len(connections[q]) : Heard(q, i)'
        <4>1. tasks[q] # <<>> /\ tasks[q][1].at # NotBegun
          BY <1>2, <2>4, <3>1, <3>2
        <4> QED BY <1>6, <2>2, <2>4, <3>1, <3>2, <4>1
      <3>4. \A n \in 1..Len(tasks'[q]) : tasks'[q][n].at = NotBegun
        <4> SUFFICES ASSUME NEW n \in 1..Len(tasks'[q]) PROVE tasks'[q][n].at = NotBegun
          OBVIOUS
        <4>1. n \in 1..(Len(tasks[p]) - 1)
          BY <1>3, <2>4
        <4>2. n + 1 \in 2..Len(tasks[p]) /\ ~(n < 1)
          BY <1>2, <4>1
        <4> QED BY <1>3, <2>2, <2>4, <3>2, <4>2
      <3>5. tasks'[q] = <<>> \/ 1 \in 1..Len(tasks'[q])
        BY <1>3, <2>4
      <3>6. \A n \in 2..Len(tasks'[q]) : n \in 1..Len(tasks'[q])
        OBVIOUS
      <3> QED BY <3>3, <3>4, <3>5, <3>6
    <2> QED BY <2>3, <2>4
  <1> QED BY <1>4, <1>5, <1>7 DEF NodeInv

LEMMA EndKeeps ==
    ASSUME IInv, NodeInv, NEW p \in Pipes, NEW t \in DOMAIN tasks[p], EndStatus(p, t)
    PROVE  NodeInv'
  <1>1. /\ connections[p] \in Seq(Sockets) /\ tasks[p] \in Seq(Tasks)
    BY DEF NodeInv, NodeTypes
  <1>2. /\ tasks[p][t].at >= Len(connections[p]) /\ tasks[p][t] \in Tasks
        /\ Len(connections[p]) \in Nat
    BY <1>1 DEF EndStatus
  <1>3. tasks[p][t].at \in Nat
    BY <1>2 DEF Tasks, Begun, NotBegun
  <1>4. tasks[p][t].at # NotBegun /\ \A i \in 1..Len(connections[p]) : i <= tasks[p][t].at
    BY <1>2, <1>3 DEF NotBegun
  <1>5. TaskEnds(p, t) /\ UNCHANGED <<owner, side, connections, nodeStatus, told, upset>>
    BY DEF EndStatus, PageUnchanged
  <1> QED BY <1>4, <1>5, TaskEnded

\* A task begins: the pipe has its status, and no connection has heard of it.
LEMMA BeginKeeps ==
    ASSUME IInv, NodeInv, NEW p \in Pipes, NEW t \in DOMAIN tasks[p], BeginStatus(p, t)
    PROVE  NodeInv'
  <1>1. /\ tasks \in [Pipes -> Seq(Tasks)] /\ nodeStatus \in [Pipes -> Statuses] /\ used' = used
        /\ tasks[p][t].at = NotBegun
        /\ nodeStatus' = [nodeStatus EXCEPT ![p] = tasks[p][t].status]
        /\ tasks' = [tasks EXCEPT ![p] = [tasks[p] EXCEPT ![t] = [tasks[p][t] EXCEPT !.at = 0]]]
        /\ upset' = IF t > 1 THEN upset \cup {p} ELSE upset
        /\ UNCHANGED <<owner, side, connections, told>>
    BY DEF NodeInv, NodeTypes, BeginStatus, PageUnchanged, used
  <1>2. /\ tasks[p] \in Seq(Tasks) /\ t \in 1..Len(tasks[p]) /\ tasks[p][t] \in Tasks
        /\ Len(tasks[p]) \in Nat
    BY <1>1
  <1> DEFINE new == [tasks[p][t] EXCEPT !.at = 0]
  <1>3. new \in Tasks /\ new.at = 0 /\ new.status = tasks[p][t].status /\ new.status \in Statuses
    BY <1>2 DEF Tasks, Begun
  <1> HIDE DEF new
  <1>4. tasks' = [tasks EXCEPT ![p] = [tasks[p] EXCEPT ![t] = new]]
    BY <1>1 DEF new
  <1>5. [tasks[p] EXCEPT ![t] = new] \in Seq(Tasks)
    BY <1>2, <1>3, ExceptSeq
  <1>6. /\ tasks'[p] = [tasks[p] EXCEPT ![t] = new] /\ tasks'[p][t] = new
        /\ \A n \in 1..Len(tasks[p]) : n # t => tasks'[p][n] = tasks[p][n]
        /\ Len(tasks'[p]) = Len(tasks[p])
        /\ \A q \in Pipes \ {p} : tasks'[q] = tasks[q] /\ nodeStatus'[q] = nodeStatus[q]
        /\ nodeStatus'[p] = new.status
    <2> DEFINE list == [tasks[p] EXCEPT ![t] = new]
    <2>1. /\ list \in Seq(Tasks) /\ Len(list) = Len(tasks[p])
          /\ \A n \in 1..Len(tasks[p]) : list[n] = IF n = t THEN new ELSE tasks[p][n]
      BY <1>2, <1>3, ExceptSeq
    <2>2. tasks'[p] = list
      BY <1>1, <1>4
    <2> HIDE DEF list
    <2>3. /\ \A q \in Pipes \ {p} : tasks'[q] = tasks[q] /\ nodeStatus'[q] = nodeStatus[q]
          /\ nodeStatus'[p] = new.status
      BY <1>1, <1>3, <1>4
    <2> QED BY <1>2, <2>1, <2>2, <2>3 DEF list
  <1>7. NodeTypes'
    BY <1>1, <1>3, <1>4, <1>5 DEF NodeInv, NodeTypes
  <1>8. ListedInv'
    BY <1>1 DEF NodeInv, ListedInv, PipeOf
  <1>9. \A q \in Pipes \ {p} : \A i \in 1..Len(connections[q]) : Heard(q, i) => Heard(q, i)'
    BY <1>1, <1>6 DEF Heard
  <1>10. ToldInv'
    <2> SUFFICES ASSUME NEW q \in Pipes \ upset'
                 PROVE  /\ \A n \in 2..Len(tasks'[q]) : tasks'[q][n].at = NotBegun
                        /\ IF tasks'[q] = <<>> \/ tasks'[q][1].at = NotBegun
                           THEN \A i \in 1..Len(connections[q]) : Heard(q, i)'
                           ELSE /\ tasks'[q][1].status = nodeStatus'[q]
                                /\ \A i \in 1..Len(connections[q]) :
                                      i <= tasks'[q][1].at => Heard(q, i)'
      BY <1>1 DEF ToldInv
    <2>1. q \notin upset
      BY <1>1
    <2>2. /\ \A n \in 2..Len(tasks[q]) : tasks[q][n].at = NotBegun
          /\ IF tasks[q] = <<>> \/ tasks[q][1].at = NotBegun
             THEN \A i \in 1..Len(connections[q]) : Heard(q, i)
             ELSE /\ tasks[q][1].status = nodeStatus[q]
                  /\ \A i \in 1..Len(connections[q]) : i <= tasks[q][1].at => Heard(q, i)
      BY <2>1 DEF NodeInv, ToldInv
    <2>3. CASE q # p
      BY <1>6, <1>9, <2>2, <2>3
    <2>4. CASE q = p
      <3>1. t = 1
        BY <1>1, <1>2, <2>4
      <3>2. \A n \in 2..Len(tasks[p]) : n # t /\ n \in 1..Len(tasks[p])
        BY <1>2, <3>1
      <3>3. \A n \in 2..Len(tasks'[q]) : tasks'[q][n].at = NotBegun
        BY <1>6, <2>2, <2>4, <3>2
      <3>4. tasks'[q][1].at = 0 /\ tasks'[q][1].status = nodeStatus'[q] /\ tasks'[q] # <<>>
        BY <1>2, <1>3, <1>6, <2>4, <3>1
      <3>5. 0 # NotBegun /\ \A i \in 1..Len(connections[q]) : ~(i <= 0)
        BY DEF NotBegun
      <3> QED BY <3>3, <3>4, <3>5
    <2> QED BY <2>3, <2>4
  <1> QED BY <1>7, <1>8, <1>10 DEF NodeInv

\* A task comes by the next connection.
LEMMA SendKeeps ==
    ASSUME IInv, NodeInv, NEW p \in Pipes, NEW t \in DOMAIN tasks[p], SendStatus(p, t)
    PROVE  NodeInv'
  <1> DEFINE task == tasks[p][t]
             k == connections[p][task.at + 1]
             new == [task EXCEPT !.at = task.at + 1]
  <1>1. /\ connections \in [Pipes -> Seq(Sockets)] /\ nodeStatus \in [Pipes -> Statuses]
        /\ tasks \in [Pipes -> Seq(Tasks)] /\ told \in [Sockets -> Statuses \cup {NoStatus}]
        /\ UNCHANGED <<owner, side, connections, nodeStatus>> /\ used' = used
    BY DEF NodeInv, NodeTypes, SendStatus, used
  <1>2. tasks[p] \in Seq(Tasks) /\ t \in 1..Len(tasks[p]) /\ task \in Tasks
    BY <1>1
  <1>3. task.at # NotBegun /\ task.at < Len(connections[p])
    BY DEF SendStatus
  <1>4. task.at \in Nat /\ task.status \in Statuses
    BY <1>2, <1>3 DEF Tasks, Begun
  <1>5. /\ connections[p] \in Seq(Sockets) /\ Len(connections[p]) \in Nat
    BY <1>1
  <1>6. task.at + 1 \in 1..Len(connections[p]) /\ k \in Sockets
    BY <1>3, <1>4, <1>5
  <1>7. CASE side[k] # "live"
    <2>1. TaskEnds(p, t) /\ upset' = upset \cup {p} /\ UNCHANGED told
      BY <1>7 DEF SendStatus
    <2> QED BY <1>1, <2>1, TaskEnded
  <1>8. CASE side[k] = "live"
    <2>1. /\ told' = [told EXCEPT ![k] = task.status]
          /\ tasks' = [tasks EXCEPT ![p] = [tasks[p] EXCEPT ![t] = new]]
          /\ upset' = upset
      BY <1>8 DEF SendStatus
    <2>2. new \in Tasks /\ new.at = task.at + 1 /\ new.status = task.status
      BY <1>2, <1>4 DEF Tasks, Begun
    <2>3. k = connections[p][task.at + 1]
      OBVIOUS
    <2> HIDE DEF task, k, new
    <2>4. /\ Len(tasks'[p]) = Len(tasks[p]) /\ tasks'[p] \in Seq(Tasks)
          /\ \A n \in 1..Len(tasks[p]) : tasks'[p][n] = IF n = t THEN new ELSE tasks[p][n]
          /\ \A q \in Pipes \ {p} : tasks'[q] = tasks[q]
          /\ tasks' \in [Pipes -> Seq(Tasks)]
      <3> DEFINE list == [tasks[p] EXCEPT ![t] = new]
      <3>1. /\ list \in Seq(Tasks) /\ Len(list) = Len(tasks[p])
            /\ \A n \in 1..Len(tasks[p]) : list[n] = IF n = t THEN new ELSE tasks[p][n]
        BY <1>2, <2>2, ExceptSeq
      <3>2. tasks' = [tasks EXCEPT ![p] = list]
        BY <2>1
      <3> HIDE DEF list
      <3>3. /\ tasks'[p] = list /\ \A q \in Pipes \ {p} : tasks'[q] = tasks[q]
            /\ tasks' \in [Pipes -> Seq(Tasks)]
        BY <1>1, <3>1, <3>2
      <3> QED BY <3>1, <3>3
    <2>5. /\ told' \in [Sockets -> Statuses \cup {NoStatus}] /\ told'[k] = task.status
          /\ \A m \in Sockets \ {k} : told'[m] = told[m]
      BY <1>1, <1>4, <1>6, <2>1
    <2>6. NodeTypes'
      BY <1>1, <2>4, <2>5 DEF NodeTypes
    <2>7. ListedInv'
      BY <1>1 DEF NodeInv, ListedInv, PipeOf
    <2>8. \A q \in Pipes \ {p} : \A i \in 1..Len(connections[q]) : Heard(q, i) => Heard(q, i)'
      <3>1. owner[k].pipe = p
        BY <1>6, <2>3 DEF NodeInv, ListedInv
      <3>2. \A q \in Pipes \ {p} : \A i \in 1..Len(connections[q]) :
                connections[q][i] \in Sockets /\ connections[q][i] # k
        BY <3>1, Made DEF NodeInv, ListedInv, IInv
      <3> QED BY <1>1, <2>5, <3>2 DEF Heard
    <2>9. task.status = nodeStatus[p] =>
             \A i \in 1..Len(connections[p]) : Heard(p, i) \/ i = task.at + 1 => Heard(p, i)'
      <3>1. \A i \in 1..Len(connections[p]) : connections[p][i] \in Sockets
        BY <1>5
      <3> QED BY <1>1, <2>3, <2>5, <3>1 DEF Heard
    <2>10. ToldInv'
      <3> SUFFICES ASSUME NEW q \in Pipes \ upset
                   PROVE  /\ \A n \in 2..Len(tasks'[q]) : tasks'[q][n].at = NotBegun
                          /\ IF tasks'[q] = <<>> \/ tasks'[q][1].at = NotBegun
                             THEN \A i \in 1..Len(connections[q]) : Heard(q, i)'
                             ELSE /\ tasks'[q][1].status = nodeStatus[q]
                                  /\ \A i \in 1..Len(connections[q]) :
                                        i <= tasks'[q][1].at => Heard(q, i)'
        BY <1>1, <2>1 DEF ToldInv
      <3>1. /\ \A n \in 2..Len(tasks[q]) : tasks[q][n].at = NotBegun
            /\ IF tasks[q] = <<>> \/ tasks[q][1].at = NotBegun
               THEN \A i \in 1..Len(connections[q]) : Heard(q, i)
               ELSE /\ tasks[q][1].status = nodeStatus[q]
                    /\ \A i \in 1..Len(connections[q]) : i <= tasks[q][1].at => Heard(q, i)
        BY DEF NodeInv, ToldInv
      <3>2. CASE q # p
        BY <2>4, <2>8, <3>1, <3>2
      <3>3. CASE q = p
        <4>1. t = 1 /\ task = tasks[p][1]
          <5>1. ~(t \in 2..Len(tasks[p]))
            BY <1>3, <3>1, <3>3 DEF task
          <5> QED BY <1>2, <5>1 DEF task
        <4>2. /\ task.status = nodeStatus[p] /\ 1 \in 1..Len(tasks[p])
              /\ \A i \in 1..Len(connections[p]) : i <= task.at => Heard(p, i)
          <5>1. tasks[p] # <<>> /\ tasks[p][1].at # NotBegun /\ 1 \in 1..Len(tasks[p])
            BY <1>2, <1>3, <4>1
          <5> QED BY <3>1, <3>3, <4>1, <5>1
        <4>3. \A n \in 2..Len(tasks'[q]) : tasks'[q][n].at = NotBegun
          <5>1. \A n \in 2..Len(tasks[p]) : n # t /\ n \in 1..Len(tasks[p])
            BY <1>2, <4>1
          <5> QED BY <2>4, <3>1, <3>3, <5>1
        <4>4. tasks'[q][1] = new /\ new.at # NotBegun /\ tasks'[q] # <<>>
          BY <1>4, <2>2, <2>4, <3>3, <4>1, <4>2 DEF NotBegun
        <4>5. \A i \in 1..Len(connections[p]) : i <= new.at => i <= task.at \/ i = task.at + 1
          BY <1>4, <2>2
        <4> QED BY <2>2, <2>9, <3>3, <4>2, <4>3, <4>4, <4>5
      <3> QED BY <3>2, <3>3
    <2> QED BY <2>6, <2>7, <2>10 DEF NodeInv
  <1> QED BY <1>7, <1>8

LEMMA NodeInitially == Init => NodeInv
  <1> SUFFICES ASSUME Init PROVE NodeInv
    OBVIOUS
  <1>1. NodeTypes
    BY DEF Init, NodeTypes, Statuses, PipeExecutionStatus
  <1>2. /\ \A p \in Pipes : Len(connections[p]) = 0 /\ Len(tasks[p]) = 0 /\ tasks[p] = <<>>
        /\ \A k \in Sockets : side[k] = "none"
    BY DEF Init
  <1>3. ListedInv /\ ToldInv
    BY <1>2 DEF ListedInv, ToldInv
  <1> QED BY <1>1, <1>3 DEF NodeInv

LEMMA NodeInductive == IInv /\ NodeInv /\ [Next]_vars => NodeInv'
  <1> SUFFICES ASSUME IInv, NodeInv, [Next]_vars PROVE NodeInv'
    OBVIOUS
  <1> DEFINE Still == UNCHANGED <<owner, side, connections, nodeStatus, tasks, told, upset>>
  <1>0. Still => NodeInv'
    <2>1. used \in Nat
      BY Made DEF IInv
    <2> QED BY <2>1, PageApart DEF used
  <1>1. CASE UNCHANGED vars \/ Clear \/ selectNode \/ toggleRun
    BY <1>0, <1>1 DEF vars, pageVars, choiceVars, objectVars, socketVars, nodeVars, Clear,
          selectNode, toggleRun
  <1>2. ASSUME NEW o \in Objects, NEW n \in Nat, NEW closing, connect(o, n),
               ReadyStates(closing, n), UNCHANGED nodeVars
        PROVE  NodeInv'
    <2>1. SocketsAdded(o, n, closing)
      BY <1>2, NewSockets DEF IInv
    <2>2. used \in Nat /\ used' = used + n /\ \A k \in 1..used : owner'[k] = owner[k]
      BY <2>1, Made DEF IInv, SocketsAdded
    <2>3. used' \in Nat /\ used <= used'
      BY <2>2
    <2> QED BY <1>2, <2>2, <2>3, PageApart DEF nodeVars
  <1>3. ASSUME NEW p \in Pipes, selectPipe(p) PROVE NodeInv'
    <2>1. /\ UNCHANGED nodeVars
          /\ \E n \in Nat : \E closing : connect(Object(p), n) /\ ReadyStates(closing, n)
      <3> DEFINE changed == Mounted /\ p # selectedPipeId
                 n == (IF connected[Object(p)] THEN 0 ELSE 1) + (IF changed THEN 2 ELSE 0)
                 closing == IF changed THEN Disconnects(Object(p), Shown) ELSE {}
      <3>1. connect(Object(p), n) /\ ReadyStates(closing, n) /\ UNCHANGED nodeVars
        BY <1>3 DEF selectPipe
      <3>2. n \in Nat
        OBVIOUS
      <3> HIDE DEF n, closing
      <3> QED BY <3>1, <3>2
    <2> QED BY <1>2, <2>1, Made DEF IInv
  <1>4. CASE setPipes
    <2> DEFINE new == [pipe |-> selectedPipeId, fetch |-> fetched + 1]
    <2>1. CASE Mounted
      <3>1. connect(new, 1) /\ ReadyStates(Disconnects(new, Shown), 1) /\ UNCHANGED nodeVars
        BY <1>4, <2>1 DEF setPipes
      <3>2. new \in Objects
        BY <1>4, <2>1, ConstantsAssumption DEF setPipes, IInv, SocketTypes, Mounted, Objects
      <3> HIDE DEF new
      <3> QED BY <1>2, <3>1, <3>2
    <2>2. CASE ~Mounted
      <3>1. owner' = owner \o [i \in 1..0 |-> new] /\ owner \in Seq(Objects)
        BY <1>4, <2>2 DEF setPipes, connect, IInv, SocketTypes
      <3>2. owner' = owner
        BY <3>1
      <3> QED BY <1>0, <1>4, <3>2 DEF setPipes, nodeVars
    <2> QED BY <2>1, <2>2
  <1>5. ASSUME NEW k \in Sockets, Opened(k) \/ Closed(k) PROVE NodeInv'
    BY <1>0, <1>5 DEF Opened, Closed, nodeVars
  <1>6. ASSUME NEW k \in Sockets, NodeStep(k) PROVE NodeInv'
    BY <1>6, ConnectKeeps, LearnCloseKeeps, LeaveKeeps, ControlKeeps DEF NodeStep
  <1>7. ASSUME NEW p \in Pipes, StatusStep(p) PROVE NodeInv'
    BY <1>7, BeginKeeps, SendKeeps, EndKeeps DEF StatusStep
  <1> QED
    BY <1>1, <1>3, <1>4, <1>5, <1>6, <1>7, CleanupKeeps
       DEF Next, UserStep, SystemStep, PageStep

LEMMA NodeInvariance == Spec => []NodeInv
  BY Initially, Inductive, NodeInitially, NodeInductive, PTL DEF Spec

\* Whichever sockets come, go and fail while a status is broadcast, and however
\* many changes of the status are waiting: once none is under way, every connection
\* that listens has been told the status of its pipe, where no broadcast raised,
\* skipped a connection or overlapped another.
THEOREM AllAreTold == Spec => []Told
  <1>1. NodeInv => Told
    <2> SUFFICES ASSUME NodeInv, NEW p \in Pipes, tasks[p] = <<>>, p \notin upset,
                        NEW i \in DOMAIN connections[p]
                 PROVE  Heard(p, i)
      BY DEF Told, Heard
    <2>1. i \in 1..Len(connections[p])
      BY DEF NodeInv, NodeTypes
    <2> QED BY <2>1 DEF NodeInv, ToldInv
  <1> QED BY <1>1, NodeInvariance, PTL

-----------------------------------------------------------------------------
(* The tree of a pipe: the ways from its root along the children of its     *)
(* processors, as map_proc walks them (pipe.py) and as treeData draws them.  *)

\* Step by step along the children, from any processor.
Steps(children, n) ==
    {w \in [1..(n + 1) -> DOMAIN children] :
        \A i \in 1..n : w[i + 1] \in children[w[i]]}

\* What the builder can have made: map_proc and all_child_procs come back from
\* every processor only if no way along the children returns to where it began.
WellBuilt(children, root) ==
    /\ IsFiniteSet(DOMAIN children) /\ root \in DOMAIN children
    /\ \A p \in DOMAIN children : children[p] \subseteq DOMAIN children
    /\ \A n \in Nat \ {0} : \A w \in Steps(children, n) : w[1] # w[n + 1]

AllWellBuilt == \A p \in Pipes : WellBuilt(GraphOf[p], p)

\* The ways of n steps that begin at the root.
Walks(children, root, n) == {w \in Steps(children, n) : w[1] = root}

LEMMA UpToAll ==
    ASSUME NEW T, 0 \in T, \A n \in Nat : n \in T => n + 1 \in T
    PROVE  Nat \subseteq T
  <1> DEFINE U == Nat \ T
             R == {ss \in Nat \X Nat : ss[1] < ss[2]}
  <1> SUFFICES ASSUME U # {} PROVE FALSE
    OBVIOUS
  <1>1. IsWellFoundedOn(R, Nat)
    BY NatLessThanWellFounded DEF OpToRel
  <1>2. U \subseteq Nat
    OBVIOUS
  <1>3. PICK x \in U : \A y \in U : ~ (<<y, x>> \in R)
    <2> HIDE DEF R, U
    <2> QED BY <1>1, <1>2, WFMin
  <1>4. x \in Nat /\ x # 0
    OBVIOUS
  <1>5. x - 1 \in Nat /\ <<x - 1, x>> \in R
    BY <1>4
  <1>6. x - 1 \in T
    BY <1>3, <1>5
  <1>7. (x - 1) + 1 \in T /\ (x - 1) + 1 = x
    BY <1>4, <1>5, <1>6
  <1> QED BY <1>7

\* A way of n + 1 steps is a way of n steps and one more.
LEMMA WalkGrows ==
    ASSUME NEW children, NEW root, WellBuilt(children, root), NEW n \in Nat
    PROVE  /\ \A w \in Walks(children, root, n) : \A c \in children[w[n + 1]] :
                 Append(w, c) \in Walks(children, root, n + 1)
           /\ \A u \in Walks(children, root, n + 1) :
                 \E w \in Walks(children, root, n) : \E c \in children[w[n + 1]] :
                    u = Append(w, c)
  <1> DEFINE D == DOMAIN children
  <1>0. \A p \in D : children[p] \subseteq D
    BY DEF WellBuilt
  <1>1. ASSUME NEW w \in Walks(children, root, n), NEW c \in children[w[n + 1]]
        PROVE  Append(w, c) \in Walks(children, root, n + 1)
    <2>1. w \in [1..(n + 1) -> D] /\ w[1] = root /\ n + 1 \in 1..(n + 1)
      BY DEF Walks, Steps
    <2>2. \A i \in 1..n : w[i + 1] \in children[w[i]]
      BY DEF Walks, Steps
    <2>3. c \in D
      BY <2>1, <1>0
    <2>4. w \in Seq(D) /\ Len(w) = n + 1
      BY <2>1
    <2>5. /\ Append(w, c) \in [1..(n + 1 + 1) -> D]
          /\ \A i \in 1..(n + 1) : Append(w, c)[i] = w[i]
          /\ Append(w, c)[n + 1 + 1] = c
      <3>1. /\ Append(w, c) \in Seq(D) /\ Len(Append(w, c)) = n + 1 + 1
            /\ \A i \in 1..Len(w) : Append(w, c)[i] = w[i]
            /\ Append(w, c)[Len(w) + 1] = c
        BY <2>3, <2>4, AppendProperties
      <3>2. Append(w, c) \in [1..(n + 1 + 1) -> D]
        BY <3>1, LenProperties
      <3> QED BY <3>1, <3>2, <2>4
    <2>6. Append(w, c)[1] = root
      BY <2>1, <2>5
    <2>7. ASSUME NEW i \in 1..(n + 1) PROVE Append(w, c)[i + 1] \in children[Append(w, c)[i]]
      <3>1. CASE i = n + 1
        BY <3>1, <2>5, <2>1
      <3>2. CASE i # n + 1
        <4>1. i \in 1..n /\ i + 1 \in 1..(n + 1)
          BY <3>2
        <4> QED BY <4>1, <2>2, <2>5
      <3> QED BY <3>1, <3>2
    <2> QED BY <2>5, <2>6, <2>7 DEF Walks, Steps
  <1>2. ASSUME NEW u \in Walks(children, root, n + 1)
        PROVE  \E w \in Walks(children, root, n) : \E c \in children[w[n + 1]] :
                    u = Append(w, c)
    <2>1. u \in [1..(n + 1 + 1) -> D] /\ u[1] = root
      BY DEF Walks, Steps
    <2>2. \A i \in 1..(n + 1) : u[i + 1] \in children[u[i]]
      BY DEF Walks, Steps
    <2> DEFINE w == [i \in 1..(n + 1) |-> u[i]]
    <2>3. w \in [1..(n + 1) -> D] /\ w[1] = root
      BY <2>1
    <2>4. \A i \in 1..n : w[i + 1] \in children[w[i]]
      BY <2>2
    <2>5. w \in Walks(children, root, n)
      BY <2>3, <2>4 DEF Walks, Steps
    <2>6. u[n + 1 + 1] \in children[w[n + 1]]
      BY <2>2
    <2>7. u = Append(w, u[n + 1 + 1])
      <3>1. w \in Seq(D) /\ Len(w) = n + 1
        BY <2>3
      <3>2. u \in Seq(D) /\ Len(u) = n + 1 + 1
        BY <2>1
      <3> QED BY <3>1, <3>2, <2>1
    <2> QED BY <2>5, <2>6, <2>7
  <1> QED BY <1>1, <1>2

LEMMA WalkBegins ==
    ASSUME NEW children, NEW root, WellBuilt(children, root)
    PROVE  Walks(children, root, 0) = {<<root>>}
  <1> DEFINE D == DOMAIN children
  <1>1. root \in D
    BY DEF WellBuilt
  <1>2. 1..(0 + 1) = {1} /\ 1..0 = {}
    OBVIOUS
  <1>3. <<root>> \in [{1} -> D] /\ <<root>>[1] = root
    BY <1>1
  <1>4. \A w \in [{1} -> D] : w[1] = root => w = <<root>>
    <2> TAKE w \in [{1} -> D]
    <2> HAVE w[1] = root
    <2>1. w \in Seq(D) /\ Len(w) = 1
      <3>1. w \in [1..1 -> D]
        OBVIOUS
      <3>2. w \in Seq(D)
        <4>1. 1 \in Nat
          OBVIOUS
        <4> HIDE DEF D
        <4> QED BY <3>1, <4>1, SeqDef
      <3>3. DOMAIN w = 1..1
        BY <3>1
      <3>4. Len(w) = 1
        BY <3>2, <3>3, LenProperties
      <3> QED BY <3>2, <3>4
    <2> QED BY <2>1, <1>1
  <1>5. Walks(children, root, 0) = {w \in [{1} -> D] : w[1] = root}
    BY <1>2 DEF Walks, Steps
  <1> QED BY <1>3, <1>4, <1>5

\* No processor is met twice on a way, so a way is not longer than the
\* processors that it stays within.
LEMMA WalkIsShort ==
    ASSUME NEW children, NEW root, WellBuilt(children, root), NEW n \in Nat,
           NEW w \in Walks(children, root, n),
           NEW P, IsFiniteSet(P), \A i \in 1..(n + 1) : w[i] \in P
    PROVE  n + 1 <= Cardinality(P) /\ Cardinality(P) \in Nat
  <1> DEFINE D == DOMAIN children
  <1>1. w \in [1..(n + 1) -> D]
    BY DEF Walks, Steps
  <1>2. \A i \in 1..n : w[i + 1] \in children[w[i]]
    BY DEF Walks, Steps
  <1>3. ASSUME NEW i \in 1..(n + 1), NEW j \in 1..(n + 1), i < j, w[i] = w[j]
        PROVE  FALSE
    <2> DEFINE m == j - i
               u == [k \in 1..(m + 1) |-> w[i + k - 1]]
    <2>1. m \in Nat \ {0} /\ i \in Nat /\ j \in Nat
      BY <1>3
    <2>2. \A k \in 1..(m + 1) : i + k - 1 \in 1..(n + 1)
      BY <2>1
    <2>3. u \in [1..(m + 1) -> D]
      BY <2>2, <1>1
    <2>4. ASSUME NEW k \in 1..m PROVE u[k + 1] \in children[u[k]]
      <3>1. k \in 1..(m + 1) /\ k + 1 \in 1..(m + 1) /\ i + k - 1 \in 1..n
        BY <2>1
      <3>2. u[k] = w[i + k - 1] /\ u[k + 1] = w[(i + k - 1) + 1]
        <4>1. i + (k + 1) - 1 = (i + k - 1) + 1
          BY <2>1
        <4> QED BY <3>1, <4>1
      <3> QED BY <3>1, <3>2, <1>2
    <2>5. u[1] = w[i] /\ u[m + 1] = w[j]
      <3>1. 1 \in 1..(m + 1) /\ m + 1 \in 1..(m + 1) /\ i + 1 - 1 = i /\ i + (m + 1) - 1 = j
        BY <2>1
      <3> QED BY <3>1
    <2>6. u \in Steps(children, m)
      <3> HIDE DEF u, m
      <3> QED BY <2>3, <2>4 DEF Steps
    <2>7. u[1] # u[m + 1]
      <3> HIDE DEF u, m
      <3> QED BY <2>1, <2>6 DEF WellBuilt
    <2> QED BY <2>5, <2>7, <1>3
  <1>4. \A i, j \in 1..(n + 1) : w[i] = w[j] => i = j
    BY <1>3
  <1>5. w \in Injection(1..(n + 1), P)
    <2>1. w \in [1..(n + 1) -> P]
      BY <1>1
    <2> QED BY <2>1, <1>4 DEF Injection, IsInjective
  <1>6. Cardinality(1..(n + 1)) = n + 1
    BY FS_Interval
  <1>7. Cardinality(1..(n + 1)) <= Cardinality(P)
    BY <1>5, FS_Injection
  <1>8. Cardinality(P) \in Nat
    BY FS_CardinalityType
  <1> QED BY <1>6, <1>7, <1>8

\* The last step of a way.
LEMMA WalkSplits ==
    ASSUME NEW children, NEW root, WellBuilt(children, root), NEW n \in Nat,
           NEW u \in Walks(children, root, n + 1)
    PROVE  \E w \in Walks(children, root, n) :
              u[n + 1 + 1] \in children[w[n + 1]] /\ u = Append(w, u[n + 1 + 1])
  <1> DEFINE D == DOMAIN children
  <1>1. PICK w \in Walks(children, root, n) : \E c \in children[w[n + 1]] :
              u = Append(w, c)
    BY WalkGrows
  <1>2. PICK c \in children[w[n + 1]] : u = Append(w, c)
    BY <1>1
  <1>3. w \in [1..(n + 1) -> D] /\ w[n + 1] \in D
    BY DEF Walks, Steps
  <1>4. c \in D
    BY <1>3 DEF WellBuilt
  <1>5. w \in Seq(D) /\ Len(w) = n + 1
    BY <1>3
  <1>6. u[n + 1 + 1] = c
    BY <1>2, <1>4, <1>5, AppendProperties
  <1> QED BY <1>2, <1>6

\* What map_proc visits are the ends of the ways from the root.
LEMMA ReachableFacts ==
    ASSUME NEW children, NEW root, WellBuilt(children, root)
    PROVE  LET procs == Reachable(children, root)
           IN  /\ procs \subseteq DOMAIN children /\ IsFiniteSet(procs) /\ root \in procs
               /\ \A p \in procs : children[p] \subseteq procs
               /\ \A p \in procs : \E n \in Nat :
                     \E w \in Walks(children, root, n) : w[n + 1] = p
  <1> DEFINE D == DOMAIN children
             N == Cardinality(D)
             Ends(n) == {p \in D : \E m \in 0..n : \E w \in Walks(children, root, m) :
                                      w[m + 1] = p}
             F == [n \in Nat |-> Ends(n)]
             Below(v) == [n \in Nat |->
                            IF n = 0 THEN {root}
                            ELSE v[n - 1] \cup UNION {children[p] : p \in v[n - 1]}]
             Within == CHOOSE v : v = Below(v)
  <1>1. Reachable(children, root) = Within[N]
    BY DEF Reachable
  <1>2. IsFiniteSet(D) /\ N \in Nat /\ root \in D
    <2>1. IsFiniteSet(D) /\ root \in D
      BY DEF WellBuilt
    <2> QED BY <2>1, FS_CardinalityType
  <1>3. \A p \in D : children[p] \subseteq D
    BY DEF WellBuilt
  <1>4. \A m \in Nat : \A w \in Walks(children, root, m) :
           /\ \A i \in 1..(m + 1) : w[i] \in D
           /\ w[m + 1] \in D
    <2> TAKE m \in Nat
    <2> TAKE w \in Walks(children, root, m)
    <2>1. w \in [1..(m + 1) -> D] /\ m + 1 \in 1..(m + 1)
      BY DEF Walks, Steps
    <2> QED BY <2>1
  <1>5. Ends(0) = {root}
    <2>1. Walks(children, root, 0) = {<<root>>}
      BY WalkBegins
    <2>2. \A m \in 0..0 : m = 0
      OBVIOUS
    <2>3. ASSUME NEW p \in Ends(0) PROVE p = root
      <3>1. \E w \in Walks(children, root, 0) : w[0 + 1] = p
        BY <2>2
      <3> QED BY <3>1, <2>1
    <2>4. root \in Ends(0)
      <3>1. 0 \in 0..0 /\ <<root>> \in Walks(children, root, 0) /\ <<root>>[0 + 1] = root
        BY <2>1
      <3> QED BY <3>1, <1>2
    <2> HIDE DEF Ends
    <2> QED BY <2>3, <2>4
  <1>6. \A n \in Nat : Ends(n + 1) = Ends(n) \cup UNION {children[p] : p \in Ends(n)}
    <2> TAKE n \in Nat
    <2>1. ASSUME NEW p \in Ends(n + 1)
          PROVE  p \in Ends(n) \/ \E q \in Ends(n) : p \in children[q]
      <3>1. PICK m \in 0..(n + 1) : \E w \in Walks(children, root, m) : w[m + 1] = p
        OBVIOUS
      <3>2. PICK w \in Walks(children, root, m) : w[m + 1] = p
        BY <3>1
      <3>3. CASE m <= n
        <4>1. m \in 0..n /\ p \in D
          BY <3>3
        <4> QED BY <4>1, <3>2
      <3>4. CASE m = n + 1
        <4>1. w \in Walks(children, root, n + 1) /\ w[n + 1 + 1] = p
          BY <3>2, <3>4
        <4>2. PICK u \in Walks(children, root, n) : w[n + 1 + 1] \in children[u[n + 1]]
          <5> HIDE DEF Ends, D, Below, Within, F, N
          <5> QED BY <4>1, WalkSplits
        <4>4. u[n + 1] \in D
          BY <1>4
        <4>7. n \in 0..n
          OBVIOUS
        <4>8. u[n + 1] \in Ends(n)
          BY <4>4, <4>7
        <4> QED BY <4>1, <4>2, <4>8
      <3>5. m <= n \/ m = n + 1
        OBVIOUS
      <3> QED BY <3>3, <3>4, <3>5
    <2>2. ASSUME NEW p \in Ends(n) PROVE p \in Ends(n + 1)
      <3>1. 0..n \subseteq 0..(n + 1)
        OBVIOUS
      <3> QED BY <3>1
    <2>3. ASSUME NEW q \in Ends(n), NEW p \in children[q] PROVE p \in Ends(n + 1)
      <3>1. PICK m \in 0..n : \E w \in Walks(children, root, m) : w[m + 1] = q
        OBVIOUS
      <3>2. PICK w \in Walks(children, root, m) : w[m + 1] = q
        BY <3>1
      <3>3. m \in Nat /\ m + 1 \in 0..(n + 1) /\ p \in D
        BY <1>3
      <3>4. Append(w, p) \in Walks(children, root, m + 1)
        BY <3>2, <3>3, WalkGrows
      <3>5. w \in [1..(m + 1) -> D]
        BY DEF Walks, Steps
      <3>6. Append(w, p)[m + 1 + 1] = p
        <4>1. w \in Seq(D) /\ Len(w) = m + 1
          BY <3>5, <3>3
        <4> QED BY <4>1, <3>3, AppendProperties
      <3> QED BY <3>3, <3>4, <3>6
    <2> HIDE DEF Ends
    <2> QED BY <2>1, <2>2, <2>3
  <1>7. Within = Below(Within)
    <2> HIDE DEF Ends
    <2>1. ASSUME NEW n \in Nat PROVE F[n] = Below(F)[n]
      <3>1. CASE n = 0
        BY <3>1, <1>5
      <3>2. CASE n # 0
        <4>1. n - 1 \in Nat /\ (n - 1) + 1 = n
          BY <3>2
        <4>2. Ends(n) = Ends(n - 1) \cup UNION {children[p] : p \in Ends(n - 1)}
          BY <4>1, <1>6
        <4> QED BY <4>1, <4>2, <3>2
      <3> QED BY <3>1, <3>2
    <2>2. F = Below(F)
      <3>1. DOMAIN F = DOMAIN Below(F)
        OBVIOUS
      <3> QED BY <2>1
    <2> HIDE DEF F, Below
    <2> QED BY <2>2
  <1>8. \A n \in Nat : Within[n] = Ends(n)
    <2> DEFINE T == {n \in Nat : Within[n] = Ends(n)}
    <2> HIDE DEF Within, Ends
    <2>1. /\ Within[0] = {root}
          /\ \A n \in Nat \ {0} : Within[n] = Within[n - 1] \cup
                                    UNION {children[p] : p \in Within[n - 1]}
      BY <1>7
    <2>2. 0 \in T
      BY <2>1, <1>5
    <2>3. ASSUME NEW n \in Nat, n \in T PROVE n + 1 \in T
      <3>1. n + 1 \in Nat \ {0} /\ (n + 1) - 1 = n
        OBVIOUS
      <3>2. Within[n + 1] = Within[n] \cup UNION {children[p] : p \in Within[n]}
        BY <2>1, <3>1
      <3>3. Ends(n + 1) = Ends(n) \cup UNION {children[p] : p \in Ends(n)}
        BY <1>6
      <3> QED BY <2>3, <3>1, <3>2, <3>3
    <2>4. Nat \subseteq T
      <3> HIDE DEF T
      <3> QED BY <2>2, <2>3, UpToAll
    <2> QED BY <2>4
  <1>9. Reachable(children, root) = Ends(N)
    <2> HIDE DEF Within, Ends, N
    <2> QED BY <1>1, <1>2, <1>8
  <1>10. IsFiniteSet(Ends(N)) /\ Ends(N) \subseteq D
    <2>1. Ends(N) \subseteq D
      OBVIOUS
    <2> HIDE DEF Ends, N, D
    <2> QED BY <2>1, <1>2, FS_Subset
  <1>11. root \in Ends(N)
    <2>1. <<root>> \in Walks(children, root, 0) /\ <<root>>[0 + 1] = root
      BY WalkBegins
    <2> QED BY <2>1, <1>2
  <1>12. \A n \in Nat : \A w \in Walks(children, root, n) : w[n + 1] \in Ends(N)
    <2> TAKE n \in Nat
    <2> TAKE w \in Walks(children, root, n)
    <2>1. n + 1 <= N
      <3> HIDE DEF N
      <3>1. \A i \in 1..(n + 1) : w[i] \in D
        BY <1>4
      <3> HIDE DEF D
      <3> QED BY <1>2, <3>1, WalkIsShort DEF N
    <2>2. n \in 0..N
      BY <2>1, <1>2
    <2> QED BY <2>2, <1>4
  <1>13. \A p \in Ends(N) : children[p] \subseteq Ends(N)
    <2> SUFFICES ASSUME NEW p \in Ends(N), NEW c \in children[p] PROVE c \in Ends(N)
      OBVIOUS
    <2>1. PICK m \in 0..N : \E w \in Walks(children, root, m) : w[m + 1] = p
      OBVIOUS
    <2>2. PICK w \in Walks(children, root, m) : w[m + 1] = p
      BY <2>1
    <2>3. m \in Nat /\ m + 1 \in Nat /\ c \in D
      BY <1>3
    <2>4. Append(w, c) \in Walks(children, root, m + 1)
      BY <2>2, <2>3, WalkGrows
    <2>5. w \in [1..(m + 1) -> D]
      BY DEF Walks, Steps
    <2>6. Append(w, c)[m + 1 + 1] = c
      <3>1. w \in Seq(D) /\ Len(w) = m + 1
        BY <2>5, <2>3
      <3> QED BY <3>1, <2>3, AppendProperties
    <2> HIDE DEF Ends
    <2> QED BY <2>3, <2>4, <2>6, <1>12
  <1>14. \A p \in Ends(N) : \E n \in Nat : \E w \in Walks(children, root, n) : w[n + 1] = p
    OBVIOUS
  <1> HIDE DEF Ends, N
  <1> QED BY <1>9, <1>10, <1>11, <1>13, <1>14

\* The definition: its processors are those that are visited, and a queue goes
\* to each child.
LEMMA DefinitionFacts ==
    ASSUME NEW children, NEW root, WellBuilt(children, root)
    PROVE  LET procs == Reachable(children, root)
               def == pipe_def(children, root)
           IN  /\ def.id = root
               /\ {p.id : p \in def.processors} = procs
               /\ Cardinality(def.processors) = Cardinality(procs)
               /\ def.queues = {APIQueue(pc[1], pc[2]) :
                     pc \in {pc \in procs \X procs : pc[2] \in children[pc[1]]}}
               /\ \A q \in def.queues : q.from_p \in procs /\ q.to_p \in children[q.from_p]
               /\ \A p \in procs : \A c \in children[p] : \E q \in def.queues :
                     q.from_p = p /\ q.to_p = c
               /\ \A p \in procs : ChildrenIn(def, p) = children[p]
  <1> DEFINE procs == Reachable(children, root)
             def == pipe_def(children, root)
             f == [p \in procs |-> APIProcessor(p)]
  <1>1. IsFiniteSet(procs) /\ \A p \in procs : children[p] \subseteq procs
    BY ReachableFacts
  <1>2. /\ def.id = root
        /\ def.processors = {APIProcessor(p) : p \in procs}
        /\ def.queues = {APIQueue(pc[1], pc[2]) :
                     pc \in {pc \in procs \X procs : pc[2] \in children[pc[1]]}}
    BY DEF pipe_def, APIPipe
  <1>3. \A p : APIProcessor(p).id = p
    BY DEF APIProcessor
  <1>4. {p.id : p \in def.processors} = procs
    <2> HIDE DEF procs, def
    <2> QED BY <1>2, <1>3
  <1>5. Cardinality(def.processors) = Cardinality(procs)
    <2> HIDE DEF procs, def
    <2>1. f \in [procs -> def.processors]
      BY <1>2
    <2>2. \A p \in def.processors : \E r \in procs : f[r] = p
      BY <1>2
    <2>3. \A p, r \in procs : f[p] = f[r] => p = r
      BY <1>3
    <2>4. f \in Surjection(procs, def.processors) /\ f \in Injection(procs, def.processors)
      <3> HIDE DEF f
      <3> QED BY <2>1, <2>2, <2>3 DEF Surjection, Injection, IsInjective
    <2> QED BY <1>1, <2>4, FS_Surjection
  <1>6. \A p, c : APIQueue(p, c).from_p = p /\ APIQueue(p, c).to_p = c
    BY DEF APIQueue
  <1>7. \A q \in def.queues : q.from_p \in procs /\ q.to_p \in children[q.from_p]
    <2> HIDE DEF procs, def
    <2> QED BY <1>2, <1>6
  <1>8. ASSUME NEW p \in procs, NEW c \in children[p]
        PROVE  \E q \in def.queues : q.from_p = p /\ q.to_p = c
    <2> HIDE DEF procs, def
    <2>1. c \in procs
      BY <1>1
    <2>2. <<p, c>> \in {pc \in procs \X procs : pc[2] \in children[pc[1]]}
      BY <2>1
    <2>3. APIQueue(p, c) \in def.queues
      BY <1>2, <2>2
    <2> QED BY <2>3, <1>6
  <1>9. \A p \in procs : ChildrenIn(def, p) = children[p]
    <2> HIDE DEF procs, def
    <2> QED BY <1>7, <1>8 DEF ChildrenIn
  <1> QED BY <1>2, <1>4, <1>5, <1>7, <1>8, <1>9

\* The tree is the ways from the root, all of them.
LEMMA TreeIsWalks ==
    ASSUME NEW children, NEW root, WellBuilt(children, root)
    PROVE  treeData(pipe_def(children, root)) = UNION {Walks(children, root, n) : n \in Nat}
  <1> DEFINE D == DOMAIN children
             procs == Reachable(children, root)
             def == pipe_def(children, root)
             N == Cardinality(def.processors)
             Grown(path) == {Append(path, c) : c \in ChildrenIn(def, path[Len(path)])}
             F == [n \in Nat |-> Walks(children, root, n)]
             Longer(v) == [n \in Nat |->
                             IF n = 0 THEN {<<def.id>>}
                             ELSE UNION {Grown(path) : path \in v[n - 1]}]
             Level == CHOOSE v : v = Longer(v)
  <1>1. treeData(def) = UNION {Level[n] : n \in 0..N}
    BY DEF treeData
  <1>2. /\ procs \subseteq D /\ IsFiniteSet(procs) /\ root \in procs
        /\ \A p \in procs : children[p] \subseteq procs
    BY ReachableFacts
  <1>3. /\ def.id = root /\ N = Cardinality(procs)
        /\ \A p \in procs : ChildrenIn(def, p) = children[p]
    BY DefinitionFacts
  <1>4. \A n \in Nat : \A w \in Walks(children, root, n) :
           /\ w \in Seq(D) /\ Len(w) = n + 1
           /\ \A i \in 1..(n + 1) : w[i] \in procs
    <2> TAKE n \in Nat
    <2> TAKE w \in Walks(children, root, n)
    <2>1. w \in [1..(n + 1) -> D] /\ w[1] = root
      BY DEF Walks, Steps
    <2>2. \A i \in 1..n : w[i + 1] \in children[w[i]]
      BY DEF Walks, Steps
    <2> DEFINE T == {i \in Nat : i + 1 \in 1..(n + 1) => w[i + 1] \in procs}
    <2>3. 0 \in T
      BY <2>1, <1>2
    <2>4. ASSUME NEW i \in Nat, i \in T PROVE i + 1 \in T
      <3> SUFFICES ASSUME i + 1 + 1 \in 1..(n + 1) PROVE w[i + 1 + 1] \in procs
        OBVIOUS
      <3>1. i + 1 \in 1..n /\ i + 1 \in 1..(n + 1)
        OBVIOUS
      <3>2. w[i + 1] \in procs
        BY <2>4, <3>1
      <3> QED BY <3>1, <3>2, <2>2, <1>2
    <2>5. Nat \subseteq T
      <3> HIDE DEF T
      <3> QED BY <2>3, <2>4, UpToAll
    <2>6. \A i \in 1..(n + 1) : w[i] \in procs
      <3> TAKE i \in 1..(n + 1)
      <3>1. i - 1 \in Nat /\ (i - 1) + 1 = i
        OBVIOUS
      <3>2. i - 1 \in T
        BY <3>1, <2>5
      <3> HIDE DEF procs
      <3> QED BY <3>1, <3>2
    <2> QED BY <2>1, <2>6
  <1>5. \A n \in Nat : Walks(children, root, n + 1) =
                          UNION {Grown(path) : path \in Walks(children, root, n)}
    <2> TAKE n \in Nat
    <2>1. ASSUME NEW w \in Walks(children, root, n)
          PROVE  Grown(w) = {Append(w, c) : c \in children[w[n + 1]]}
      BY <1>3, <1>4
    <2>2. ASSUME NEW w \in Walks(children, root, n), NEW c \in children[w[n + 1]]
          PROVE  Append(w, c) \in Walks(children, root, n + 1)
      <3> HIDE DEF procs, def, N, Grown, F, Longer, Level, D
      <3> QED BY WalkGrows
    <2>3. ASSUME NEW u \in Walks(children, root, n + 1)
          PROVE  \E w \in Walks(children, root, n) : u \in Grown(w)
      <3>1. PICK w \in Walks(children, root, n) :
                u[n + 1 + 1] \in children[w[n + 1]] /\ u = Append(w, u[n + 1 + 1])
        <4> HIDE DEF procs, def, N, Grown, F, Longer, Level, D
        <4> QED BY WalkSplits
      <3> HIDE DEF Grown
      <3>2. u \in {Append(w, c) : c \in children[w[n + 1]]}
        BY <3>1
      <3> QED BY <3>2, <2>1
    <2>4. ASSUME NEW w \in Walks(children, root, n), NEW u \in Grown(w)
          PROVE  u \in Walks(children, root, n + 1)
      <3> HIDE DEF Grown
      <3>1. u \in {Append(w, c) : c \in children[w[n + 1]]}
        BY <2>1
      <3> QED BY <3>1, <2>2
    <2> HIDE DEF procs, def, N, Grown, F, Longer, Level, D
    <2> QED BY <2>3, <2>4
  <1>6. Level = Longer(Level)
    <2>1. ASSUME NEW n \in Nat PROVE F[n] = Longer(F)[n]
      <3>1. CASE n = 0
        BY <3>1, <1>3, WalkBegins
      <3>2. CASE n # 0
        <4>1. n - 1 \in Nat /\ (n - 1) + 1 = n
          BY <3>2
        <4>2. Walks(children, root, n) = UNION {Grown(path) : path \in Walks(children, root, n - 1)}
          <5> HIDE DEF Grown
          <5> QED BY <4>1, <1>5
        <4> HIDE DEF Grown
        <4> QED BY <4>1, <4>2, <3>2
      <3> QED BY <3>1, <3>2
    <2>2. F = Longer(F)
      <3> HIDE DEF Grown
      <3>1. DOMAIN F = DOMAIN Longer(F)
        OBVIOUS
      <3> QED BY <2>1
    <2> HIDE DEF F, Longer
    <2> QED BY <2>2
  <1>7. \A n \in Nat : Level[n] = Walks(children, root, n)
    <2> DEFINE T == {n \in Nat : Level[n] = Walks(children, root, n)}
    <2> HIDE DEF Level, Grown, def
    <2>1. /\ Level[0] = {<<def.id>>}
          /\ \A n \in Nat \ {0} : Level[n] = UNION {Grown(path) : path \in Level[n - 1]}
      BY <1>6
    <2>2. 0 \in T
      BY <2>1, <1>3, WalkBegins
    <2>3. ASSUME NEW n \in Nat, n \in T PROVE n + 1 \in T
      <3>1. n + 1 \in Nat \ {0} /\ (n + 1) - 1 = n
        OBVIOUS
      <3>2. Level[n + 1] = UNION {Grown(path) : path \in Level[n]}
        BY <2>1, <3>1
      <3> QED BY <2>3, <3>1, <3>2, <1>5
    <2>4. Nat \subseteq T
      <3> HIDE DEF T
      <3> QED BY <2>2, <2>3, UpToAll
    <2> QED BY <2>4
  <1>8. \A n \in Nat : \A w \in Walks(children, root, n) : n \in 0..N
    <2> TAKE n \in Nat
    <2> TAKE w \in Walks(children, root, n)
    <2>1. \A i \in 1..(n + 1) : w[i] \in procs
      BY <1>4
    <2>2. n + 1 <= Cardinality(procs) /\ Cardinality(procs) \in Nat
      <3> HIDE DEF procs, def, N, Grown, F, Longer, Level, D
      <3> QED BY <2>1, <1>2, WalkIsShort
    <2> QED BY <2>2, <1>3
  <1>9. N \in Nat
    BY <1>2, <1>3, FS_CardinalityType
  <1>10. \A n \in 0..N : Level[n] = Walks(children, root, n)
    BY <1>7, <1>9
  <1> HIDE DEF procs, N, Grown, F, Longer, Level, D
  <1>11. treeData(def) = UNION {Walks(children, root, n) : n \in 0..N}
    BY <1>1, <1>10
  <1>12. 0..N \subseteq Nat
    BY <1>9
  <1>13. treeData(def) = UNION {Walks(children, root, n) : n \in Nat}
    <2> HIDE DEF def
    <2> QED BY <1>8, <1>11, <1>12
  <1> QED BY <1>13

\* What TreeOfShown says of a drawing, of any pipe that can have been built.
WholeTree(def) ==
    LET drawing == Drawing(def)
        Grown(path) == {Append(path, q.to_p) :
                          q \in {q \in def.queues : q.from_p = path[Len(path)]}}
    IN  /\ <<def.id>> \in drawing.nodes
        /\ \A path \in drawing.nodes :
              /\ Grown(path) \subseteq drawing.nodes
              /\ \A longer \in Grown(path) : <<path, longer>> \in drawing.links
              /\ Len(path) > 1 => \E parent \in drawing.nodes :
                     path \in Grown(parent) /\ <<parent, path>> \in drawing.links
        /\ {p.id : p \in def.processors} = {path[Len(path)] : path \in drawing.nodes}
        /\ {p.id : p \in entryProcs(def)} = {def.id}

LEMMA TreeIsWhole ==
    ASSUME NEW children, NEW root, WellBuilt(children, root)
    PROVE  WholeTree(pipe_def(children, root))
  <1> DEFINE D == DOMAIN children
             procs == Reachable(children, root)
             def == pipe_def(children, root)
             nodes == Drawing(def).nodes
             links == Drawing(def).links
             Grown(path) == {Append(path, q.to_p) :
                               q \in {q \in def.queues : q.from_p = path[Len(path)]}}
  <1>1. nodes = UNION {Walks(children, root, n) : n \in Nat} /\ links = Links(nodes)
    BY TreeIsWalks DEF Drawing
  <1>2. /\ procs \subseteq D /\ root \in procs
        /\ \A p \in procs : children[p] \subseteq procs
        /\ \A p \in procs : \E n \in Nat : \E w \in Walks(children, root, n) : w[n + 1] = p
    BY ReachableFacts
  <1>3. /\ def.id = root /\ {p.id : p \in def.processors} = procs
        /\ \A q \in def.queues : q.from_p \in procs /\ q.to_p \in children[q.from_p]
        /\ \A p \in procs : \A c \in children[p] : \E q \in def.queues :
              q.from_p = p /\ q.to_p = c
    BY DefinitionFacts
  <1>4. \A n \in Nat : \A w \in Walks(children, root, n) :
           /\ w \in [1..(n + 1) -> D] /\ w[1] = root
           /\ \A i \in 1..n : w[i + 1] \in children[w[i]]
           /\ w \in Seq(D) /\ Len(w) = n + 1 /\ w[n + 1] \in D
    <2> TAKE n \in Nat
    <2> TAKE w \in Walks(children, root, n)
    <2>1. w \in [1..(n + 1) -> D] /\ w[1] = root
      BY DEF Walks, Steps
    <2>2. \A i \in 1..n : w[i + 1] \in children[w[i]]
      BY DEF Walks, Steps
    <2> QED BY <2>1, <2>2
  <1>5. \A n \in Nat : \A w \in Walks(children, root, n) : w[n + 1] \in procs
    <2> DEFINE T == {n \in Nat : \A w \in Walks(children, root, n) : w[n + 1] \in procs}
    <2>1. 0 \in T
      BY <1>2, WalkBegins
    <2>2. ASSUME NEW n \in Nat, n \in T PROVE n + 1 \in T
      <3> SUFFICES ASSUME NEW u \in Walks(children, root, n + 1) PROVE u[n + 1 + 1] \in procs
        OBVIOUS
      <3>1. \E w \in Walks(children, root, n) : u[n + 1 + 1] \in children[w[n + 1]]
        <4> HIDE DEF D, procs, def, nodes, links, Grown, T
        <4> QED BY WalkSplits
      <3>2. \A w \in Walks(children, root, n) : w[n + 1] \in procs
        BY <2>2
      <3> HIDE DEF procs
      <3> QED BY <3>1, <3>2, <1>2
    <2>3. Nat \subseteq T
      <3> HIDE DEF T
      <3> QED BY <2>1, <2>2, UpToAll
    <2> QED BY <2>3
  <1> HIDE DEF nodes, links, def, procs
  <1>6. <<def.id>> \in nodes
    BY <1>1, <1>3, WalkBegins
  <1>7. \A n \in Nat : \A w \in Walks(children, root, n) :
           \A u \in Grown(w) : \E c \in children[w[n + 1]] : u = Append(w, c)
    <2> TAKE n \in Nat
    <2> TAKE w \in Walks(children, root, n)
    <2> TAKE u \in Grown(w)
    <2>1. PICK q \in def.queues : q.from_p = w[Len(w)] /\ u = Append(w, q.to_p)
      OBVIOUS
    <2>2. Len(w) = n + 1 /\ q.to_p \in children[w[n + 1]]
      BY <2>1, <1>3, <1>4
    <2> QED BY <2>1, <2>2
  <1>8. \A n \in Nat : \A w \in Walks(children, root, n) :
           \A c \in children[w[n + 1]] : Append(w, c) \in Grown(w)
    <2> TAKE n \in Nat
    <2> TAKE w \in Walks(children, root, n)
    <2> TAKE c \in children[w[n + 1]]
    <2>1. w[n + 1] \in procs /\ Len(w) = n + 1
      BY <1>4, <1>5
    <2>2. PICK q \in def.queues : q.from_p = w[n + 1] /\ q.to_p = c
      BY <2>1, <1>3
    <2> QED BY <2>1, <2>2
  <1>9. \A n \in Nat : \A w \in Walks(children, root, n) : \A c \in children[w[n + 1]] :
           /\ Append(w, c) \in Walks(children, root, n + 1)
           /\ Parent(Append(w, c)) = w /\ Len(Append(w, c)) = n + 1 + 1
    <2> TAKE n \in Nat
    <2> TAKE w \in Walks(children, root, n)
    <2> TAKE c \in children[w[n + 1]]
    <2>1. Append(w, c) \in Walks(children, root, n + 1)
      BY WalkGrows
    <2>2. w \in Seq(D) /\ Len(w) = n + 1 /\ w[n + 1] \in D
      BY <1>4
    <2>3. c \in D
      BY <2>2 DEF WellBuilt
    <2>4. /\ Append(w, c) \in Seq(D) /\ Len(Append(w, c)) = n + 1 + 1
          /\ \A i \in 1..(n + 1) : Append(w, c)[i] = w[i]
      <3> HIDE DEF D
      <3> QED BY <2>2, <2>3, AppendProperties
    <2>5. Parent(Append(w, c)) = w
      <3> HIDE DEF D
      <3>1. Parent(Append(w, c)) = SubSeq(Append(w, c), 1, n + 1)
        BY <2>4 DEF Parent
      <3>2. /\ SubSeq(Append(w, c), 1, n + 1) \in Seq(D)
            /\ Len(SubSeq(Append(w, c), 1, n + 1)) = n + 1
            /\ \A i \in 1..(n + 1) : SubSeq(Append(w, c), 1, n + 1)[i] = w[i]
        BY <2>4, SubSeqProperties
      <3> QED BY <2>2, <3>1, <3>2, SeqEqual
    <2> QED BY <2>1, <2>4, <2>5
  <1>10. \A n \in Nat : \A w \in Walks(children, root, n) :
            \A u \in Grown(w) : u \in nodes /\ <<w, u>> \in links
    <2> TAKE n \in Nat
    <2> TAKE w \in Walks(children, root, n)
    <2> TAKE u \in Grown(w)
    <2>1. PICK c \in children[w[n + 1]] : u = Append(w, c)
      BY <1>7
    <2>2. u \in Walks(children, root, n + 1) /\ Parent(u) = w /\ Len(u) = n + 1 + 1
      BY <2>1, <1>9
    <2>3. u \in nodes /\ Len(u) > 1
      BY <2>2, <1>1
    <2>4. <<Parent(u), u>> \in Links(nodes)
      BY <2>3 DEF Links
    <2> QED BY <2>2, <2>3, <2>4, <1>1
  <1>11. \A n \in Nat : \A u \in Walks(children, root, n) : Len(u) > 1 =>
            \E w \in nodes : u \in Grown(w)
    <2> TAKE n \in Nat
    <2> TAKE u \in Walks(children, root, n)
    <2> HAVE Len(u) > 1
    <2>1. n - 1 \in Nat /\ (n - 1) + 1 = n
      BY <1>4
    <2> DEFINE m == n - 1
    <2>2. m \in Nat /\ u \in Walks(children, root, m + 1)
      BY <2>1
    <2> HIDE DEF m
    <2>3. PICK w \in Walks(children, root, m) :
              u[m + 1 + 1] \in children[w[m + 1]] /\ u = Append(w, u[m + 1 + 1])
      <3> HIDE DEF D, Grown
      <3> QED BY <2>2, WalkSplits
    <2>4. u \in Grown(w)
      <3>1. Append(w, u[m + 1 + 1]) \in Grown(w)
        <4> HIDE DEF Grown
        <4> QED BY <2>2, <2>3, <1>8
      <3> HIDE DEF Grown
      <3> QED BY <3>1, <2>3
    <2>5. w \in nodes
      BY <2>2, <1>1
    <2> QED BY <2>4, <2>5
  <1>12. \A path \in nodes : \E n \in Nat : path \in Walks(children, root, n)
    BY <1>1
  <1>13. {p.id : p \in def.processors} = {path[Len(path)] : path \in nodes}
    <2>1. ASSUME NEW path \in nodes PROVE path[Len(path)] \in procs
      <3>1. PICK n \in Nat : path \in Walks(children, root, n)
        BY <1>12
      <3> QED BY <3>1, <1>4, <1>5
    <2>2. ASSUME NEW p \in procs PROVE \E path \in nodes : path[Len(path)] = p
      <3>1. PICK n \in Nat : \E w \in Walks(children, root, n) : w[n + 1] = p
        BY <1>2
      <3>2. PICK w \in Walks(children, root, n) : w[n + 1] = p
        BY <3>1
      <3>3. w \in nodes /\ Len(w) = n + 1
        BY <1>1, <1>4
      <3> QED BY <3>2, <3>3
    <2> QED BY <2>1, <2>2, <1>3
  <1>14. {p.id : p \in entryProcs(def)} = {def.id}
    <2>1. ASSUME NEW p \in def.processors, p.id # root
          PROVE  \E q \in def.queues : q.to_p = p.id
      <3>1. p.id \in procs
        BY <1>3
      <3>2. PICK n \in Nat : \E w \in Walks(children, root, n) : w[n + 1] = p.id
        BY <3>1, <1>2
      <3>3. PICK w \in Walks(children, root, n) : w[n + 1] = p.id
        BY <3>2
      <3>4. n # 0
        BY <3>3, <1>4, <2>1
      <3>5. n - 1 \in Nat /\ n \in 1..n /\ (n - 1) + 1 = n
        BY <3>4
      <3>6. p.id \in children[w[n]]
        BY <3>3, <3>5, <1>4
      <3>7. w[n] \in procs
        <4> DEFINE m == n - 1
        <4>1. m \in Nat /\ n = m + 1
          BY <3>5
        <4> HIDE DEF m
        <4>2. w \in Walks(children, root, m + 1)
          BY <4>1
        <4>3. PICK v \in Walks(children, root, m) :
                 w[m + 1 + 1] \in children[v[m + 1]] /\ w = Append(v, w[m + 1 + 1])
          <5> HIDE DEF D, Grown
          <5> QED BY <4>1, <4>2, WalkSplits
        <4>4. w[m + 1 + 1] \in D
          BY <4>1, <4>2, <1>4
        <4>5. v \in Seq(D) /\ Len(v) = m + 1 /\ v[m + 1] \in procs
          BY <4>1, <4>3, <1>4, <1>5
        <4>6. w[m + 1] = v[m + 1]
          <5> HIDE DEF D
          <5> QED BY <4>1, <4>3, <4>4, <4>5, AppendProperties
        <4> QED BY <4>1, <4>5, <4>6
      <3> QED BY <3>6, <3>7, <1>3
    <2>2. ASSUME NEW q \in def.queues PROVE q.to_p # root
      <3>1. q.from_p \in procs /\ q.to_p \in children[q.from_p]
        BY <1>3
      <3>2. PICK n \in Nat : \E w \in Walks(children, root, n) : w[n + 1] = q.from_p
        BY <3>1, <1>2
      <3>3. PICK w \in Walks(children, root, n) : w[n + 1] = q.from_p
        BY <3>2
      <3>4. Append(w, q.to_p) \in Walks(children, root, n + 1)
        BY <3>1, <3>3, <1>9
      <3> DEFINE u == Append(w, q.to_p)
      <3>5. u \in Steps(children, n + 1) /\ u[1] = root
        BY <3>4 DEF Walks
      <3>6. u[n + 1 + 1] = q.to_p
        <4>1. w \in Seq(D) /\ Len(w) = n + 1 /\ q.to_p \in D
          BY <1>2, <1>4, <3>1
        <4> HIDE DEF D
        <4> QED BY <4>1, AppendProperties
      <3>7. u[1] # u[n + 1 + 1]
        <4> HIDE DEF u
        <4>1. n + 1 \in Nat \ {0}
          OBVIOUS
        <4> QED BY <3>5, <4>1 DEF WellBuilt
      <3> QED BY <3>5, <3>6, <3>7
    <2>3. \E p \in def.processors : p.id = root
      BY <1>2, <1>3
    <2> QED BY <2>1, <2>2, <2>3, <1>3 DEF entryProcs
  <1>15. \A path \in nodes :
            /\ Grown(path) \subseteq nodes
            /\ \A longer \in Grown(path) : <<path, longer>> \in links
            /\ Len(path) > 1 => \E parent \in nodes :
                   path \in Grown(parent) /\ <<parent, path>> \in links
    <2> HIDE DEF Grown
    <2>1. ASSUME NEW path \in nodes, NEW u \in Grown(path)
          PROVE  u \in nodes /\ <<path, u>> \in links
      BY <1>10, <1>12
    <2>2. ASSUME NEW path \in nodes, Len(path) > 1
          PROVE  \E parent \in nodes : path \in Grown(parent)
      BY <2>2, <1>11, <1>12
    <2> QED BY <2>1, <2>2
  <1> QED BY <1>6, <1>13, <1>14, <1>15 DEF WholeTree, nodes, links, def

-----------------------------------------------------------------------------
\* Only a mounted view has drawings, and the last is of the pipe it shows.
DrawnInv ==
    /\ drawn \in Seq(Pipes)
    /\ drawn # <<>> => Mounted /\ drawn[Len(drawn)] = selectedPipeId

LEMMA DrawnKept ==
    ASSUME DrawnInv, Next, SocketTypes
    PROVE  DrawnInv'
  <1>1. ASSUME UNCHANGED choiceVars PROVE DrawnInv'
    BY <1>1 DEF choiceVars, DrawnInv, Mounted
  <1>2. ASSUME NEW p \in Pipes, selectPipe(p) PROVE DrawnInv'
    <2>1. /\ selectedPipeId' = p /\ nodeShown' = nodeShown /\ p # NoPipe
          /\ drawn' = IF Mounted /\ p # selectedPipeId THEN Append(drawn, p) ELSE drawn
      BY <1>2, ConstantsAssumption DEF selectPipe
    <2>2. CASE Mounted /\ p # selectedPipeId
      <3>1. drawn' = Append(drawn, p) /\ Mounted'
        BY <2>1, <2>2 DEF Mounted
      <3>2. drawn' \in Seq(Pipes) /\ drawn'[Len(drawn')] = p
        BY <3>1, AppendProperties DEF DrawnInv
      <3> QED BY <2>1, <3>1, <3>2 DEF DrawnInv
    <2>3. CASE ~(Mounted /\ p # selectedPipeId)
      BY <2>1, <2>3 DEF DrawnInv, Mounted
    <2> QED BY <2>2, <2>3
  <1>3. CASE Clear
    BY <1>3 DEF Clear, DrawnInv
  <1>4. CASE selectNode
    BY <1>4 DEF selectNode, DrawnInv, Mounted
  <1>5. CASE setPipes
    BY <1>5 DEF setPipes, DrawnInv, Mounted
  <1>6. CASE toggleRun
    BY <1>6, <1>1 DEF toggleRun
  <1>7. ASSUME NEW k \in Sockets, PageStep(k) \/ NodeStep(k) PROVE UNCHANGED choiceVars
    BY <1>7 DEF PageStep, Opened, Closed, NodeStep, connect_pipe, LearnClose, Leave,
                process_control_message, PageUnchanged, pageVars
  <1>8. ASSUME NEW p \in Pipes, StatusStep(p) \/ cleanup(p) PROVE UNCHANGED choiceVars
    BY <1>8 DEF StatusStep, BeginStatus, SendStatus, EndStatus, cleanup,
                PageUnchanged, pageVars
  <1> QED BY <1>1, <1>2, <1>3, <1>4, <1>5, <1>6, <1>7, <1>8 DEF Next, UserStep, SystemStep

\* The tree that the page shows (PipeView.vue, render) is the whole graph of the
\* pipe it shows, for every pipe that the builder can have made.
THEOREM TreesAreWhole == AllWellBuilt => (Spec => []TreeOfShown)
  <1> SUFFICES ASSUME AllWellBuilt PROVE Spec => []TreeOfShown
    OBVIOUS
  <1>1. Init => DrawnInv
    BY DEF Init, DrawnInv
  <1>2. IInv /\ DrawnInv /\ [Next]_vars => DrawnInv'
    <2> SUFFICES ASSUME IInv, DrawnInv, [Next]_vars PROVE DrawnInv'
      OBVIOUS
    <2>1. CASE Next
      BY <2>1, DrawnKept DEF IInv
    <2>2. CASE UNCHANGED vars
      BY <2>2 DEF vars, pageVars, choiceVars, DrawnInv, Mounted
    <2> QED BY <2>1, <2>2
  <1>3. IInv /\ DrawnInv => TreeOfShown
    <2> SUFFICES ASSUME IInv, DrawnInv, drawn # <<>> PROVE TreeOfShown
      BY DEF TreeOfShown
    <2>1. Mounted /\ drawn[Len(drawn)] = selectedPipeId
      BY DEF DrawnInv
    <2>2. selectedPipeId \in Pipes
      BY <2>1 DEF Mounted, IInv, SocketTypes
    <2>3. WholeTree(pipeDef(selectedPipeId))
      BY <2>2, TreeIsWhole DEF pipeDef, AllWellBuilt
    <2> QED BY <2>1, <2>3 DEF TreeOfShown, WholeTree
  <1> QED BY <1>1, <1>2, <1>3, Invariance, PTL DEF Spec
=============================================================================
