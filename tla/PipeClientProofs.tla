-------------------------- MODULE PipeClientProofs --------------------------
(***************************************************************************)
(* Four facts about a client: every variable stays within its type and its *)
(* bound, the loop stays awake while its pipe runs for the first time, and *)
(* wait_for_completion and terminate return only after COMPLETED, all for  *)
(* any number of callers and calls; and with one caller start returns only *)
(* when the node has run the pipe for it.                                  *)
(***************************************************************************)
EXTENDS PipeClient, FiniteSetTheorems, TLAPS

Places == {"idle", "loading", "connecting", "sent", "starting", "waiting"}

\* What a node may tell, as far as this proof minds.
Told == Statuses \cup {Nothing}

\* The types of what the proof follows.
Types ==
    /\ nodeStatus \in Told /\ status \in Told \cup {"INIT"}
    /\ toNode \in Seq({"START", "TERMINATE"}) /\ toClient \in Seq(Told)
    /\ pc \in [Callers -> Places]
    /\ sitters \in Nat /\ starts \in Nat /\ begun \in Nat

\* A loop that sleeps has no baby sitter and no caller but those that wait.
AsleepInv == asleep => sitters = 0 /\ \A c \in Callers : Waiting(c)

\* In the first execution one caller at most is in start.
Starting(c) == pc[c] \in {"loading", "connecting", "sent", "starting"}
CallersInv == /\ starts = 0 => \A c \in Callers : ~Starting(c)
              /\ \A c, d \in Callers : Starting(c) /\ Starting(d) => c = d

NoStart == \A k \in 1..Len(toNode) : toNode[k] # "START"

\* The one START is not sent yet, under way, or handled.
StartInv ==
    /\ starts = 0 \/ (\E c \in Callers : pc[c] \in {"loading", "connecting"}) =>
          NoStart /\ begun = 0
    /\ \A k, m \in 1..Len(toNode) : toNode[k] = "START" /\ toNode[m] = "START" => k = m
    /\ begun = 0 \/ (begun = 1 /\ NoStart)
    /\ begun = 0 => nodeStatus \in {Nothing, "READY"}

\* The statuses of one execution have an order.
Rank(s) == IF s = "COMPLETED" THEN 3 ELSE IF s = "RUNNING" THEN 2 ELSE 1

\* They are told in this order.
OrderInv ==
    /\ Rank(status) <= Rank(nodeStatus)
    /\ \A k \in 1..Len(toClient) : /\ Rank(status) <= Rank(toClient[k])
                                   /\ Rank(toClient[k]) <= Rank(nodeStatus)
    /\ \A k, m \in 1..Len(toClient) : k <= m => Rank(toClient[k]) <= Rank(toClient[m])

\* From the sending of START to COMPLETED there is a baby sitter.
SitterInv == begun # 0 \/ ~NoStart => sitters > 0 \/ status = "COMPLETED"

FirstInv == starts <= 1 => CallersInv /\ StartInv /\ OrderInv /\ SitterInv

IInv == Types /\ AsleepInv /\ FirstInv

-----------------------------------------------------------------------------
(* Sequences *)

\* The tail of a queue,
LEMMA TailFacts ==
    ASSUME NEW S, NEW q \in Seq(S), q # <<>>
    PROVE  /\ Len(q) \in Nat \ {0} /\ Head(q) = q[1] /\ Head(q) \in S
           /\ Tail(q) \in Seq(S) /\ Len(Tail(q)) = Len(q) - 1
           /\ \A k \in 1..Len(Tail(q)) : Tail(q)[k] = q[k + 1] /\ k + 1 \in 1..Len(q)
  OBVIOUS

\* and a queue to which an element is appended.
LEMMA AppendFacts ==
    ASSUME NEW S, NEW q \in Seq(S), NEW e \in S
    PROVE  /\ Append(q, e) \in Seq(S) /\ Len(q) \in Nat /\ Len(Append(q, e)) = Len(q) + 1
           /\ Append(q, e)[Len(q) + 1] = e
           /\ \A k \in 1..Len(q) : Append(q, e)[k] = q[k]
  OBVIOUS

-----------------------------------------------------------------------------
(* Types, and a loop that sleeps *)

\* Every step keeps the types.
LEMMA TypesKept == Types /\ [Next]_vars => Types'
  <1> SUFFICES ASSUME Types, [Next]_vars PROVE Types'
    OBVIOUS
  <1> USE DEF Types, Goes, Places, Told, Statuses
  <1>1. ASSUME NEW c \in Callers, StartCall(c) \/ LoadPipe(c) \/ LoadPipeFails(c) PROVE Types'
    BY <1>1 DEF StartCall, LoadPipe, LoadPipeFails, nodeVars
  <1>2. ASSUME NEW c \in Callers, SendStart(c) PROVE Types'
    <2>1. toNode' \in Seq({"START", "TERMINATE"})
      BY <1>2 DEF SendStart, Sends
    <2> QED BY <1>2, <2>1 DEF SendStart
  <1>3. ASSUME NEW c \in Callers, MakeFutures(c) \/ WaitCall(c) \/ Return(c) PROVE Types'
    BY <1>3 DEF MakeFutures, WaitCall, Return, nodeVars
  <1>4. ASSUME NEW c \in Callers, TerminateCall(c) PROVE Types'
    <2>1. toNode' \in Seq({"START", "TERMINATE"})
      BY <1>4 DEF TerminateCall, Sends
    <2> QED BY <1>4, <2>1 DEF TerminateCall
  <1>5. CASE Accept
    <2>1. toClient' \in Seq(Told)
      BY <1>5, AppendFacts DEF Accept
    <2> QED BY <1>5, <2>1 DEF Accept, callVars
  <1>6. CASE BabySitterEnds \/ LoopSleeps \/ LoopWakes
    BY <1>6 DEF BabySitterEnds, LoopSleeps, LoopWakes, nodeVars, callVars
  <1>7. CASE SetStatus
    <2>1. toClient' \in Seq(Told) /\ status' \in Told
      BY <1>7, TailFacts DEF SetStatus
    <2> QED BY <1>7, <2>1 DEF SetStatus, callVars
  <1>8. CASE SetResult
    BY <1>8 DEF SetResult, nodeVars, callVars
  <1>9. CASE HandleStart
    <2>1. toNode' \in Seq({"START", "TERMINATE"})
      <3>1. toNode # <<>> /\ (toNode' = Tail(toNode) \/ toNode' = <<>>)
        BY <1>9 DEF HandleStart
      <3>2. Tail(toNode) \in Seq({"START", "TERMINATE"})
        BY <3>1, TailFacts
      <3>3. <<>> \in Seq({"START", "TERMINATE"})
        OBVIOUS
      <3> QED BY <3>1, <3>2, <3>3
    <2>2. toClient' \in Seq(Told) /\ nodeStatus' \in Told /\ begun' \in Nat
      <3>1. \/ UNCHANGED <<nodeStatus, toClient, begun>>
            \/ /\ nodeStatus' = "RUNNING" /\ begun' = begun + 1
               /\ toClient' = Append(toClient, "RUNNING") \/ toClient' = toClient
        BY <1>9 DEF HandleStart, Report
      <3>2. Append(toClient, "RUNNING") \in Seq(Told)
        BY AppendFacts
      <3>3. toClient' \in Seq(Told)
        BY <3>1, <3>2
      <3> QED BY <3>1, <3>3
    <2> QED BY <1>9, <2>1, <2>2 DEF HandleStart, NodeUnchanged, callVars
  <1>10. CASE HandleTerminate
    BY <1>10, TailFacts DEF HandleTerminate, NodeUnchanged, callVars
  <1>11. CASE Complete
    <2>1. toClient' \in Seq(Told) /\ nodeStatus' \in Told
      BY <1>11 DEF Complete, Report
    <2> QED BY <1>11, <2>1 DEF Complete, NodeUnchanged, callVars
  <1>12. CASE UNCHANGED vars
    BY <1>12 DEF vars, nodeVars, callVars
  <1> QED BY <1>1, <1>2, <1>3, <1>4, <1>5, <1>6, <1>7, <1>8, <1>9, <1>10, <1>11, <1>12
          DEF Next, CallStep

\* The loop goes to sleep only when every caller waits and no baby sitter is left.
LEMMA AsleepKept == Types /\ AsleepInv /\ [Next]_vars => AsleepInv'
  <1> SUFFICES ASSUME Types, AsleepInv, [Next]_vars, asleep'
               PROVE  sitters' = 0 /\ \A c \in Callers : Waiting(c)'
    BY DEF AsleepInv
  <1>1. CASE LoopSleeps
    BY <1>1 DEF LoopSleeps, Waiting, callVars
  <1>2. CASE asleep /\ UNCHANGED <<sitters, pc>>
    BY <1>2 DEF AsleepInv, Waiting
  <1>3. ASSUME NEW c \in Callers, CallStep(c) PROVE FALSE
    <2>1. asleep /\ Waiting(c)
      BY <1>3 DEF AsleepInv, CallStep, StartCall, LoadPipe, LoadPipeFails, SendStart, MakeFutures,
                  WaitCall, TerminateCall, Return, LoopFree
    <2> QED BY <1>3, <2>1 DEF CallStep, StartCall, LoadPipe, LoadPipeFails, SendStart, MakeFutures,
                  WaitCall, TerminateCall, Return, LoopFree, Waiting
  <1>4. CASE LoopWakes
    BY <1>4 DEF LoopWakes
  <1>5. CASE BabySitterEnds
    BY <1>5 DEF BabySitterEnds, LoopFree
  <1>6. CASE Accept \/ SetStatus \/ SetResult \/ HandleStart \/ HandleTerminate \/ Complete
    BY <1>2, <1>6 DEF Accept, SetStatus, SetResult, HandleStart, HandleTerminate, Complete,
                      NodeUnchanged, callVars
  <1>7. CASE UNCHANGED vars
    BY <1>2, <1>7 DEF vars, callVars
  <1> QED BY <1>1, <1>3, <1>4, <1>5, <1>6, <1>7 DEF Next

-----------------------------------------------------------------------------
(* The first execution.  Each lemma has the steps that disturb its part; the  *)
(* others change nothing that it speaks of.                                   *)

\* The calls but StartCall and the sending, in what they do to a caller.
LEMMA CallersKept ==
    Types /\ (starts <= 1 => CallersInv) /\ [Next]_vars => (starts' <= 1 => CallersInv')
  <1> SUFFICES ASSUME Types, starts <= 1 => CallersInv, [Next]_vars, starts' <= 1
               PROVE  CallersInv'
    OBVIOUS
  <1> USE DEF CallersInv, Starting
  <1>1. ASSUME NEW c \in Callers, StartCall(c) PROVE CallersInv'
    <2>1. starts = 0 /\ starts' = 1
      BY <1>1 DEF StartCall, Types
    <2>2. \A d \in Callers \ {c} : ~Starting(d)'
      BY <1>1, <2>1 DEF StartCall, Goes, Types
    <2> QED BY <2>1, <2>2
  <1>2. ASSUME NEW c \in Callers,
               starts' = starts,
               \E to \in Places : Goes(c, to),
               Starting(c)' => Starting(c)
        PROVE  CallersInv'
    <2>1. \A d \in Callers : Starting(d)' => Starting(d)
      BY <1>2 DEF Goes, Types
    <2> QED BY <1>2, <2>1
  <1>3. ASSUME NEW c \in Callers,
               LoadPipe(c) \/ LoadPipeFails(c) \/ SendStart(c) \/ MakeFutures(c)
               \/ WaitCall(c) \/ TerminateCall(c) \/ Return(c)
        PROVE  CallersInv'
    <2>1. starts' = starts
      BY <1>3 DEF LoadPipe, LoadPipeFails, SendStart, MakeFutures, WaitCall, TerminateCall, Return
    <2>2. \E to \in Places : Goes(c, to)
      BY <1>3 DEF LoadPipe, LoadPipeFails, SendStart, MakeFutures, WaitCall, TerminateCall, Return,
                  Places
    <2>3. Starting(c)' => Starting(c)
      BY <1>3 DEF LoadPipe, LoadPipeFails, SendStart, MakeFutures, WaitCall, TerminateCall, Return,
                  Goes, Types
    <2> QED BY <1>2, <2>1, <2>2, <2>3
  <1>4. CASE UNCHANGED <<pc, starts>>
    BY <1>4
  <1> HIDE DEF CallersInv, Starting
  <1>5. CASE Accept \/ BabySitterEnds \/ LoopSleeps \/ LoopWakes \/ SetStatus \/ SetResult
             \/ HandleStart \/ HandleTerminate \/ Complete \/ UNCHANGED vars
    BY <1>4, <1>5 DEF Accept, BabySitterEnds, LoopSleeps, LoopWakes, SetStatus, SetResult,
           HandleStart, HandleTerminate, Complete, NodeUnchanged, callVars, vars
  <1> QED BY <1>1, <1>3, <1>5 DEF Next, CallStep

\* No caller is on its way to the sending of START.
Sent == starts # 0 /\ \A c \in Callers : pc[c] \notin {"loading", "connecting"}

\* Of the first execution there is one START, which is handled once.
LEMMA StartKept ==
    ASSUME Types, starts <= 1 => CallersInv /\ StartInv, [Next]_vars, starts' <= 1
    PROVE  StartInv'
  <1>1. CASE starts = 0 /\ starts' = 1
    <2>1. PICK c \in Callers : StartCall(c)
      BY <1>1 DEF Next, CallStep, LoadPipe, LoadPipeFails, SendStart, MakeFutures, WaitCall,
           TerminateCall, Return, Accept, BabySitterEnds, LoopSleeps, LoopWakes, SetStatus, SetResult,
           HandleStart, HandleTerminate, Complete, NodeUnchanged, callVars, vars
    <2>2. UNCHANGED nodeVars
      BY <2>1 DEF StartCall
    <2> QED BY <1>1, <2>2 DEF StartInv, NoStart, nodeVars
  <1>2. CASE starts' = starts
    <2> USE <1>2
    <2>1. CallersInv /\ StartInv
      OBVIOUS
    <2>2. ASSUME UNCHANGED <<toNode, begun>>, Sent => Sent',
                 nodeStatus' \in {nodeStatus, "READY"} \/ begun # 0
          PROVE  StartInv'
      BY <2>1, <2>2 DEF StartInv, NoStart, Sent
    <2>3. ASSUME NEW c \in Callers, SendStart(c) PROVE StartInv'
      <3>1. /\ pc[c] = "connecting" /\ pc' \in [Callers -> Places]
            /\ \A d \in Callers \ {c} : pc'[d] = pc[d]
            /\ pc'[c] \notin {"loading", "connecting"}
            /\ UNCHANGED <<begun, nodeStatus>>
            /\ toNode' = Append(toNode, "START") \/ toNode' = toNode
        BY <2>3 DEF SendStart, Sends, Goes, Types, Places
      <3>2. NoStart /\ begun = 0 /\ starts # 0
        BY <2>1, <3>1 DEF StartInv, CallersInv, Starting
      <3>3. Sent'
        BY <2>1, <3>1, <3>2 DEF Sent, CallersInv, Starting
      <3>4. \A k, m \in 1..Len(toNode') : toNode'[k] = "START" /\ toNode'[m] = "START" => k = m
        <4>1. CASE toNode' = toNode
          BY <3>2, <4>1 DEF NoStart
        <4>2. CASE toNode' = Append(toNode, "START")
          <5>1. /\ Len(toNode) \in Nat /\ Len(toNode') = Len(toNode) + 1
                /\ \A k \in 1..Len(toNode) : toNode'[k] = toNode[k]
            BY <4>2, AppendFacts DEF Types
          <5>2. \A k \in 1..Len(toNode') : toNode'[k] = "START" => k = Len(toNode) + 1
            BY <3>2, <5>1 DEF NoStart
          <5> QED BY <5>2
        <4> QED BY <3>1, <4>1, <4>2
      <3> QED BY <2>1, <3>1, <3>2, <3>3, <3>4 DEF StartInv, Sent
    <2>4. ASSUME NEW c \in Callers, TerminateCall(c) PROVE StartInv'
      <3>1. /\ UNCHANGED <<begun, nodeStatus>>
            /\ toNode' = Append(toNode, "TERMINATE") \/ toNode' = toNode
            /\ pc' = [pc EXCEPT ![c] = "waiting"]
        BY <2>4 DEF TerminateCall, Sends, Goes
      <3>2. Sent => Sent'
        BY <3>1 DEF Sent, Types
      <3>3. CASE toNode' = toNode
        BY <2>2, <3>1, <3>2, <3>3
      <3>4. CASE toNode' = Append(toNode, "TERMINATE")
        <4>1. /\ Len(toNode) \in Nat /\ Len(toNode') = Len(toNode) + 1
              /\ \A k \in 1..Len(toNode) : toNode'[k] = toNode[k]
              /\ toNode'[Len(toNode) + 1] = "TERMINATE"
          BY <3>4, AppendFacts DEF Types
        <4>2. \A k \in 1..Len(toNode') : toNode'[k] = "START" => k \in 1..Len(toNode)
          BY <4>1
        <4>3. NoStart => NoStart'
          BY <4>1, <4>2 DEF NoStart
        <4> QED BY <2>1, <3>1, <3>2, <4>1, <4>2, <4>3 DEF StartInv, Sent
      <3> QED BY <3>1, <3>3, <3>4
    <2>5. ASSUME NEW c \in Callers,
                 LoadPipe(c) \/ LoadPipeFails(c) \/ MakeFutures(c) \/ WaitCall(c) \/ Return(c)
          PROVE  StartInv'
      <3>1. /\ UNCHANGED <<toNode, begun>> /\ nodeStatus' \in {nodeStatus, "READY"}
        BY <2>5 DEF LoadPipe, LoadPipeFails, MakeFutures, WaitCall, Return, nodeVars
      <3>2. Sent => Sent'
        BY <2>5 DEF LoadPipe, LoadPipeFails, MakeFutures, WaitCall, Return, Sent, Goes, Types
      <3> QED BY <2>2, <3>1, <3>2
    <2>6. CASE Accept \/ BabySitterEnds \/ LoopSleeps \/ LoopWakes \/ SetStatus \/ SetResult
               \/ UNCHANGED vars
      BY <2>2, <2>6 DEF Accept, BabySitterEnds, LoopSleeps, LoopWakes, SetStatus, SetResult,
                        Sent, nodeVars, callVars, vars
    <2>7. ASSUME toNode # <<>>, pc' = pc, toNode' = Tail(toNode),
                 \/ begun' = begun /\ nodeStatus' = nodeStatus
                 \/ begun' = begun + 1 /\ toNode[1] = "START"
          PROVE  StartInv'
      <3>1. /\ Len(toNode) \in Nat \ {0} /\ Len(toNode') = Len(toNode) - 1
            /\ \A k \in 1..Len(toNode') : toNode'[k] = toNode[k + 1] /\ k + 1 \in 1..Len(toNode)
        BY <2>7, TailFacts DEF Types
      <3>2. NoStart => NoStart'
        BY <3>1 DEF NoStart
      <3>3. \A k, m \in 1..Len(toNode') : toNode'[k] = "START" /\ toNode'[m] = "START" => k = m
        <4> TAKE k, m \in 1..Len(toNode')
        <4>1. toNode[k + 1] = "START" /\ toNode[m + 1] = "START" => k + 1 = m + 1
          BY <2>1, <3>1 DEF StartInv
        <4> QED BY <3>1, <4>1
      <3>4. CASE begun' = begun /\ nodeStatus' = nodeStatus
        BY <2>1, <2>7, <3>2, <3>3, <3>4 DEF StartInv
      <3>5. CASE begun' = begun + 1 /\ toNode[1] = "START"
        <4>1. ~NoStart
          BY <3>1, <3>5 DEF NoStart
        <4>2. begun = 0 /\ Sent
          BY <2>1, <4>1 DEF StartInv, Sent
        <4>3. NoStart'
          <5> SUFFICES ASSUME NEW k \in 1..Len(toNode'), toNode'[k] = "START" PROVE FALSE
            BY DEF NoStart
          <5>1. toNode[k + 1] = "START" /\ k + 1 \in 1..Len(toNode) /\ 1 \in 1..Len(toNode)
            BY <3>1
          <5>2. k + 1 = 1
            BY <2>1, <3>5, <5>1 DEF StartInv
          <5> QED BY <5>2
        <4>4. Sent'
          BY <2>7, <4>2 DEF Sent
        <4> QED BY <3>3, <3>5, <4>2, <4>3, <4>4 DEF StartInv, Sent
      <3> QED BY <2>7, <3>4, <3>5
    <2>8. CASE HandleTerminate
      BY <2>7, <2>8 DEF HandleTerminate, NodeUnchanged, callVars
    <2>9. CASE HandleStart
      <3>1. toNode # <<>> /\ toNode[1] = "START" /\ pc' = pc
        BY <2>9, TailFacts DEF HandleStart, NodeUnchanged, callVars, Types
      <3>2. CASE toNode' = Tail(toNode) /\ begun' = begun + 1
        BY <2>7, <3>1, <3>2
      <3>3. CASE toNode' = <<>> /\ UNCHANGED <<nodeStatus, begun>>
        <4>1. NoStart' /\ \A k \in 1..Len(toNode') : FALSE
          BY <3>3 DEF NoStart
        <4> QED BY <2>1, <3>1, <3>3, <4>1 DEF StartInv
      <3> QED BY <2>9, <3>2, <3>3 DEF HandleStart
    <2>10. CASE Complete
      <3>1. begun # 0
        BY <2>1, <2>10 DEF Complete, StartInv, Nothing
      <3> QED BY <2>2, <2>10, <3>1 DEF Complete, NodeUnchanged, callVars, Sent
    <2>11. ASSUME NEW c \in Callers, StartCall(c) PROVE StartInv'
      BY <2>11 DEF StartCall, Types
    <2> QED BY <2>3, <2>4, <2>5, <2>6, <2>8, <2>9, <2>10, <2>11 DEF Next, CallStep
  <1>3. starts' = starts \/ (starts' = starts + 1)
    BY DEF Next, CallStep, StartCall, LoadPipe, LoadPipeFails, SendStart, MakeFutures, WaitCall,
           TerminateCall, Return, Accept, BabySitterEnds, LoopSleeps, LoopWakes, SetStatus, SetResult,
           HandleStart, HandleTerminate, Complete, NodeUnchanged, callVars, vars
  <1> QED BY <1>1, <1>2, <1>3 DEF Types

\* Calls of start are counted one by one.
LEMMA StartsGrow == Types /\ [Next]_vars => starts' = starts \/ starts' = starts + 1
  BY DEF Next, CallStep, StartCall, LoadPipe, LoadPipeFails, SendStart, MakeFutures, WaitCall,
         TerminateCall, Return, Accept, BabySitterEnds, LoopSleeps, LoopWakes, SetStatus, SetResult,
         HandleStart, HandleTerminate, Complete, NodeUnchanged, callVars, vars

\* The statuses of the first execution are told in their order.
LEMMA OrderKept ==
    ASSUME Types, StartInv, OrderInv, [Next]_vars
    PROVE  OrderInv'
  <1>1. ASSUME UNCHANGED <<status, toClient>>, Rank(nodeStatus) <= Rank(nodeStatus')
        PROVE  OrderInv'
    BY <1>1 DEF OrderInv, Rank
  <1>2. ASSUME NEW s \in Told, status' = status, toClient' = Append(toClient, s),
               nodeStatus' = s, Rank(nodeStatus) <= Rank(s)
        PROVE  OrderInv'
    <2>1. /\ Len(toClient) \in Nat /\ Len(toClient') = Len(toClient) + 1
          /\ toClient'[Len(toClient) + 1] = s
          /\ \A k \in 1..Len(toClient) : toClient'[k] = toClient[k]
      BY <1>2, AppendFacts DEF Types
    <2>2. Rank(status') <= Rank(nodeStatus')
      BY <1>2 DEF OrderInv, Rank
    <2>3. \A k \in 1..Len(toClient') : k \in 1..Len(toClient) \/ k = Len(toClient) + 1
      BY <2>1
    <2>4. \A k \in 1..Len(toClient') : /\ Rank(status') <= Rank(toClient'[k])
                                       /\ Rank(toClient'[k]) <= Rank(nodeStatus')
      <3> TAKE k \in 1..Len(toClient')
      <3>1. CASE k \in 1..Len(toClient)
        BY <1>2, <2>1, <3>1 DEF OrderInv, Rank
      <3>2. CASE k = Len(toClient) + 1
        BY <1>2, <2>1, <2>2, <3>2 DEF Rank
      <3> QED BY <2>3, <3>1, <3>2
    <2>5. \A k, m \in 1..Len(toClient') : k <= m => Rank(toClient'[k]) <= Rank(toClient'[m])
      <3> SUFFICES ASSUME NEW k \in 1..Len(toClient'), NEW m \in 1..Len(toClient'), k <= m
                   PROVE  Rank(toClient'[k]) <= Rank(toClient'[m])
        OBVIOUS
      <3>1. CASE m = Len(toClient) + 1
        BY <1>2, <2>1, <2>4, <3>1
      <3>2. CASE m \in 1..Len(toClient)
        <4>1. k \in 1..Len(toClient)
          BY <2>1, <3>2
        <4> QED BY <2>1, <3>2, <4>1 DEF OrderInv
      <3> QED BY <2>3, <3>1, <3>2
    <2> QED BY <2>2, <2>4, <2>5 DEF OrderInv
  <1>3. CASE SetStatus
    <2>1. /\ toClient # <<>> /\ toClient' = Tail(toClient) /\ status' = Head(toClient)
          /\ nodeStatus' = nodeStatus
      BY <1>3 DEF SetStatus
    <2>2. /\ Len(toClient) \in Nat \ {0} /\ Head(toClient) = toClient[1]
          /\ \A k \in 1..Len(toClient') : /\ toClient'[k] = toClient[k + 1]
                                           /\ k + 1 \in 1..Len(toClient)
      BY <2>1, TailFacts DEF Types
    <2>3. 1 \in 1..Len(toClient)
      BY <2>2
    <2>4. \A k \in 1..Len(toClient') : /\ Rank(status') <= Rank(toClient'[k])
                                       /\ Rank(toClient'[k]) <= Rank(nodeStatus')
      <3> TAKE k \in 1..Len(toClient')
      <3>1. 1 <= k + 1 /\ k + 1 \in 1..Len(toClient)
        BY <2>2
      <3> QED BY <2>1, <2>2, <2>3, <3>1 DEF OrderInv
    <2>5. \A k, m \in 1..Len(toClient') : k <= m => Rank(toClient'[k]) <= Rank(toClient'[m])
      <3> TAKE k, m \in 1..Len(toClient')
      <3>1. k <= m => k + 1 <= m + 1
        OBVIOUS
      <3> QED BY <2>2, <3>1 DEF OrderInv
    <2> QED BY <2>1, <2>2, <2>3, <2>4, <2>5 DEF OrderInv
  <1>4. ASSUME NEW c \in Callers, CallStep(c) PROVE OrderInv'
    <2>1. /\ UNCHANGED <<status, toClient>>
          /\ nodeStatus' = nodeStatus \/ (nodeStatus = Nothing /\ nodeStatus' = "READY")
      BY <1>4 DEF CallStep, StartCall, LoadPipe, LoadPipeFails, SendStart, MakeFutures, WaitCall,
                  TerminateCall, Return, nodeVars
    <2> QED BY <1>1, <2>1 DEF Rank, Nothing
  <1>5. CASE Accept
    BY <1>2, <1>5 DEF Accept, Types, Rank
  <1>6. CASE HandleStart
    <2>1. toNode # <<>> /\ Head(toNode) = "START" /\ status' = status
      BY <1>6 DEF HandleStart, NodeUnchanged
    <2>2. ~NoStart
      <3>1. 1 \in 1..Len(toNode) /\ toNode[1] = "START"
        BY <2>1, TailFacts DEF Types
      <3> QED BY <3>1 DEF NoStart
    <2>3. nodeStatus \in {Nothing, "READY"}
      BY <2>2 DEF StartInv
    <2>4. Rank(nodeStatus) <= Rank("RUNNING") /\ Rank(nodeStatus) <= Rank(nodeStatus)
      BY <2>3 DEF Rank, Nothing
    <2>5. \/ UNCHANGED <<nodeStatus, toClient>>
          \/ /\ nodeStatus' = "RUNNING"
             /\ toClient' = Append(toClient, "RUNNING") \/ toClient' = toClient
      BY <1>6 DEF HandleStart, Report
    <2>6. "RUNNING" \in Told
      BY DEF Told, Statuses
    <2> QED BY <1>1, <1>2, <2>1, <2>4, <2>5, <2>6
  <1>7. CASE Complete
    <2>1. /\ nodeStatus' = "COMPLETED" /\ status' = status
          /\ toClient' = Append(toClient, "COMPLETED") \/ toClient' = toClient
      BY <1>7 DEF Complete, Report, NodeUnchanged
    <2>2. Rank(nodeStatus) <= Rank("COMPLETED") /\ "COMPLETED" \in Told
      BY DEF Rank, Told, Statuses
    <2> QED BY <1>1, <1>2, <2>1, <2>2
  <1>8. CASE BabySitterEnds \/ LoopSleeps \/ LoopWakes \/ SetResult \/ HandleTerminate
             \/ UNCHANGED vars
    <2>1. UNCHANGED <<status, toClient, nodeStatus>>
      BY <1>8 DEF BabySitterEnds, LoopSleeps, LoopWakes, SetResult, HandleTerminate, NodeUnchanged,
                  nodeVars, vars
    <2> QED BY <1>1, <2>1 DEF Rank
  <1> QED BY <1>3, <1>4, <1>5, <1>6, <1>7, <1>8 DEF Next

\* The first baby sitter stays until the status is COMPLETED.
LEMMA SitterKept ==
    ASSUME Types, StartInv, OrderInv, SitterInv, [Next]_vars
    PROVE  SitterInv'
  <1>1. ASSUME NoStart => NoStart', begun' = begun \/ ~NoStart,
               sitters' = sitters \/ status' = "COMPLETED",
               status = "COMPLETED" => status' = "COMPLETED"
        PROVE  SitterInv'
    BY <1>1 DEF SitterInv
  <1>2. ASSUME NEW c \in Callers, SendStart(c) PROVE SitterInv'
    BY <1>2 DEF SendStart, SitterInv, Types
  <1>3. ASSUME NEW c \in Callers, TerminateCall(c) PROVE SitterInv'
    <2>1. /\ UNCHANGED <<begun, sitters, status>>
          /\ toNode' = Append(toNode, "TERMINATE") \/ toNode' = toNode
      BY <1>3 DEF TerminateCall, Sends
    <2>2. NoStart => NoStart'
      <3>1. CASE toNode' = toNode
        BY <3>1 DEF NoStart
      <3>2. CASE toNode' = Append(toNode, "TERMINATE")
        <4>1. /\ Len(toNode) \in Nat /\ Len(toNode') = Len(toNode) + 1
              /\ \A k \in 1..Len(toNode) : toNode'[k] = toNode[k]
              /\ toNode'[Len(toNode) + 1] = "TERMINATE"
          BY <3>2, AppendFacts DEF Types
        <4>2. \A k \in 1..Len(toNode') : toNode'[k] = "START" => k \in 1..Len(toNode)
          BY <4>1
        <4> QED BY <4>1, <4>2 DEF NoStart
      <3> QED BY <2>1, <3>1, <3>2
    <2> QED BY <1>1, <2>1, <2>2
  <1>4. CASE HandleStart \/ HandleTerminate
    <2>1. /\ toNode # <<>>
          /\ toNode' = Tail(toNode) \/ toNode' = <<>>
          /\ UNCHANGED <<sitters, status>>
          /\ begun' = begun \/ Head(toNode) = "START"
      BY <1>4 DEF HandleStart, HandleTerminate, NodeUnchanged
    <2>2. /\ Len(toNode) \in Nat \ {0} /\ Head(toNode) = toNode[1]
          /\ \A k \in 1..Len(Tail(toNode)) : /\ Tail(toNode)[k] = toNode[k + 1]
                                              /\ k + 1 \in 1..Len(toNode)
      BY <2>1, TailFacts DEF Types
    <2>3. NoStart => NoStart'
      BY <2>1, <2>2 DEF NoStart
    <2>4. begun' = begun \/ ~NoStart
      <3>1. 1 \in 1..Len(toNode)
        BY <2>2
      <3> QED BY <2>1, <2>2, <3>1 DEF NoStart
    <2> QED BY <1>1, <2>1, <2>3, <2>4
  <1>5. CASE SetStatus
    <2>1. toClient # <<>> /\ status' = Head(toClient) /\ UNCHANGED <<begun, sitters, toNode>>
      BY <1>5 DEF SetStatus
    <2>2. 1 \in 1..Len(toClient) /\ status' = toClient[1]
      BY <2>1, TailFacts DEF Types
    <2>3. status = "COMPLETED" => status' = "COMPLETED"
      BY <2>2 DEF OrderInv, Rank
    <2>4. NoStart => NoStart'
      BY <2>1 DEF NoStart
    <2> QED BY <1>1, <2>1, <2>3, <2>4
  <1>6. CASE BabySitterEnds
    <2>1. UNCHANGED <<toNode, begun, status>> /\ status = "COMPLETED"
      BY <1>6 DEF BabySitterEnds, completed, nodeVars
    <2> QED BY <1>1, <2>1 DEF NoStart
  <1>7. ASSUME UNCHANGED <<toNode, begun, sitters, status>> PROVE SitterInv'
    BY <1>1, <1>7 DEF NoStart
  <1>8. ASSUME NEW c \in Callers, StartCall(c) \/ LoadPipe(c) \/ LoadPipeFails(c)
               \/ MakeFutures(c) \/ WaitCall(c) \/ Return(c)
        PROVE  SitterInv'
    BY <1>7, <1>8 DEF StartCall, LoadPipe, LoadPipeFails, MakeFutures, WaitCall, Return, nodeVars
  <1>9. CASE Accept \/ LoopSleeps \/ LoopWakes \/ SetResult \/ Complete \/ UNCHANGED vars
    BY <1>7, <1>9 DEF Accept, LoopSleeps, LoopWakes, SetResult, Complete, NodeUnchanged,
                      nodeVars, vars
  <1> QED BY <1>2, <1>3, <1>4, <1>5, <1>6, <1>8, <1>9 DEF Next, CallStep

-----------------------------------------------------------------------------
(* The invariant, and what follows from it *)

\* The initial states.
LEMMA Initially == Init => IInv
  <1> SUFFICES ASSUME Init PROVE IInv
    OBVIOUS
  <1>1. Types
    BY DEF Init, Types, Told, Places, Statuses
  <1>2. AsleepInv /\ CallersInv /\ StartInv /\ SitterInv
    BY DEF Init, AsleepInv, CallersInv, Starting, StartInv, SitterInv, NoStart
  <1>3. OrderInv
    BY DEF Init, OrderInv, Rank, Nothing
  <1> QED BY <1>1, <1>2, <1>3 DEF IInv, FirstInv

\* Every step keeps the invariant.
LEMMA Invariance == IInv /\ [Next]_vars => IInv'
  <1> SUFFICES ASSUME IInv, [Next]_vars PROVE IInv'
    OBVIOUS
  <1>1. Types' /\ AsleepInv'
    BY TypesKept, AsleepKept DEF IInv
  <1>2. ASSUME starts' <= 1 PROVE CallersInv' /\ StartInv' /\ OrderInv' /\ SitterInv'
    <2>1. Types /\ CallersInv /\ StartInv /\ OrderInv /\ SitterInv
      <3>1. starts <= 1
        BY <1>2, StartsGrow DEF IInv, Types
      <3> QED BY <3>1 DEF IInv, FirstInv
    <2>2. CallersInv'
      BY <1>2, <2>1, CallersKept
    <2>3. StartInv'
      BY <1>2, <2>1, StartKept
    <2> QED BY <2>1, <2>2, <2>3, OrderKept, SitterKept
  <1> QED BY <1>1, <1>2 DEF IInv, FirstInv

\* A client whose pipe runs has a baby sitter, so its loop is awake.
LEMMA InvAwake == IInv => AwakeWhileRunning
  <1> SUFFICES ASSUME IInv, asleep, status = "RUNNING", starts = 1 PROVE FALSE
    BY DEF AwakeWhileRunning, FirstExecution
  <1>1. StartInv /\ OrderInv /\ SitterInv /\ AsleepInv
    BY DEF IInv, FirstInv
  <1>2. nodeStatus \notin {Nothing, "READY"}
    BY <1>1 DEF OrderInv, Rank, Nothing
  <1>3. begun # 0
    BY <1>1, <1>2 DEF StartInv
  <1>4. sitters > 0
    BY <1>1, <1>3 DEF SitterInv
  <1> QED BY <1>1, <1>4 DEF AsleepInv

\* While its pipe runs for the first time the loop of a client does not sleep
\* in its select: the task _baby_sitter that load has created for it is there
\* and yields until the status is COMPLETED, whatever the node answers and
\* whatever else the callers call (pipe.py, load, start and _baby_sitter).
THEOREM Awake == Spec => []AwakeWhileRunning
  <1>1. Spec => []IInv
    BY Initially, Invariance, PTL DEF Spec
  <1> QED BY <1>1, InvAwake, PTL

-----------------------------------------------------------------------------
(* Futures, and what completes them *)

Made(f) == f <= startFuture \/ f <= completionFuture

\* Every future that is waited for or has its result was made, and the two of the
\* pipe are two.
FutureTypes ==
    /\ startFuture \in Nat /\ completionFuture \in Nat /\ startFuture # completionFuture
    /\ done \subseteq Nat /\ waitsOn \in [Callers -> Nat]
    /\ incoming \in {Nothing, "RUNNING", "COMPLETED"}
    /\ \A f \in done : Made(f)
    /\ \A c \in Callers : Made(waitsOn[c])

\* Only COMPLETED gives a future that wait_for_completion waits for its result.
WaitInv == starts <= 1 =>
    /\ incoming \in {Nothing, status}
    /\ completionFuture \in done => nodeStatus = "COMPLETED"
    /\ \A c \in Callers : pc[c] = "waiting" =>
          waitsOn[c] # startFuture /\ (waitsOn[c] \in done => nodeStatus = "COMPLETED")

Absent(q, e) == \A k \in 1..Len(q) : q[k] # e
Single(q, e) == \A k, m \in 1..Len(q) : q[k] = e /\ q[m] = e => k = m

\* No RUNNING is on its way to the future of start.
NoRunning == incoming # "RUNNING" /\ Absent(toClient, "RUNNING")

\* Of each execution there is one message under way, the START or its answer.
SingleInv ==
    /\ Single(toNode, "START") /\ Single(toClient, "RUNNING")
    /\ incoming = "RUNNING" => Absent(toClient, "RUNNING")
    /\ NoStart \/ NoRunning

\* What the node knows before the pipe is loaded, connected and started.
NodeInv ==
    /\ loaded \in BOOLEAN /\ connected \in BOOLEAN /\ serving \in BOOLEAN
    /\ (serving => connected) /\ (connected => loaded) /\ (loaded => nodeStatus # Nothing)
    /\ ~serving => toNode = <<>>
    /\ ~connected => begun = 0 /\ NoRunning
    /\ begun = 0 => nodeStatus \in {Nothing, "READY"}

\* The calls of start so far, and those that have made the node run the pipe.
Counts(c) ==
    /\ nodeStatus = Nothing => starts = IF pc[c] = "loading" THEN 1 ELSE 0
    /\ ~loaded => pc[c] \in {"idle", "loading", "waiting"}
    /\ loaded => pc[c] # "loading"
    /\ pc[c] \in {"idle", "waiting"} /\ loaded => begun = starts
    /\ pc[c] = "connecting" => starts = begun + 1
    /\ pc[c] \notin {"sent", "starting"} => NoStart /\ NoRunning
    /\ ~NoStart => starts = begun + 1
    /\ ~NoRunning => starts = begun
    /\ connected /\ ~serving => pc[c] \in {"sent", "starting"} /\ NoRunning
    /\ pc[c] = "starting" =>
          /\ waitsOn[c] = startFuture
          /\ startFuture \in done => serving /\ NoStart /\ NoRunning /\ starts = begun

OneInv == SingleInv /\ NodeInv /\ \A c \in Callers : Counts(c)

\* A future that is made is a new one, and none gets a result before it is made.
LEMMA FutureTypesKept == Types /\ FutureTypes /\ [Next]_vars => FutureTypes'
  <1> SUFFICES ASSUME Types, FutureTypes, [Next]_vars PROVE FutureTypes'
    OBVIOUS
  <1>1. ASSUME UNCHANGED <<futureVars, waitsOn, incoming>> PROVE FutureTypes'
    BY <1>1 DEF FutureTypes, futureVars, Made
  <1>2. ASSUME NEW c \in Callers, StartCall(c) \/ LoadPipe(c) \/ LoadPipeFails(c) \/ SendStart(c)
                                  \/ Return(c)
        PROVE  FutureTypes'
    BY <1>1, <1>2 DEF StartCall, LoadPipe, LoadPipeFails, SendStart, Return
  <1>3. NewFuture \in Nat /\ NewFuture > startFuture /\ NewFuture > completionFuture
    BY DEF NewFuture, FutureTypes
  <1>4. ASSUME startFuture' \in {startFuture, NewFuture},
               completionFuture' \in {completionFuture, NewFuture, NewFuture + 1},
               startFuture' = startFuture \/ completionFuture' = NewFuture + 1,
               startFuture' # startFuture \/ completionFuture' # completionFuture,
               completionFuture' = completionFuture => startFuture' = startFuture
        PROVE  /\ startFuture' \in Nat /\ completionFuture' \in Nat /\ startFuture' # completionFuture'
               /\ \A f \in Nat : Made(f) => Made(f)'
    BY <1>3, <1>4 DEF FutureTypes, Made
  <1>5. ASSUME NEW c \in Callers, MakeFutures(c) PROVE FutureTypes'
    <2>1. /\ startFuture' = NewFuture /\ completionFuture' = NewFuture + 1
          /\ waitsOn' = [waitsOn EXCEPT ![c] = startFuture'] /\ UNCHANGED <<done, incoming>>
      BY <1>5 DEF MakeFutures, NewFutures, WaitsFor
    <2>2. /\ startFuture' \in Nat /\ completionFuture' \in Nat /\ startFuture' # completionFuture'
          /\ \A f \in Nat : Made(f) => Made(f)'
      BY <1>3, <1>4, <2>1
    <2>3. Made(startFuture)'
      BY <2>2 DEF Made
    <2> QED BY <2>1, <2>2, <2>3 DEF FutureTypes
  <1>6. ASSUME NEW c \in Callers, WaitCall(c) PROVE FutureTypes'
    <2>1. waitsOn' = [waitsOn EXCEPT ![c] = completionFuture] /\ UNCHANGED <<futureVars, incoming>>
      BY <1>6 DEF WaitCall, WaitsFor
    <2> QED BY <2>1 DEF FutureTypes, Made, futureVars
  <1>7. ASSUME NEW c \in Callers, TerminateCall(c) PROVE FutureTypes'
    <2>1. /\ completionFuture' = NewFuture /\ waitsOn' = [waitsOn EXCEPT ![c] = NewFuture]
          /\ UNCHANGED <<startFuture, done, incoming>>
      BY <1>7 DEF TerminateCall, WaitsFor
    <2>2. /\ startFuture' \in Nat /\ completionFuture' \in Nat /\ startFuture' # completionFuture'
          /\ \A f \in Nat : Made(f) => Made(f)'
      BY <1>3, <1>4, <2>1
    <2> DEFINE new == NewFuture
    <2>3. new \in Nat /\ completionFuture' = new /\ waitsOn' = [waitsOn EXCEPT ![c] = new]
      BY <1>3, <2>1
    <2> HIDE DEF new
    <2>4. Made(completionFuture)'
      BY <2>2 DEF Made
    <2> QED BY <2>1, <2>2, <2>3, <2>4 DEF FutureTypes
  <1>8. CASE SetStatus
    <2>1. UNCHANGED <<futureVars, waitsOn>> /\ incoming' \in {Nothing, "RUNNING", "COMPLETED"}
      BY <1>8 DEF SetStatus, callVars
    <2> QED BY <2>1 DEF FutureTypes, futureVars, Made
  <1>9. CASE SetResult
    <2>1. /\ done' \subseteq done \cup {startFuture, completionFuture} /\ incoming' = Nothing
          /\ UNCHANGED <<startFuture, completionFuture, waitsOn>>
      BY <1>9 DEF SetResult, CompletedBy, callVars
    <2>2. \A f \in done' : f \in Nat /\ Made(f)
      BY <2>1 DEF FutureTypes, Made
    <2> QED BY <2>1, <2>2 DEF FutureTypes, Made
  <1>10. CASE Accept \/ BabySitterEnds \/ LoopSleeps \/ LoopWakes \/ HandleStart \/ HandleTerminate
              \/ Complete \/ UNCHANGED vars
    BY <1>1, <1>10 DEF Accept, BabySitterEnds, LoopSleeps, LoopWakes, HandleStart, HandleTerminate,
                      Complete, NodeUnchanged, callVars, vars
  <1> QED BY <1>2, <1>5, <1>6, <1>7, <1>8, <1>9, <1>10 DEF Next, CallStep

\* The status of the first execution, once COMPLETED, stays it.
LEMMA CompletedStays ==
    ASSUME Types, StartInv, nodeStatus = "COMPLETED", [Next]_vars
    PROVE  nodeStatus' = "COMPLETED"
  <1>1. CASE HandleStart
    <2>1. toNode # <<>> /\ Head(toNode) = "START"
      BY <1>1 DEF HandleStart
    <2>2. 1 \in 1..Len(toNode) /\ toNode[1] = "START"
      BY <2>1, TailFacts DEF Types
    <2>3. ~NoStart
      BY <2>2 DEF NoStart
    <2> QED BY <2>3 DEF StartInv, Nothing
  <1>2. CASE ~HandleStart
    BY <1>2 DEF Next, CallStep, StartCall, LoadPipe, LoadPipeFails, SendStart, MakeFutures, WaitCall,
           TerminateCall, Return, Accept, BabySitterEnds, LoopSleeps, LoopWakes, SetStatus, SetResult,
           HandleTerminate, Complete, Report, NodeUnchanged, nodeVars, vars, Nothing
  <1> QED BY <1>1, <1>2

\* In the first execution only COMPLETED completes what callers wait for.
LEMMA WaitKept ==
    ASSUME IInv, FutureTypes, WaitInv, [Next]_vars
    PROVE  WaitInv'
  <1>0. Types /\ FutureTypes'
    BY FutureTypesKept DEF IInv
  <1> SUFFICES ASSUME starts' <= 1
               PROVE  /\ incoming' \in {Nothing, status'}
                      /\ completionFuture' \in done' => nodeStatus' = "COMPLETED"
                      /\ \A c \in Callers : pc'[c] = "waiting" =>
                            /\ waitsOn'[c] # startFuture'
                            /\ waitsOn'[c] \in done' => nodeStatus' = "COMPLETED"
    BY DEF WaitInv
  <1>1. starts <= 1
    BY <1>0, StartsGrow DEF Types
  <1>2. /\ StartInv /\ OrderInv
        /\ incoming \in {Nothing, status}
        /\ completionFuture \in done => nodeStatus = "COMPLETED"
        /\ \A c \in Callers : pc[c] = "waiting" =>
              waitsOn[c] # startFuture /\ (waitsOn[c] \in done => nodeStatus = "COMPLETED")
    BY <1>1 DEF WaitInv, IInv, FirstInv
  <1>3. nodeStatus = "COMPLETED" => nodeStatus' = "COMPLETED"
    BY <1>0, <1>2, CompletedStays
  <1> DEFINE Goal == /\ incoming' \in {Nothing, status'}
                     /\ completionFuture' \in done' => nodeStatus' = "COMPLETED"
                     /\ \A c \in Callers : pc'[c] = "waiting" =>
                           /\ waitsOn'[c] # startFuture'
                           /\ waitsOn'[c] \in done' => nodeStatus' = "COMPLETED"
  <1>4. ASSUME UNCHANGED <<futureVars, incoming, status, waitsOn>>,
               \A c \in Callers : pc'[c] = "waiting" => pc[c] = "waiting"
        PROVE  Goal
    BY <1>2, <1>3, <1>4 DEF futureVars
  <1>5. ASSUME NEW c \in Callers, StartCall(c) \/ LoadPipe(c) \/ LoadPipeFails(c) \/ SendStart(c)
                                  \/ Return(c)
        PROVE  Goal
    <2>1. \A d \in Callers : pc'[d] = "waiting" => pc[d] = "waiting"
      BY <1>0, <1>5 DEF StartCall, LoadPipe, LoadPipeFails, SendStart, Return, Goes, Types
    <2>2. UNCHANGED <<futureVars, incoming, status, waitsOn>>
      BY <1>5 DEF StartCall, LoadPipe, LoadPipeFails, SendStart, Return
    <2> QED BY <1>4, <2>1, <2>2
  <1>6. NewFuture \in Nat /\ NewFuture > startFuture /\ NewFuture > completionFuture
    BY DEF NewFuture, FutureTypes
  <1>7. /\ NewFuture \notin done /\ NewFuture + 1 \notin done
        /\ \A c \in Callers : waitsOn[c] # NewFuture
    <2>1. ~Made(NewFuture) /\ ~Made(NewFuture + 1)
      BY <1>6 DEF Made, FutureTypes
    <2> QED BY <2>1 DEF FutureTypes
  <1>8. ASSUME NEW c \in Callers, MakeFutures(c) PROVE Goal
    <2>1. /\ startFuture' = NewFuture /\ completionFuture' = NewFuture + 1
          /\ waitsOn' = [waitsOn EXCEPT ![c] = startFuture'] /\ pc' = [pc EXCEPT ![c] = "starting"]
          /\ UNCHANGED <<done, incoming, status>>
      BY <1>8 DEF MakeFutures, NewFutures, WaitsFor, Goes
    <2>2. \A d \in Callers : pc'[d] = "waiting" => pc[d] = "waiting" /\ waitsOn'[d] = waitsOn[d]
      BY <1>0, <2>1 DEF Types, FutureTypes
    <2> QED BY <1>2, <1>3, <1>7, <2>1, <2>2
  <1>9. ASSUME NEW c \in Callers, WaitCall(c) PROVE Goal
    <2>1. /\ waitsOn' = [waitsOn EXCEPT ![c] = completionFuture] /\ pc' = [pc EXCEPT ![c] = "waiting"]
          /\ UNCHANGED <<startFuture, completionFuture, done, incoming, status>>
      BY <1>9 DEF WaitCall, WaitsFor, Goes, futureVars
    <2>2. \A d \in Callers \ {c} : pc'[d] = pc[d] /\ waitsOn'[d] = waitsOn[d]
      BY <1>0, <2>1 DEF Types, FutureTypes
    <2>3. waitsOn'[c] = completionFuture
      BY <2>1 DEF FutureTypes
    <2> QED BY <1>2, <1>3, <2>1, <2>2, <2>3 DEF FutureTypes
  <1>10. ASSUME NEW c \in Callers, TerminateCall(c) PROVE Goal
    <2>1. /\ completionFuture' = NewFuture /\ waitsOn' = [waitsOn EXCEPT ![c] = NewFuture]
          /\ pc' = [pc EXCEPT ![c] = "waiting"]
          /\ UNCHANGED <<startFuture, done, incoming, status>>
      BY <1>10 DEF TerminateCall, WaitsFor, Goes
    <2>2. \A d \in Callers \ {c} : pc'[d] = pc[d] /\ waitsOn'[d] = waitsOn[d]
      BY <1>0, <2>1 DEF Types, FutureTypes
    <2>3. waitsOn'[c] = NewFuture /\ NewFuture # startFuture
      BY <1>6, <2>1 DEF FutureTypes
    <2> QED BY <1>2, <1>3, <1>7, <2>1, <2>2, <2>3
  <1>11. CASE SetStatus
    <2>1. incoming' \in {Nothing, status'} /\ UNCHANGED <<futureVars, pc, waitsOn>>
      BY <1>11 DEF SetStatus, callVars
    <2> QED BY <1>2, <1>3, <2>1 DEF futureVars
  <1>12. CASE SetResult
    <2>1. /\ incoming # Nothing /\ incoming' = Nothing
          /\ done' = done \cup {IF incoming = "RUNNING" THEN startFuture ELSE completionFuture}
          /\ UNCHANGED <<startFuture, completionFuture, pc, waitsOn>>
      BY <1>12 DEF SetResult, CompletedBy, callVars
    <2>2. incoming # "RUNNING" => nodeStatus = "COMPLETED"
      <3>1. incoming # "RUNNING" => status = "COMPLETED"
        BY <1>2, <2>1 DEF FutureTypes
      <3> QED BY <1>2, <3>1 DEF OrderInv, Rank
    <2> QED BY <1>2, <1>3, <2>1, <2>2 DEF FutureTypes
  <1>13. CASE Accept \/ BabySitterEnds \/ LoopSleeps \/ LoopWakes \/ HandleStart \/ HandleTerminate
              \/ Complete \/ UNCHANGED vars
    BY <1>4, <1>13 DEF Accept, BabySitterEnds, LoopSleeps, LoopWakes, HandleStart, HandleTerminate,
                      Complete, NodeUnchanged, callVars, vars
  <1> QED BY <1>5, <1>8, <1>9, <1>10, <1>11, <1>12, <1>13 DEF Next, CallStep

\* No future has its result at first.
LEMMA FuturesStart == Init => FutureTypes /\ WaitInv
  <1> SUFFICES ASSUME Init PROVE FutureTypes /\ WaitInv
    OBVIOUS
  <1>1. FutureTypes
    BY DEF Init, FutureTypes, Made
  <1>2. WaitInv
    BY DEF Init, WaitInv
  <1> QED BY <1>1, <1>2

\* A wait that returns does so on a future that has its result.
LEMMA ReturnWaits ==
    ASSUME IInv, WaitInv, [Next]_vars, NEW c \in Callers, Returns(c, "waiting"), starts <= 1
    PROVE  nodeStatus = "COMPLETED"
  <1>0. Types
    BY DEF IInv
  <1>1. \A d \in Callers : ~(StartCall(d) \/ LoadPipe(d) \/ LoadPipeFails(d) \/ SendStart(d)
                             \/ MakeFutures(d) \/ WaitCall(d) \/ TerminateCall(d))
    BY <1>0 DEF Returns, StartCall, LoadPipe, LoadPipeFails, SendStart, MakeFutures, WaitCall,
                TerminateCall, Goes, Types
  <1>2. PICK d \in Callers : Return(d)
    BY <1>1 DEF Next, CallStep, Returns, Accept, BabySitterEnds, LoopSleeps, LoopWakes, SetStatus,
           SetResult, HandleStart, HandleTerminate, Complete, NodeUnchanged, callVars, vars
  <1>3. d = c /\ waitsOn[c] \in done
    BY <1>0, <1>2 DEF Returns, Return, Goes, Types
  <1> QED BY <1>3 DEF WaitInv, Returns

\* In the first execution wait_for_completion and terminate return only when the
\* node runs the pipe no longer: the part of ReturnsTruly about those that wait.
WaitsReturnTruly ==
    [][\A c \in Callers :
          Returns(c, "waiting") /\ FirstExecution => nodeStatus = "COMPLETED"]_vars

\* The future of completion gets its result from COMPLETED only, and start's new
\* futures are never those that another caller waits for (pipe.py,
\* _handle_pipelines_message): for any number of callers and calls.
THEOREM WaitsAreTrue == Spec => WaitsReturnTruly
  <1> DEFINE Inv == IInv /\ FutureTypes /\ WaitInv
  <1>1. Init => Inv
    BY Initially, FuturesStart
  <1>2. Inv /\ [Next]_vars => Inv'
    BY Invariance, FutureTypesKept, WaitKept DEF IInv
  <1>3. Inv /\ [Next]_vars => [\A c \in Callers :
          Returns(c, "waiting") /\ FirstExecution => nodeStatus = "COMPLETED"]_vars
    BY ReturnWaits DEF FirstExecution
  <1> QED BY <1>1, <1>2, <1>3, PTL DEF Spec, WaitsReturnTruly

-----------------------------------------------------------------------------
(* One caller: each start is answered before the next *)

\* What Append does to a sequence that holds an element once, or not at all.
LEMMA AppendHolds ==
    \A S : \A q \in Seq(S) : \A a \in S : \A e :
        /\ Absent(Append(q, a), e) <=> Absent(q, e) /\ a # e
        /\ Single(q, e) /\ (a # e \/ Absent(q, e)) => Single(Append(q, a), e)
  <1> SUFFICES ASSUME NEW S, NEW q \in Seq(S), NEW a \in S, NEW e
               PROVE  /\ Absent(Append(q, a), e) <=> Absent(q, e) /\ a # e
                      /\ Single(q, e) /\ (a # e \/ Absent(q, e)) => Single(Append(q, a), e)
    OBVIOUS
  <1> DEFINE t == Append(q, a)
             n == Len(q)
  <1>1. n \in Nat /\ Len(t) = n + 1 /\ t[n + 1] = a /\ \A k \in 1..n : t[k] = q[k]
    BY AppendFacts
  <1>2. \A k \in 1..(n + 1) : k \in 1..n \/ k = n + 1
    BY <1>1
  <1>3. \A k \in 1..n : k \in 1..(n + 1)
    BY <1>1
  <1>4. n + 1 \in 1..(n + 1)
    BY <1>1
  <1> HIDE DEF t
  <1>5. Absent(t, e) <=> Absent(q, e) /\ a # e
    BY <1>1, <1>2, <1>3, <1>4 DEF Absent
  <1>6. Single(q, e) /\ (a # e \/ Absent(q, e)) => Single(t, e)
    BY <1>1, <1>2 DEF Absent, Single
  <1> QED BY <1>5, <1>6 DEF t

\* What Tail does to it.
LEMMA TailHolds ==
    \A S : \A q \in Seq(S) : q # <<>> => \A e :
        /\ Head(q) \in S /\ Tail(q) \in Seq(S)
        /\ Absent(q, e) <=> Absent(Tail(q), e) /\ Head(q) # e
        /\ Single(q, e) => Single(Tail(q), e) /\ (Head(q) = e => Absent(Tail(q), e))
  <1> SUFFICES ASSUME NEW S, NEW q \in Seq(S), q # <<>>, NEW e
               PROVE  /\ Head(q) \in S /\ Tail(q) \in Seq(S)
                      /\ Absent(q, e) <=> Absent(Tail(q), e) /\ Head(q) # e
                      /\ Single(q, e) => Single(Tail(q), e) /\ (Head(q) = e => Absent(Tail(q), e))
    OBVIOUS
  <1> DEFINE t == Tail(q)
             n == Len(q)
  <1>1. /\ n \in Nat \ {0} /\ Len(t) = n - 1 /\ Head(q) = q[1] /\ Head(q) \in S /\ t \in Seq(S)
        /\ \A k \in 1..Len(t) : t[k] = q[k + 1]
    BY TailFacts
  <1>2. \A k \in 1..n : k = 1 \/ (k - 1 \in 1..Len(t) /\ t[k - 1] = q[k])
    <2> TAKE k \in 1..n
    <2>1. k = 1 \/ k - 1 \in 1..Len(t)
      BY <1>1
    <2>2. k - 1 + 1 = k
      OBVIOUS
    <2> QED BY <1>1, <2>1, <2>2
  <1>3. 1 \in 1..n /\ \A k \in 1..Len(t) : k + 1 \in 1..n /\ k + 1 # 1
    BY <1>1
  <1> HIDE DEF t, n
  <1>4. Absent(q, e) <=> Absent(t, e) /\ Head(q) # e
    BY <1>1, <1>2, <1>3 DEF Absent, n
  <1>5. Single(q, e) => Single(t, e)
    <2> SUFFICES ASSUME Single(q, e), NEW k \in 1..Len(t), NEW m \in 1..Len(t), t[k] = e, t[m] = e
                 PROVE  k = m
      BY DEF Single
    <2>1. k + 1 = m + 1
      BY <1>1, <1>3 DEF Single, n
    <2> QED BY <2>1
  <1>6. Single(q, e) /\ Head(q) = e => Absent(t, e)
    BY <1>1, <1>3 DEF Single, Absent, n
  <1> QED BY <1>1, <1>4, <1>5, <1>6 DEF t

\* With one caller, a START is answered before the next is sent.
LEMMA OneKept ==
    ASSUME NEW c, Callers = {c}, Types, FutureTypes, OneInv, [Next]_vars
    PROVE  OneInv'
  <1>1. SingleInv /\ NodeInv /\ Counts(c) /\ c \in Callers
    BY DEF OneInv
  <1>2. SUFFICES SingleInv' /\ NodeInv' /\ Counts(c)'
    BY DEF OneInv
  <1>3. /\ pc \in [Callers -> Places] /\ starts \in Nat /\ begun \in Nat
        /\ waitsOn \in [Callers -> Nat] /\ startFuture # completionFuture
        /\ NoStart <=> Absent(toNode, "START")
    BY DEF Types, FutureTypes, NoStart, Absent
  <1>4. (NoStart <=> Absent(toNode, "START"))'
    BY DEF NoStart, Absent
  <1>5. UNCHANGED <<toNode, toClient, incoming>> =>
          /\ NoStart' <=> NoStart
          /\ NoRunning' <=> NoRunning
          /\ SingleInv'
    BY <1>1, <1>3 DEF SingleInv, NoStart, NoRunning, Absent, Single
  <1> DEFINE Goal == SingleInv' /\ NodeInv' /\ Counts(c)'
  <1>6. CASE StartCall(c)
    BY <1>1, <1>3, <1>5, <1>6 DEF StartCall, Goes, NodeInv, Counts, nodeVars, futureVars, Nothing
  <1>7. CASE LoadPipe(c)
    BY <1>1, <1>3, <1>5, <1>7 DEF LoadPipe, Goes, NodeInv, Counts, futureVars, Nothing
  <1>8. CASE LoadPipeFails(c)
    BY <1>1, <1>3, <1>5, <1>8 DEF LoadPipeFails, Goes, NodeInv, Counts, futureVars, Nothing
  <1>9. CASE SendStart(c)
    <2>1. /\ pc[c] = "connecting" /\ connected /\ serving
          /\ NoStart /\ NoRunning /\ starts = begun + 1
      BY <1>1, <1>9 DEF SendStart, Counts
    <2>2. /\ toNode' = Append(toNode, "START") /\ pc' = [pc EXCEPT ![c] = "sent"]
          /\ UNCHANGED <<nodeStatus, toClient, connected, serving, begun, loaded, incoming,
                         futureVars, waitsOn, starts>>
      BY <1>9, <2>1 DEF SendStart, Sends, Goes
    <2>3. ~Absent(toNode', "START") /\ Single(toNode', "START")
      <3>1. toNode \in Seq({"START", "TERMINATE"}) /\ Single(toNode, "START")
        BY <1>1, <1>3 DEF SingleInv, Types
      <3>2. Absent(toNode, "START")
        BY <2>1 DEF NoStart, Absent
      <3>3. \A a \in {"START", "TERMINATE"} : \A e :
               /\ Absent(Append(toNode, a), e) <=> Absent(toNode, e) /\ a # e
               /\ Single(toNode, e) /\ (a # e \/ Absent(toNode, e)) => Single(Append(toNode, a), e)
        BY <3>1, AppendHolds
      <3> QED BY <2>2, <3>1, <3>2, <3>3
    <2>4. NoRunning' /\ ~NoStart'
      BY <1>4, <2>1, <2>2, <2>3 DEF NoRunning
    <2>5. SingleInv'
      BY <1>1, <2>2, <2>3, <2>4 DEF SingleInv
    <2> QED BY <1>1, <1>3, <2>1, <2>2, <2>4, <2>5 DEF NodeInv, Counts, futureVars, Nothing
  <1>10. CASE MakeFutures(c)
    <2>1. NewFuture \notin done
      BY DEF NewFuture, FutureTypes, Made
    <2>2. startFuture' = NewFuture /\ waitsOn' = [waitsOn EXCEPT ![c] = startFuture']
      BY <1>10 DEF MakeFutures, NewFutures, WaitsFor
    <2>3. startFuture' \notin done'
      BY <1>10, <2>1, <2>2 DEF MakeFutures
    <2> QED BY <1>1, <1>3, <1>5, <1>10, <2>2, <2>3 DEF MakeFutures, Goes, NodeInv, Counts, nodeVars, Nothing
  <1>11. CASE WaitCall(c)
    BY <1>1, <1>3, <1>5, <1>11 DEF WaitCall, Goes, NodeInv, Counts, nodeVars, futureVars, Nothing
  <1>12. CASE TerminateCall(c)
    <2>1. toNode' = (IF serving THEN Append(toNode, "TERMINATE") ELSE toNode)
      BY <1>12 DEF TerminateCall, Sends
    <2>2. Absent(toNode', "START") <=> Absent(toNode, "START")
      BY <2>1, AppendHolds DEF Types
    <2>3. Single(toNode', "START")
      BY <1>1, <2>1, AppendHolds DEF SingleInv, Types
    <2>4. /\ pc[c] = "idle" /\ pc' = [pc EXCEPT ![c] = "waiting"]
          /\ UNCHANGED <<nodeStatus, toClient, connected, serving, begun, loaded, incoming,
                         startFuture, done, starts>>
      BY <1>12 DEF TerminateCall, Goes
    <2>5. (NoStart' <=> NoStart) /\ (NoRunning' <=> NoRunning)
      BY <1>3, <1>4, <2>2, <2>4 DEF NoRunning
    <2>6. SingleInv'
      BY <1>1, <2>3, <2>4, <2>5 DEF SingleInv
    <2> QED BY <1>1, <1>3, <2>1, <2>4, <2>5, <2>6 DEF NodeInv, Counts, Nothing
  <1>13. CASE Return(c)
    BY <1>1, <1>3, <1>5, <1>13 DEF Return, Waiting, Goes, NodeInv, Counts, nodeVars, futureVars, Nothing
  <1>14. CASE Accept
    <2>1. /\ ~connected /\ pc[c] = "connecting" /\ connected' = TRUE /\ serving' = TRUE
          /\ toClient' = Append(toClient, nodeStatus)
          /\ UNCHANGED <<nodeStatus, toNode, begun, loaded, incoming, futureVars, pc, waitsOn, starts>>
      BY <1>1, <1>14 DEF Accept, callVars
    <2>2. nodeStatus # "RUNNING"
      BY <1>1, <2>1 DEF NodeInv, Nothing
    <2>3. (Absent(toClient', "RUNNING") <=> Absent(toClient, "RUNNING")) /\ Single(toClient', "RUNNING")
      BY <1>1, <2>1, <2>2, AppendHolds DEF SingleInv, Types
    <2>4. (NoStart' <=> NoStart) /\ (NoRunning' <=> NoRunning)
      BY <2>1, <2>3 DEF NoRunning, NoStart
    <2>5. SingleInv'
      BY <1>1, <2>1, <2>3, <2>4 DEF SingleInv
    <2> QED BY <1>1, <1>3, <2>1, <2>4, <2>5 DEF NodeInv, Counts, futureVars, Nothing
  <1>15. CASE BabySitterEnds \/ LoopSleeps \/ LoopWakes
    BY <1>1, <1>3, <1>5, <1>15 DEF BabySitterEnds, LoopSleeps, LoopWakes, NodeInv, Counts, nodeVars,
           futureVars, callVars, Nothing
  <1>16. CASE SetStatus
    <2>1. /\ incoming = Nothing /\ toClient # <<>> /\ toClient' = Tail(toClient)
          /\ incoming' = "RUNNING" <=> Head(toClient) = "RUNNING"
          /\ UNCHANGED <<nodeStatus, toNode, connected, serving, begun, loaded, futureVars, callVars>>
      BY <1>16 DEF SetStatus, Nothing
    <2>2. /\ Absent(toClient, "RUNNING") <=> Absent(toClient', "RUNNING") /\ Head(toClient) # "RUNNING"
          /\ Single(toClient', "RUNNING")
          /\ Head(toClient) = "RUNNING" => Absent(toClient', "RUNNING")
      BY <1>1, <2>1, TailHolds DEF SingleInv, Types
    <2>3. (NoStart' <=> NoStart) /\ (NoRunning' <=> NoRunning)
      BY <2>1, <2>2 DEF NoRunning, NoStart, Nothing
    <2>4. SingleInv'
      BY <1>1, <2>1, <2>2, <2>3 DEF SingleInv
    <2> QED BY <1>1, <1>3, <2>1, <2>3, <2>4 DEF NodeInv, Counts, futureVars, callVars, Nothing
  <1>17. CASE SetResult
    <2>1. /\ incoming \in {"RUNNING", "COMPLETED"} /\ incoming' = Nothing
          /\ done' = done \cup {IF incoming = "RUNNING" THEN startFuture ELSE completionFuture}
          /\ UNCHANGED <<nodeVars, loaded, startFuture, completionFuture, callVars>>
      BY <1>17 DEF SetResult, CompletedBy, FutureTypes
    <2>2. /\ NoStart' <=> NoStart
          /\ NoRunning => NoRunning'
          /\ incoming = "RUNNING" => NoRunning' /\ NoStart /\ ~NoRunning
          /\ incoming # "RUNNING" => (NoRunning' => NoRunning)
      BY <1>1, <2>1 DEF NoRunning, NoStart, SingleInv, nodeVars, Nothing
    <2>3. SingleInv'
      BY <1>1, <2>1, <2>2 DEF SingleInv, nodeVars, Nothing
    <2>4. startFuture' \in done' => startFuture \in done \/ incoming = "RUNNING"
      BY <1>3, <2>1
    <2> QED BY <1>1, <1>3, <2>1, <2>2, <2>3, <2>4 DEF NodeInv, Counts, nodeVars, callVars, Nothing
  <1>18. CASE HandleStart
    <2>1. toNode # <<>> /\ Head(toNode) = "START"
          /\ UNCHANGED <<connected, loaded, incoming, futureVars, callVars>>
      BY <1>18 DEF HandleStart, NodeUnchanged
    <2>2. ~NoStart /\ Absent(Tail(toNode), "START") /\ Single(Tail(toNode), "START")
      BY <1>1, <1>3, <2>1, TailHolds DEF SingleInv, Types
    <2>3. /\ NoRunning /\ starts = begun + 1 /\ pc[c] \in {"sent", "starting"}
          /\ serving /\ connected /\ loaded
          /\ pc[c] = "starting" => startFuture \notin done
      BY <1>1, <2>1, <2>2 DEF SingleInv, Counts, NodeInv
    <2>4. CASE toNode' = Tail(toNode) /\ Report("RUNNING") /\ begun' = begun + 1 /\ UNCHANGED serving
      <3>1. nodeStatus' = "RUNNING" /\ toClient' = Append(toClient, "RUNNING")
        BY <2>3, <2>4 DEF Report
      <3>2. ~Absent(toClient', "RUNNING") /\ Single(toClient', "RUNNING")
        <4>1. toClient \in Seq(Told) /\ "RUNNING" \in Told
          BY DEF Types, Told, Statuses
        <4> QED BY <1>1, <2>3, <3>1, <4>1, AppendHolds DEF SingleInv, NoRunning
      <3>3. NoStart' /\ ~NoRunning'
        BY <1>4, <2>2, <2>4, <3>2 DEF NoRunning
      <3>4. SingleInv'
        BY <2>1, <2>2, <2>3, <2>4, <3>2, <3>3 DEF SingleInv, NoRunning
      <3> QED BY <1>1, <1>3, <2>1, <2>3, <2>4, <3>1, <3>3, <3>4 DEF NodeInv, Counts, futureVars, callVars, Nothing
    <2>5. CASE serving' = FALSE /\ toNode' = <<>> /\ UNCHANGED <<nodeStatus, toClient, begun>>
      <3>1. Absent(toNode', "START") /\ Single(toNode', "START")
        BY <2>5 DEF Absent, Single
      <3>2. NoStart' /\ NoRunning'
        BY <1>4, <2>1, <2>3, <2>5, <3>1 DEF NoRunning
      <3>3. SingleInv'
        BY <1>1, <2>1, <2>5, <3>1, <3>2 DEF SingleInv
      <3> QED BY <1>1, <1>3, <2>1, <2>3, <2>5, <3>2, <3>3 DEF NodeInv, Counts, futureVars, callVars, Nothing
    <2> QED BY <1>18, <2>4, <2>5 DEF HandleStart
  <1>19. CASE HandleTerminate
    <2>1. toNode # <<>> /\ Head(toNode) = "TERMINATE" /\ toNode' = Tail(toNode)
          /\ UNCHANGED <<nodeStatus, toClient, serving, begun, connected, loaded, incoming, futureVars, callVars>>
      BY <1>19 DEF HandleTerminate, NodeUnchanged
    <2>2. (Absent(toNode', "START") <=> Absent(toNode, "START")) /\ Single(toNode', "START")
      BY <1>1, <2>1, TailHolds DEF SingleInv, Types
    <2>3. (NoStart' <=> NoStart) /\ (NoRunning' <=> NoRunning)
      BY <1>3, <1>4, <2>1, <2>2 DEF NoRunning
    <2>4. SingleInv'
      BY <1>1, <2>1, <2>2, <2>3 DEF SingleInv
    <2>5. serving
      BY <1>1, <2>1 DEF NodeInv
    <2> QED BY <1>1, <1>3, <2>1, <2>3, <2>4, <2>5 DEF NodeInv, Counts, futureVars, callVars, Nothing
  <1>20. CASE Complete
    <2>1. nodeStatus = "RUNNING" /\ nodeStatus' = "COMPLETED"
          /\ toClient' = (IF serving THEN Append(toClient, "COMPLETED") ELSE toClient)
          /\ UNCHANGED <<toNode, serving, begun, connected, loaded, incoming, futureVars, callVars>>
      BY <1>20 DEF Complete, Report, NodeUnchanged
    <2>2. (Absent(toClient', "RUNNING") <=> Absent(toClient, "RUNNING")) /\ Single(toClient', "RUNNING")
      <3>1. toClient \in Seq(Told) /\ "COMPLETED" \in Told
        BY DEF Types, Told, Statuses
      <3> QED BY <1>1, <2>1, <3>1, AppendHolds DEF SingleInv
    <2>3. (NoStart' <=> NoStart) /\ (NoRunning' <=> NoRunning)
      BY <2>1, <2>2 DEF NoRunning, NoStart
    <2>4. SingleInv'
      BY <1>1, <2>1, <2>2, <2>3 DEF SingleInv
    <2> QED BY <1>1, <1>3, <2>1, <2>3, <2>4 DEF NodeInv, Counts, futureVars, callVars, Nothing
  <1>21. CASE UNCHANGED vars
    BY <1>1, <1>3, <1>5, <1>21 DEF vars, NodeInv, Counts, nodeVars, futureVars, callVars, Nothing
  <1>22. \A d \in Callers : d = c
    OBVIOUS
  <1> QED BY <1>6, <1>7, <1>8, <1>9, <1>10, <1>11, <1>12, <1>13, <1>14, <1>15, <1>16, <1>17, <1>18,
             <1>19, <1>20, <1>21, <1>22 DEF Next, CallStep

\* Nothing is under way at first.
LEMMA OneStart == Init => OneInv
  <1> SUFFICES ASSUME Init PROVE OneInv
    OBVIOUS
  <1>1. NoStart /\ NoRunning /\ SingleInv
    BY DEF Init, NoStart, NoRunning, SingleInv, Absent, Single, Nothing
  <1> QED BY <1>1 DEF Init, OneInv, NodeInv, Counts, Nothing

\* A start that returns has had its answer.
LEMMA ReturnStarts ==
    ASSUME Types, OneInv, [Next]_vars, NEW c \in Callers, Callers = {c}, Returns(c, "starting")
    PROVE  begun = starts
  <1>0. pc \in [Callers -> Places] /\ pc[c] = "starting" /\ Counts(c)
    BY DEF Types, OneInv, Returns
  <1>1. Return(c)
    <2>1. \A d \in Callers : ~(StartCall(d) \/ LoadPipe(d) \/ LoadPipeFails(d) \/ SendStart(d)
                             \/ MakeFutures(d) \/ WaitCall(d) \/ TerminateCall(d))
      BY <1>0 DEF Returns, StartCall, LoadPipe, LoadPipeFails, SendStart, MakeFutures, WaitCall,
                TerminateCall, Goes
    <2>2. PICK d \in Callers : Return(d)
      BY <2>1 DEF Next, CallStep, Returns, Accept, BabySitterEnds, LoopSleeps, LoopWakes, SetStatus,
           SetResult, HandleStart, HandleTerminate, Complete, NodeUnchanged, callVars, vars
    <2> QED BY <2>2
  <1> QED BY <1>0, <1>1 DEF Return, Counts

\* The invariant of a client with one caller.
LEMMA OneInvariance == ASSUME NEW d, Callers = {d}
                       PROVE  Spec => [](IInv /\ FutureTypes /\ WaitInv /\ OneInv)
  <1> DEFINE Inv == IInv /\ FutureTypes /\ WaitInv /\ OneInv
  <1>1. Init => Inv
    BY Initially, FuturesStart, OneStart
  <1>2. Inv /\ [Next]_vars => Inv'
    BY Invariance, FutureTypesKept, WaitKept, OneKept DEF IInv
  <1> QED BY <1>1, <1>2, PTL DEF Spec

\* With one caller, who starts the pipe as often as it likes, start returns only
\* when the node has run the pipe as often: between a START and its answer no
\* RUNNING of an earlier one is under way that could complete the new future.
THEOREM ReturnsAreTrue == ASSUME NEW d, Callers = {d} PROVE Spec => ReturnsTruly
  <1>3. IInv /\ FutureTypes /\ WaitInv /\ OneInv /\ [Next]_vars =>
          [\A c \in Callers :
              /\ Returns(c, "starting") => begun = starts
              /\ Returns(c, "waiting") /\ FirstExecution => nodeStatus = "COMPLETED"]_vars
    BY ReturnWaits, ReturnStarts DEF FirstExecution, IInv
  <1> QED BY OneInvariance, <1>3, PTL DEF Spec, ReturnsTruly

-----------------------------------------------------------------------------
(* The numbers of calls, baby sitters and futures                          *)

At(places) == {c \in Callers : pc[c] \in places}

\* Those in start that have not yet sent their message, or not made their futures.
Early  == {"loading", "connecting"}
Unmade == {"loading", "connecting", "sent"}

StartsIn(q) == {k \in 1..Len(q) : q[k] = "START"}

\* Each call of start creates one baby sitter, sends one START and makes two
\* futures, and none of that before its place in start.
NumberInv ==
    /\ IsFiniteSet(At(Unmade))
    /\ sitters + Cardinality(At(Early)) <= starts
    /\ begun + Cardinality(StartsIn(toNode)) + Cardinality(At(Early)) <= starts
    /\ startFuture + 2 * Cardinality(At(Unmade)) <= 2 + 2 * starts + waits
    /\ completionFuture + 2 * Cardinality(At(Unmade)) <= 2 + 2 * starts + waits
    /\ starts <= MaxStarts /\ waits \in 0..MaxWaits /\ lost \in 0..MaxLost

\* No status is told before there is one.
ToldInv ==
    /\ connected \in BOOLEAN /\ serving \in BOOLEAN /\ loaded \in BOOLEAN /\ asleep \in BOOLEAN
    /\ toClient \in Seq(Statuses) /\ status \in Statuses \cup {"INIT"}
    /\ startFuture # 0 /\ completionFuture # 0 /\ 0 \notin done
    /\ loaded => nodeStatus # Nothing
    /\ \A c \in Callers : pc[c] = "connecting" => nodeStatus # Nothing

\* A caller that leaves a set of places, or comes to it, is counted once.
LEMMA Moves ==
    ASSUME NEW c, NEW S, IsFiniteSet(S), NEW T, T = S \cup {c} \/ T = S \ {c}
    PROVE  /\ IsFiniteSet(T) /\ Cardinality(S) \in Nat /\ Cardinality(T) \in Nat
           /\ Cardinality(T) = Cardinality(S) + (IF c \in T THEN 1 ELSE 0)
                                              - (IF c \in S THEN 1 ELSE 0)
  <1>1. Cardinality(S) \in Nat
    BY FS_CardinalityType
  <1>2. /\ IsFiniteSet(S \cup {c})
        /\ Cardinality(S \cup {c}) = IF c \in S THEN Cardinality(S) ELSE Cardinality(S) + 1
    BY FS_AddElement
  <1>3. /\ IsFiniteSet(S \ {c})
        /\ Cardinality(S \ {c}) = IF c \in S THEN Cardinality(S) - 1 ELSE Cardinality(S)
    BY FS_RemoveElement
  <1>4. CASE T = S \cup {c}
    <2>1. c \in T
      BY <1>4
    <2> QED BY <1>1, <1>2, <1>4, <2>1, FS_CardinalityType
  <1>5. CASE T = S \ {c}
    <2>1. c \notin T
      BY <1>5
    <2>2. IsFiniteSet(T) /\ Cardinality(T) \in Nat
      BY <1>3, <1>5, FS_CardinalityType
    <2> QED BY <1>1, <1>3, <1>5, <2>1, <2>2
  <1> QED BY <1>4, <1>5

\* The STARTs under way can be counted,
LEMMA StartsAre ==
    ASSUME NEW q \in Seq({"START", "TERMINATE"})
    PROVE  IsFiniteSet(StartsIn(q)) /\ Cardinality(StartsIn(q)) \in Nat
  <1>1. StartsIn(q) \in SUBSET (1..Len(q)) /\ Len(q) \in Nat
    BY DEF StartsIn
  <1>2. IsFiniteSet(1..Len(q))
    BY <1>1, FS_Interval
  <1>3. IsFiniteSet(StartsIn(q))
    BY <1>1, <1>2, FS_Subset
  <1> QED BY <1>3, FS_CardinalityType

\* one more when one is sent,
LEMMA StartsAppended ==
    ASSUME NEW q \in Seq({"START", "TERMINATE"}), NEW e \in {"START", "TERMINATE"}
    PROVE  Cardinality(StartsIn(Append(q, e))) =
              Cardinality(StartsIn(q)) + (IF e = "START" THEN 1 ELSE 0)
  <1>1. /\ Len(q) \in Nat /\ Len(Append(q, e)) = Len(q) + 1 /\ Append(q, e)[Len(q) + 1] = e
        /\ \A k \in 1..Len(q) : Append(q, e)[k] = q[k]
    BY AppendFacts
  <1>2. StartsIn(Append(q, e)) = IF e = "START" THEN StartsIn(q) \cup {Len(q) + 1} ELSE StartsIn(q)
    BY <1>1 DEF StartsIn
  <1>3. Len(q) + 1 \notin StartsIn(q)
    BY <1>1 DEF StartsIn
  <1>4. IsFiniteSet(StartsIn(q)) /\ Cardinality(StartsIn(q)) \in Nat
    BY StartsAre
  <1>5. Cardinality(StartsIn(q) \cup {Len(q) + 1}) = Cardinality(StartsIn(q)) + 1
    BY <1>3, <1>4, FS_AddElement
  <1> QED BY <1>2, <1>4, <1>5

\* and one less when it is taken.
LEMMA StartsTaken ==
    ASSUME NEW q \in Seq({"START", "TERMINATE"}), q # <<>>
    PROVE  Cardinality(StartsIn(Tail(q))) + (IF Head(q) = "START" THEN 1 ELSE 0)
              <= Cardinality(StartsIn(q))
  <1> DEFINE S == StartsIn(q) \ {1}
             T == StartsIn(Tail(q))
             f == [k \in T |-> k + 1]
  <1>1. /\ Len(q) \in Nat \ {0} /\ Head(q) = q[1] /\ Tail(q) \in Seq({"START", "TERMINATE"})
        /\ Len(Tail(q)) = Len(q) - 1
        /\ \A k \in 1..Len(Tail(q)) : Tail(q)[k] = q[k + 1] /\ k + 1 \in 1..Len(q)
    BY TailFacts
  <1>2. IsFiniteSet(StartsIn(q)) /\ Cardinality(StartsIn(q)) \in Nat
    BY StartsAre
  <1>3. /\ IsFiniteSet(S)
        /\ Cardinality(S) = IF 1 \in StartsIn(q) THEN Cardinality(StartsIn(q)) - 1
                                                 ELSE Cardinality(StartsIn(q))
    BY <1>2, FS_RemoveElement
  <1>4. 1 \in StartsIn(q) <=> Head(q) = "START"
    BY <1>1 DEF StartsIn
  <1>5. f \in Injection(T, S)
    <2>1. \A k \in T : k \in Nat /\ k >= 1 /\ k + 1 \in S
      BY <1>1 DEF StartsIn
    <2> HIDE DEF S, T
    <2> QED BY <2>1 DEF Injection, IsInjective
  <1> HIDE DEF S, T, f
  <1>6. IsFiniteSet(T) /\ Cardinality(T) <= Cardinality(S)
    BY <1>3, <1>5, FS_Injection
  <1>7. Cardinality(T) \in Nat
    BY <1>6, FS_CardinalityType
  <1>8. Cardinality(T) + (IF Head(q) = "START" THEN 1 ELSE 0) <= Cardinality(StartsIn(q))
    BY <1>2, <1>3, <1>4, <1>6, <1>7
  <1> QED BY <1>8 DEF T

\* A caller that goes from one place to another.
LEMMA PlacesCounted ==
    ASSUME Types, IsFiniteSet(At(Unmade)), NEW c \in Callers, NEW to \in Places, Goes(c, to)
    PROVE  /\ IsFiniteSet(At(Unmade)')
           /\ Cardinality(At(Unmade)) \in Nat /\ Cardinality(At(Unmade)') \in Nat
           /\ Cardinality(At(Early)) \in Nat /\ Cardinality(At(Early)') \in Nat
           /\ Cardinality(At(Unmade)') = Cardinality(At(Unmade))
                 + (IF to \in Unmade THEN 1 ELSE 0) - (IF pc[c] \in Unmade THEN 1 ELSE 0)
           /\ Cardinality(At(Early)') = Cardinality(At(Early))
                 + (IF to \in Early THEN 1 ELSE 0) - (IF pc[c] \in Early THEN 1 ELSE 0)
  <1>1. pc \in [Callers -> Places] /\ pc' = [pc EXCEPT ![c] = to]
    BY DEF Types, Goes
  <1>2. IsFiniteSet(At(Early))
    <2>1. At(Early) \in SUBSET At(Unmade)
      BY DEF At, Early, Unmade
    <2> QED BY <2>1, FS_Subset
  <1>3. \A places : IsFiniteSet(At(places)) =>
            /\ IsFiniteSet(At(places)') /\ Cardinality(At(places)) \in Nat
            /\ Cardinality(At(places)') \in Nat
            /\ Cardinality(At(places)') = Cardinality(At(places))
                  + (IF to \in places THEN 1 ELSE 0) - (IF pc[c] \in places THEN 1 ELSE 0)
    <2> SUFFICES ASSUME NEW places, IsFiniteSet(At(places))
                 PROVE  /\ IsFiniteSet(At(places)') /\ Cardinality(At(places)) \in Nat
                        /\ Cardinality(At(places)') \in Nat
                        /\ Cardinality(At(places)') = Cardinality(At(places))
                              + (IF to \in places THEN 1 ELSE 0)
                              - (IF pc[c] \in places THEN 1 ELSE 0)
      OBVIOUS
    <2> DEFINE S == At(places)
               T == At(places)'
    <2>1. (c \in S <=> pc[c] \in places) /\ (c \in T <=> to \in places)
      BY <1>1 DEF At
    <2>2. T = S \cup {c} \/ T = S \ {c}
      BY <1>1 DEF At
    <2>3. IsFiniteSet(S)
      OBVIOUS
    <2> HIDE DEF S, T
    <2>4. /\ IsFiniteSet(T) /\ Cardinality(S) \in Nat /\ Cardinality(T) \in Nat
          /\ Cardinality(T) = Cardinality(S) + (IF c \in T THEN 1 ELSE 0)
                                             - (IF c \in S THEN 1 ELSE 0)
      BY <2>2, <2>3, Moves
    <2> QED BY <2>1, <2>4 DEF S, T
  <1> QED BY <1>2, <1>3

\* No step makes more of anything than the calls of start and of wait account for.
LEMMA NumberKept == Types /\ FutureTypes /\ NumberInv /\ [Next]_vars => NumberInv'
  <1> SUFFICES ASSUME Types, FutureTypes, NumberInv, [Next]_vars PROVE NumberInv'
    OBVIOUS
  <1> USE ConstantsAssumption DEF ConstantsAssumption
  <1> DEFINE early  == Cardinality(At(Early))
             unmade == Cardinality(At(Unmade))
             sent   == Cardinality(StartsIn(toNode))
  <1>1. unmade \in Nat /\ early \in Nat /\ sent \in Nat
    <2>1. At(Early) \in SUBSET At(Unmade)
      BY DEF At, Early, Unmade
    <2>2. IsFiniteSet(At(Early))
      BY <2>1, FS_Subset DEF NumberInv
    <2>3. toNode \in Seq({"START", "TERMINATE"})
      BY DEF Types
    <2> QED BY <2>2, <2>3, FS_CardinalityType, StartsAre DEF NumberInv
  <1>2. /\ toNode \in Seq({"START", "TERMINATE"})
        /\ sitters \in Nat /\ starts \in Nat /\ begun \in Nat /\ waits \in Nat /\ lost \in Nat
        /\ startFuture \in Nat /\ completionFuture \in Nat
    BY DEF Types, FutureTypes, NumberInv
  <1>0. /\ sitters + early <= starts /\ begun + sent + early <= starts
        /\ startFuture + 2 * unmade <= 2 + 2 * starts + waits
        /\ completionFuture + 2 * unmade <= 2 + 2 * starts + waits
        /\ starts <= MaxStarts /\ waits \in 0..MaxWaits /\ lost \in 0..MaxLost
        /\ IsFiniteSet(At(Unmade))
    BY DEF NumberInv
  <1>8. ASSUME sitters' + early' <= starts', begun' + sent' + early' <= starts',
               startFuture' + 2 * unmade' <= 2 + 2 * starts' + waits',
               completionFuture' + 2 * unmade' <= 2 + 2 * starts' + waits',
               starts' <= MaxStarts, waits' \in 0..MaxWaits, lost' \in 0..MaxLost,
               IsFiniteSet(At(Unmade)')
        PROVE  NumberInv'
    BY <1>8 DEF NumberInv
  <1> HIDE DEF early, unmade, sent
  <1>3. NewFuture \in Nat
        /\ NewFuture + 2 * unmade <= 2 + 2 * starts + waits + 1
    BY <1>0, <1>1, <1>2 DEF NewFuture
  <1>9. toNode' = toNode => sent' = sent
    BY DEF sent
  <1>4. ASSUME NEW c \in Callers, CallStep(c) PROVE NumberInv'
    <2> DEFINE Counted(to) ==
           /\ IsFiniteSet(At(Unmade)')
           /\ unmade' \in Nat /\ early' \in Nat
           /\ unmade' = unmade
                 + (IF to \in Unmade THEN 1 ELSE 0) - (IF pc[c] \in Unmade THEN 1 ELSE 0)
           /\ early' = early
                 + (IF to \in Early THEN 1 ELSE 0) - (IF pc[c] \in Early THEN 1 ELSE 0)
    <2>1. \A to \in Places : Goes(c, to) => Counted(to)
      BY <1>0, PlacesCounted DEF early, unmade
    <2> USE DEF Places
    <2>2. CASE StartCall(c)
      <3>1. PICK to \in Early : Goes(c, to)
        BY <2>2 DEF StartCall, Early
      <3>2. /\ pc[c] = "idle" /\ starts < MaxStarts /\ starts' = starts + 1
            /\ UNCHANGED <<toNode, begun, startFuture, completionFuture, sitters, waits, lost>>
        BY <2>2 DEF StartCall, nodeVars, futureVars
      <3>3. Counted(to)
        BY <2>1, <3>1 DEF Early
      <3>4. /\ unmade' = unmade + 1
            /\ early' = early + 1
            /\ IsFiniteSet(At(Unmade)')
        BY <1>1, <3>1, <3>2, <3>3 DEF Early, Unmade
      <3> QED BY <1>0, <1>1, <1>2, <1>8, <1>9, <3>2, <3>4
    <2>3. CASE LoadPipe(c)
      <3>1. /\ pc[c] = "loading" /\ Goes(c, "connecting")
            /\ UNCHANGED <<toNode, begun, startFuture, completionFuture, sitters, starts, waits, lost>>
        BY <2>3 DEF LoadPipe, futureVars
      <3>2. /\ unmade' = unmade
            /\ early' = early
            /\ IsFiniteSet(At(Unmade)')
        BY <1>1, <2>1, <3>1 DEF Early, Unmade
      <3> QED BY <1>0, <1>1, <1>2, <1>8, <1>9, <3>1, <3>2
    <2>4. CASE LoadPipeFails(c)
      <3>1. /\ pc[c] = "loading" /\ Goes(c, "idle") /\ lost' \in 0..MaxLost
            /\ UNCHANGED <<toNode, begun, startFuture, completionFuture, sitters, starts, waits>>
        BY <1>0, <1>2, <2>4 DEF LoadPipeFails, futureVars
      <3>2. /\ unmade' = unmade - 1
            /\ early' = early - 1
            /\ IsFiniteSet(At(Unmade)')
        BY <1>1, <2>1, <3>1 DEF Early, Unmade
      <3> QED BY <1>0, <1>1, <1>2, <1>8, <1>9, <3>1, <3>2
    <2>5. CASE SendStart(c)
      <3>1. /\ pc[c] = "connecting" /\ sitters' = sitters + 1
            /\ UNCHANGED <<begun, startFuture, completionFuture, starts, waits, lost>>
            /\ toNode' \in {toNode, Append(toNode, "START")}
        BY <2>5 DEF SendStart, Sends, futureVars
      <3>2. PICK to \in {"sent", "idle"} : Goes(c, to)
        BY <2>5 DEF SendStart
      <3>3. Counted(to)
        BY <2>1, <3>2
      <3>4. /\ unmade' <= unmade
            /\ early' = early - 1
            /\ IsFiniteSet(At(Unmade)') /\ unmade' \in Nat
        BY <1>1, <3>1, <3>2, <3>3 DEF Early, Unmade
      <3>5. sent' \in {sent, sent + 1}
        <4>1. Cardinality(StartsIn(Append(toNode, "START"))) = Cardinality(StartsIn(toNode)) + 1
          BY <1>1, <1>2, StartsAppended
        <4> QED BY <3>1, <4>1 DEF sent
      <3>6. begun' + sent' + early' <= starts'
        <4>1. CASE sent' = sent
          BY <1>0, <1>1, <1>2, <3>1, <3>4, <4>1
        <4>2. CASE sent' = sent + 1
          BY <1>0, <1>1, <1>2, <3>1, <3>4, <4>2
        <4> QED BY <3>5, <4>1, <4>2
      <3>7. /\ startFuture' + 2 * unmade' <= 2 + 2 * starts' + waits'
            /\ completionFuture' + 2 * unmade' <= 2 + 2 * starts' + waits'
        <4>1. PICK u \in Nat : u = unmade'
          BY <3>4
        <4>2. u <= unmade
          BY <3>4, <4>1
        <4>3. /\ startFuture + 2 * u <= 2 + 2 * starts + waits
              /\ completionFuture + 2 * u <= 2 + 2 * starts + waits
          BY <1>0, <1>1, <1>2, <4>2
        <4> QED BY <3>1, <4>1, <4>3
      <3>8. sitters' + early' <= starts'
        BY <1>0, <1>1, <1>2, <3>1, <3>4
      <3> QED BY <1>0, <1>8, <3>1, <3>4, <3>6, <3>7, <3>8
    <2>6. CASE MakeFutures(c)
      <3>1. /\ pc[c] = "sent" /\ Goes(c, "starting")
            /\ startFuture' = NewFuture /\ completionFuture' = NewFuture + 1
            /\ UNCHANGED <<toNode, begun, sitters, starts, waits, lost>>
        BY <2>6 DEF MakeFutures, NewFutures, nodeVars
      <3>2. /\ unmade' = unmade - 1
            /\ early' = early
            /\ IsFiniteSet(At(Unmade)')
        BY <1>1, <2>1, <3>1 DEF Early, Unmade
      <3> QED BY <1>0, <1>1, <1>2, <1>3, <1>8, <1>9, <3>1, <3>2
    <2>7. CASE WaitCall(c) \/ TerminateCall(c)
      <3>1. /\ pc[c] = "idle" /\ Goes(c, "waiting") /\ waits < MaxWaits /\ waits' = waits + 1
            /\ UNCHANGED <<begun, sitters, starts, lost, startFuture>>
            /\ completionFuture' \in {completionFuture, NewFuture}
            /\ toNode' \in {toNode, Append(toNode, "TERMINATE")}
        BY <2>7 DEF WaitCall, TerminateCall, Sends, nodeVars, futureVars
      <3>2. /\ unmade' = unmade
            /\ early' = early
            /\ IsFiniteSet(At(Unmade)')
        BY <1>1, <2>1, <3>1 DEF Early, Unmade
      <3>3. sent' = sent
        <4>1. Cardinality(StartsIn(Append(toNode, "TERMINATE"))) = Cardinality(StartsIn(toNode))
          <5>1. Cardinality(StartsIn(Append(toNode, "TERMINATE"))) = sent + 0
            BY <1>2, StartsAppended DEF sent
          <5> QED BY <1>1, <5>1 DEF sent
        <4> QED BY <3>1, <4>1 DEF sent
      <3>4. /\ waits' \in 0..MaxWaits
            /\ completionFuture' + 2 * unmade' <= 2 + 2 * starts' + waits'
        <4>1. CASE completionFuture' = completionFuture
          BY <1>0, <1>1, <1>2, <3>1, <3>2, <4>1
        <4>2. CASE completionFuture' = NewFuture
          BY <1>0, <1>1, <1>2, <1>3, <3>1, <3>2, <4>2
        <4> QED BY <3>1, <4>1, <4>2
      <3>5. startFuture' + 2 * unmade' <= 2 + 2 * starts' + waits'
        BY <1>0, <1>1, <1>2, <3>1, <3>2
      <3> QED BY <1>0, <1>8, <3>1, <3>2, <3>3, <3>4, <3>5
    <2>8. CASE Return(c)
      <3>1. /\ pc[c] \in {"starting", "waiting"} /\ Goes(c, "idle")
            /\ UNCHANGED <<toNode, begun, startFuture, completionFuture, sitters, starts, waits, lost>>
        BY <2>8 DEF Return, Waiting, nodeVars, futureVars
      <3>2. /\ unmade' = unmade
            /\ early' = early
            /\ IsFiniteSet(At(Unmade)')
        BY <1>1, <2>1, <3>1 DEF Early, Unmade
      <3> QED BY <1>0, <1>1, <1>2, <1>8, <1>9, <3>1, <3>2
    <2> QED BY <1>4, <2>2, <2>3, <2>4, <2>5, <2>6, <2>7, <2>8 DEF CallStep
  <1>5. ASSUME UNCHANGED <<pc, begun, startFuture, completionFuture, starts, waits, lost>>,
               sitters' \in {sitters, sitters - 1}, toNode' = toNode
        PROVE  NumberInv'
    <2>1. unmade' = unmade /\ early' = early /\ At(Unmade)' = At(Unmade)
      BY <1>5 DEF At, unmade, early
    <2>3. sitters' + early <= starts
      <3>1. CASE sitters' = sitters
        BY <1>0, <3>1
      <3>2. CASE sitters' = sitters - 1
        BY <1>0, <1>1, <1>2, <3>2
      <3> QED BY <1>5, <3>1, <3>2
    <2>4. sitters' + early' <= starts' /\ begun' + sent' + early' <= starts'
      BY <1>0, <1>5, <1>9, <2>1, <2>3
    <2> QED BY <1>0, <1>5, <1>8, <2>1, <2>4
  <1>6. CASE Accept \/ BabySitterEnds \/ LoopSleeps \/ LoopWakes \/ SetStatus \/ SetResult \/ Complete
             \/ UNCHANGED vars
    BY <1>5, <1>6 DEF Accept, BabySitterEnds, LoopSleeps, LoopWakes, SetStatus, SetResult, Complete,
                      NodeUnchanged, nodeVars, callVars, futureVars, vars
  <1>7. CASE HandleStart \/ HandleTerminate
    <2>1. /\ toNode # <<>> /\ toNode' \in {Tail(toNode), <<>>}
          /\ begun' = begun \/ (begun' = begun + 1 /\ Head(toNode) = "START" /\ toNode' = Tail(toNode))
          /\ UNCHANGED <<pc, startFuture, completionFuture, starts, waits, lost, sitters>>
      BY <1>7 DEF HandleStart, HandleTerminate, NodeUnchanged, callVars, futureVars
    <2>2. unmade' = unmade /\ early' = early /\ At(Unmade)' = At(Unmade)
      BY <2>1 DEF At, unmade, early
    <2>3. /\ Cardinality(StartsIn(Tail(toNode))) \in Nat
          /\ Cardinality(StartsIn(Tail(toNode))) + (IF Head(toNode) = "START" THEN 1 ELSE 0)
                <= sent
      <3> USE DEF sent
      <3>1. Tail(toNode) \in Seq({"START", "TERMINATE"})
        BY <1>2, <2>1, TailFacts
      <3> QED BY <1>2, <2>1, <3>1, StartsAre, StartsTaken
    <2>4. Cardinality(StartsIn(<<>>)) = 0
      <3>1. StartsIn(<<>>) = {}
        BY DEF StartsIn
      <3> QED BY <3>1, FS_EmptySet
    <2>5. begun' + sent' + early <= starts
      <3>1. \/ toNode' = Tail(toNode) /\ sent' = Cardinality(StartsIn(Tail(toNode)))
            \/ toNode' = <<>> /\ sent' = 0
        BY <2>1, <2>4 DEF sent
      <3>2. PICK b \in Nat, n \in Nat : b = begun' /\ n = sent'
        BY <1>2, <2>1, <2>3, <3>1
      <3>3. b + n <= begun + sent
        <4>1. CASE toNode' = <<>>
          <5>1. n = 0
            BY <2>1, <3>1, <3>2, <4>1, <2>4 DEF sent
          <5>2. b = begun \/ (b = begun + 1 /\ Head(toNode) = "START")
            BY <2>1, <3>2
          <5>3. b = begun + 1 /\ Head(toNode) = "START" => sent >= 1
            BY <1>1, <2>3
          <5> QED BY <1>1, <1>2, <5>1, <5>2, <5>3
        <4>2. CASE toNode' = Tail(toNode)
          <5>1. n = Cardinality(StartsIn(Tail(toNode)))
            BY <3>2, <4>2 DEF sent
          <5>2. n + (IF Head(toNode) = "START" THEN 1 ELSE 0) <= sent
            BY <2>3, <5>1
          <5>3. b = begun \/ (b = begun + 1 /\ Head(toNode) = "START")
            BY <2>1, <3>2
          <5> QED BY <1>1, <1>2, <5>2, <5>3
        <4> QED BY <2>1, <4>1, <4>2
      <3>4. b + n + early <= starts
        BY <1>0, <1>1, <1>2, <3>3
      <3> QED BY <3>2, <3>4
    <2> QED BY <1>0, <1>8, <2>1, <2>2, <2>5
  <1> QED BY <1>4, <1>6, <1>7 DEF Next

\* Every step keeps the node from telling a status that it has not.
LEMMA ToldKept == Types /\ FutureTypes /\ ToldInv /\ [Next]_vars => ToldInv'
  <1> SUFFICES ASSUME Types, FutureTypes, ToldInv, [Next]_vars PROVE ToldInv'
    OBVIOUS
  <1> USE DEF Statuses, Nothing
  <1>1. /\ toClient \in Seq(Statuses) /\ pc \in [Callers -> Places] /\ nodeStatus \in Statuses \cup {Nothing}
        /\ startFuture \in Nat /\ completionFuture \in Nat
    BY DEF ToldInv, Types, FutureTypes, Told
  <1>2. NewFuture \in Nat \ {0}
    BY <1>1 DEF NewFuture
  <1>3. ASSUME NEW c \in Callers, StartCall(c) \/ SendStart(c) \/ MakeFutures(c) \/ WaitCall(c)
                                  \/ TerminateCall(c) \/ Return(c)
        PROVE  ToldInv'
    <2>1. /\ UNCHANGED <<nodeStatus, toClient, connected, serving, loaded, status, asleep, done>>
          /\ startFuture' \in {startFuture, NewFuture}
          /\ completionFuture' \in {completionFuture, NewFuture, NewFuture + 1}
      BY <1>3 DEF StartCall, SendStart, MakeFutures, NewFutures, WaitCall, TerminateCall, Return,
                  nodeVars, futureVars
    <2>2. PICK to \in Places : /\ pc' = [pc EXCEPT ![c] = to]
                               /\ to = "connecting" => loaded
      BY <1>3 DEF StartCall, SendStart, MakeFutures, WaitCall, TerminateCall, Return, Goes, Places
    <2>3. \A d \in Callers : pc'[d] = "connecting" => nodeStatus # Nothing
      BY <1>1, <2>2 DEF ToldInv
    <2>4. startFuture' # 0 /\ completionFuture' # 0
      BY <1>2, <2>1 DEF ToldInv
    <2> QED BY <2>1, <2>3, <2>4 DEF ToldInv
  <1>4. ASSUME NEW c \in Callers, LoadPipe(c) \/ LoadPipeFails(c) PROVE ToldInv'
    <2>1. /\ UNCHANGED <<toClient, connected, serving, status, asleep, done, startFuture, completionFuture>>
          /\ nodeStatus' # Nothing /\ loaded' \in {loaded, TRUE}
      BY <1>4 DEF LoadPipe, LoadPipeFails, futureVars
    <2> QED BY <2>1 DEF ToldInv
  <1>5. CASE Accept
    <2>1. nodeStatus \in Statuses
      BY <1>1, <1>5 DEF Accept, ToldInv
    <2>2. toClient' \in Seq(Statuses)
      BY <1>1, <1>5, <2>1, AppendFacts DEF Accept
    <2>3. /\ UNCHANGED <<nodeStatus, loaded, status, asleep, done, startFuture, completionFuture, pc>>
          /\ connected' = TRUE /\ serving' = TRUE
      BY <1>5 DEF Accept, futureVars, callVars
    <2> QED BY <2>2, <2>3 DEF ToldInv
  <1>6. CASE BabySitterEnds \/ LoopSleeps \/ LoopWakes \/ UNCHANGED vars
    <2>1. /\ UNCHANGED <<nodeStatus, toClient, connected, serving, loaded, status, done, startFuture,
                        completionFuture, pc>>
          /\ asleep' \in {asleep, TRUE, FALSE}
      BY <1>6 DEF BabySitterEnds, LoopSleeps, LoopWakes, nodeVars, futureVars, callVars, vars
    <2> QED BY <2>1 DEF ToldInv
  <1>7. CASE SetStatus
    <2>1. toClient' \in Seq(Statuses) /\ status' \in Statuses
      BY <1>1, <1>7, TailFacts DEF SetStatus
    <2> QED BY <1>7, <2>1 DEF SetStatus, ToldInv, futureVars, callVars
  <1>8. CASE SetResult
    BY <1>8 DEF SetResult, CompletedBy, ToldInv, nodeVars, callVars
  <1>9. CASE HandleStart \/ HandleTerminate \/ Complete
    <2>1. /\ UNCHANGED <<connected, loaded, status, asleep, done, startFuture, completionFuture, pc>>
          /\ serving' \in {serving, FALSE}
      BY <1>9 DEF HandleStart, HandleTerminate, Complete, NodeUnchanged, futureVars, callVars
    <2>2. /\ nodeStatus' \in {nodeStatus, "RUNNING", "COMPLETED"}
          /\ \/ toClient' = toClient
             \/ \E s \in Statuses : toClient' = Append(toClient, s)
      BY <1>9 DEF HandleStart, HandleTerminate, Complete, Report
    <2>3. toClient' \in Seq(Statuses)
      BY <1>1, <2>2, AppendFacts
    <2> QED BY <2>1, <2>2, <2>3 DEF ToldInv
  <1> QED BY <1>3, <1>4, <1>5, <1>6, <1>7, <1>8, <1>9 DEF Next, CallStep

\* Nobody has called yet at first.
LEMMA NumbersStart == Init => NumberInv /\ ToldInv
  <1> SUFFICES ASSUME Init PROVE NumberInv /\ ToldInv
    OBVIOUS
  <1> USE ConstantsAssumption DEF ConstantsAssumption
  <1>1. At(Unmade) = {} /\ At(Early) = {}
    BY DEF Init, At, Unmade, Early
  <1>2. StartsIn(toNode) = {}
    BY DEF Init, StartsIn
  <1>5. /\ IsFiniteSet(At(Unmade)) /\ Cardinality(At(Unmade)) = 0 /\ Cardinality(At(Early)) = 0
        /\ Cardinality(StartsIn(toNode)) = 0
    BY <1>1, <1>2, FS_EmptySet
  <1>6. /\ sitters = 0 /\ starts = 0 /\ begun = 0 /\ waits = 0 /\ lost = 0
        /\ startFuture = 1 /\ completionFuture = 2
    BY DEF Init
  <1>3. NumberInv
    BY <1>5, <1>6 DEF NumberInv
  <1>4. <<>> \in Seq(Statuses)
    OBVIOUS
  <1>7. ToldInv
    <2>1. toClient \in Seq(Statuses)
      BY <1>4 DEF Init
    <2>2. /\ connected = FALSE /\ serving = FALSE /\ loaded = FALSE /\ asleep = FALSE
          /\ status = "INIT" /\ startFuture = 1 /\ completionFuture = 2 /\ done = {}
          /\ \A c \in Callers : pc[c] = "idle"
      BY DEF Init
    <2>3. /\ connected \in BOOLEAN /\ serving \in BOOLEAN /\ loaded \in BOOLEAN /\ asleep \in BOOLEAN
          /\ ~loaded
      BY <2>2
    <2>4. /\ status \in Statuses \cup {"INIT"} /\ startFuture # 0 /\ completionFuture # 0
          /\ 0 \notin done /\ \A c \in Callers : pc[c] # "connecting"
      BY <2>2
    <2> QED BY <2>1, <2>3, <2>4 DEF ToldInv
  <1> QED BY <1>3, <1>7

\* The bounds of TypeOK follow from the counts.
LEMMA NumbersBound == Types /\ FutureTypes /\ NumberInv /\ ToldInv => TypeOK
  <1> SUFFICES ASSUME Types, FutureTypes, NumberInv, ToldInv PROVE TypeOK
    OBVIOUS
  <1> USE ConstantsAssumption DEF ConstantsAssumption
  <1>1. /\ Cardinality(At(Unmade)) \in Nat /\ Cardinality(At(Early)) \in Nat
        /\ Cardinality(StartsIn(toNode)) \in Nat
    <2>1. At(Early) \in SUBSET At(Unmade)
      BY DEF At, Early, Unmade
    <2>2. IsFiniteSet(At(Early))
      BY <2>1, FS_Subset DEF NumberInv
    <2>3. toNode \in Seq({"START", "TERMINATE"})
      BY DEF Types
    <2> QED BY <2>2, <2>3, FS_CardinalityType, StartsAre DEF NumberInv
  <1>2. /\ sitters \in Nat /\ starts \in Nat /\ begun \in Nat /\ waits \in Nat
        /\ startFuture \in Nat \ {0} /\ completionFuture \in Nat \ {0}
    BY DEF Types, FutureTypes, NumberInv, ToldInv
  <1>3. /\ sitters \in 0..MaxStarts /\ starts \in 0..MaxStarts /\ begun \in 0..starts
        /\ waits \in 0..MaxWaits /\ lost \in 0..MaxLost
    BY <1>1, <1>2 DEF NumberInv
  <1>4. \A f \in Nat : Made(f) => f \in Futures \cup {0}
    BY <1>1, <1>2 DEF Made, Futures, NumberInv
  <1>5. startFuture \in Futures /\ completionFuture \in Futures \ {startFuture}
    BY <1>2, <1>4 DEF Made, FutureTypes
  <1>6. done \subseteq Futures /\ waitsOn \in [Callers -> Futures \cup {0}]
    BY <1>4 DEF FutureTypes, ToldInv
  <1>7. /\ nodeStatus \in Statuses \cup {Nothing} /\ incoming \in {Nothing, "RUNNING", "COMPLETED"}
        /\ toNode \in Seq({"START", "TERMINATE"})
        /\ pc \in [Callers -> {"idle", "loading", "connecting", "sent", "starting", "waiting"}]
    BY DEF Types, Told, Places, FutureTypes
  <1> QED BY <1>3, <1>5, <1>6, <1>7 DEF TypeOK, ToldInv

\* Every variable stays within its type and its bound, for any number of callers
\* and calls: no call makes a baby sitter, a START or a future more than it may.
THEOREM TypeCorrect == Spec => []TypeOK
  <1> DEFINE Inv == IInv /\ FutureTypes /\ NumberInv /\ ToldInv
  <1>1. Init => Inv
    BY Initially, FuturesStart, NumbersStart
  <1>2. Inv /\ [Next]_vars => Inv'
    BY Invariance, FutureTypesKept, NumberKept, ToldKept DEF IInv
  <1>3. Inv => TypeOK
    BY NumbersBound DEF IInv
  <1> QED BY <1>1, <1>2, <1>3, PTL DEF Spec
=============================================================================
