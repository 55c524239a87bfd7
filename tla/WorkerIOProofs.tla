--------------------------- MODULE WorkerIOProofs ---------------------------
(***************************************************************************)
(* Theorems about WorkerIO, for every set of workers, every way to connect *)
(* them, every capacity and every bound.                                   *)
(***************************************************************************)
EXTENDS WorkerIO, SequenceTheorems, TLAPS

\* The execution id that the frames of a datum carry.
IdOf(d) == IF d.src \in Tagged THEN <<d.src, d.val>> ELSE NoId
TrueFrame == {f \in Frame : f.id = IdOf(f)}
Ids == {NoId} \cup (Tagged \X (1..MaxVal))

VarsInv ==
    /\ queue \in [Queues -> Seq(TrueFrame)]
    /\ pc \in [Workers -> {"idle", "get", "wait", "emit", "done"}]
    /\ pos \in [Workers -> Nat]
    /\ nextIndex \in [Workers -> Nat]
    /\ exeId \in [Workers -> Ids]
    /\ data \in [Workers -> [src : Workers, val : 1..MaxVal]]
    /\ lost \in 0..MaxLost
    /\ entered \in [Queues -> [Sources -> 0..MaxVal]]

CapInv == \A q \in Queues : Len(queue[q]) <= Cap[q]

\* Where a worker is in its loops.
PosInv ==
    \A w \in Workers :
        /\ pc[w] = "get" => w \notin Sources /\ pos[w] < Len(InQs[w])
        /\ pc[w] = "emit" => pos[w] \in 1..Len(Outs(w))
        /\ pc[w] = "wait" => pos[w] = 1 /\ OutQs[w] # <<>>
        /\ nextIndex[w] = 0 \/ nextIndex[w] < Len(InQs[w])

\* What a worker has in hand, and the id that goes with it.
DataInv ==
    \A w \in Workers :
        /\ w \in Sources => data[w].src = w /\ exeId[w] = NoId
        /\ w \notin Sources /\ pc[w] \in {"wait", "emit"}
               => data[w].src \in Sources /\ exeId[w] = IdOf(data[w])

IInv == VarsInv /\ CapInv /\ PosInv /\ DataInv

-----------------------------------------------------------------------------
LEMMA OutsType ==
    \A w \in Workers : Outs(w) \in Seq(Queues)
  BY QueuesAssumption DEF Outs

\* A call that begins finds at least one queue to turn to.
LEMMA SomeQueue ==
    \A w \in Workers :
        /\ w \in Sources => Len(Outs(w)) >= 1
        /\ w \notin Sources => Len(InQs[w]) >= 1
        /\ Outs(w) # <<>> => Len(Outs(w)) >= 1
        /\ OutQs[w] # <<>> => Len(Outs(w)) >= 1
  <1>1. \A s \in Seq(Queues) : s # <<>> => Len(s) >= 1
    BY EmptySeq, LenProperties
  <1>2. \A w \in Workers : InQs[w] \in Seq(Queues) /\ OutQs[w] \in Seq(Queues)
    BY QueuesAssumption
  <1>3. \A w \in Workers : (w \in Sources => Outs(w) # <<>>)
                             /\ (OutQs[w] # <<>> => Outs(w) # <<>>)
    BY TopologyAssumption DEF Outs
  <1>4. \A w \in Workers : w \notin Sources => InQs[w] # <<>>
    BY DEF Sources
  <1> QED BY <1>1, <1>2, <1>3, <1>4, OutsType

\* The frame a worker makes of what it has in hand is true.
LEMMA FramedTrue ==
    ASSUME IInv, NEW w \in Workers, pc[w] = "emit"
    PROVE  Framed(w) \in TrueFrame
  <1>1. data[w].src \in Sources /\ data[w].val \in 1..MaxVal /\ exeId[w] \in Ids
    BY DEF IInv, VarsInv, DataInv
  <1>2. w \in Tagged => w \in Sources /\ data[w].src = w
    BY TopologyAssumption DEF IInv, DataInv
  <1>3. (IF w \in Tagged THEN <<w, data[w].val>> ELSE exeId[w]) = IdOf(data[w])
    <2>1. CASE w \in Tagged
      BY <2>1, <1>2 DEF IdOf
    <2>2. CASE w \notin Tagged /\ w \in Sources
      BY <2>2 DEF IInv, DataInv, IdOf
    <2>3. CASE w \notin Sources
      BY <2>3, <1>2 DEF IInv, DataInv
    <2> QED BY <2>1, <2>2, <2>3
  <1>4. IdOf(data[w]) \in Ids
    BY <1>1 DEF IdOf, Ids
  <1> QED BY <1>1, <1>3, <1>4 DEF Framed, TrueFrame, Frame, Ids, IdOf

LEMMA Initially == Init => IInv
  <1> SUFFICES ASSUME Init PROVE IInv
    OBVIOUS
  <1>1. VarsInv
    BY BoundsAssumption DEF Init, VarsInv, Datum, Ids
  <1>2. CapInv /\ PosInv /\ DataInv
    BY BoundsAssumption DEF Init, CapInv, PosInv, DataInv, Datum
  <1> QED BY <1>1, <1>2 DEF IInv

\* Taking the first frame out of a queue does not fill any.
LEMMA TakingKeepsCap ==
    ASSUME CapInv, queue \in [Queues -> Seq(TrueFrame)], NEW q \in Queues,
           queue[q] # <<>>, queue' = [queue EXCEPT ![q] = Tail(queue[q])]
    PROVE  CapInv'
  <1>1. Len(Tail(queue[q])) = Len(queue[q]) - 1 /\ Len(queue[q]) \in Nat
    BY HeadTailProperties, LenProperties
  <1>2. Cap[q] \in Nat /\ Len(queue[q]) <= Cap[q]
    BY BoundsAssumption DEF CapInv
  <1>3. queue'[q] = Tail(queue[q]) /\ \A r \in Queues \ {q} : queue'[r] = queue[r]
    OBVIOUS
  <1>4. Len(queue'[q]) <= Cap[q]
    BY <1>1, <1>2, <1>3
  <1> QED BY <1>3, <1>4 DEF CapInv

-----------------------------------------------------------------------------
(* get *)

LEMMA GetCallKeeps ==
    ASSUME IInv, NEW w \in Workers, GetCall(w) PROVE IInv'
  <1> USE DEF IInv, GetCall, Goes, At
  <1>1. VarsInv' /\ CapInv'
    BY DEF VarsInv, CapInv
  <1>2. PosInv'
    <2>1. 0 < Len(InQs[w])
      BY SomeQueue, QueuesAssumption, LenProperties
    <2> QED BY <2>1 DEF VarsInv, PosInv
  <1>3. DataInv'
    BY DEF VarsInv, DataInv, IdOf
  <1> QED BY <1>1, <1>2, <1>3

LEMMA GetEmptyKeeps ==
    ASSUME IInv, NEW w \in Workers, GetEmpty(w) PROVE IInv'
  <1>1. /\ pc[w] = "get"
        /\ UNCHANGED <<queue, nextIndex, exeId, data, lost, entered>>
    BY DEF GetEmpty
  <1>2. \/ /\ pos[w] + 1 < Len(InQs[w])
           /\ pos' = [pos EXCEPT ![w] = pos[w] + 1] /\ pc' = pc
        \/ pos' = [pos EXCEPT ![w] = 1] /\ pc' = [pc EXCEPT ![w] = "idle"]
    BY DEF GetEmpty, Goes, At
  <1>3. VarsInv' /\ CapInv'
    <2>1. pc' \in [Workers -> {"idle", "get", "wait", "emit", "done"}]
      BY <1>2 DEF IInv, VarsInv
    <2>2. pos' \in [Workers -> Nat]
      <3>1. pos \in [Workers -> Nat] /\ pos[w] + 1 \in Nat
        BY DEF IInv, VarsInv
      <3>2. pos' = [pos EXCEPT ![w] = pos[w] + 1] \/ pos' = [pos EXCEPT ![w] = 1]
        BY <1>2
      <3> QED BY <3>1, <3>2
    <2> QED BY <1>1, <2>1, <2>2 DEF IInv, VarsInv, CapInv
  <1>4. PosInv'
    <2>1. pc'[w] = "get" => pc[w] = "get" /\ pos'[w] < Len(InQs[w])
      BY <1>1, <1>2 DEF IInv, VarsInv
    <2>2. pc'[w] \in {"get", "idle"}
      BY <1>1, <1>2 DEF IInv, VarsInv
    <2>3. \A v \in Workers \ {w} : pc'[v] = pc[v] /\ pos'[v] = pos[v]
      BY <1>2 DEF IInv, VarsInv
    <2> QED BY <1>1, <2>1, <2>2, <2>3 DEF IInv, PosInv
  <1>5. DataInv'
    BY <1>1, <1>2 DEF IInv, VarsInv, DataInv, IdOf
  <1> QED BY <1>3, <1>4, <1>5 DEF IInv

LEMMA ModInRange ==
    ASSUME NEW n \in Nat \ {0}, NEW i \in Nat
    PROVE  i % n \in 0..(n - 1)
  OBVIOUS

\* The index of get's scan stays among the queues.
LEMMA ScanInRange ==
    ASSUME IInv, NEW w \in Workers, pc[w] = "get"
    PROVE  /\ InQ(w) \in Queues
           /\ (nextIndex[w] + 1) % Len(InQs[w]) \in 0..(Len(InQs[w]) - 1)
  <1> DEFINE n == Len(InQs[w])
  <1>1. n \in Nat \ {0} /\ InQs[w] \in Seq(Queues)
    BY SomeQueue, QueuesAssumption, LenProperties DEF IInv, PosInv
  <1>2. nextIndex[w] + pos[w] \in Nat /\ nextIndex[w] + 1 \in Nat
    BY DEF IInv, VarsInv
  <1> HIDE DEF n
  <1>3. /\ (nextIndex[w] + pos[w]) % n \in 0..(n - 1)
        /\ (nextIndex[w] + 1) % n \in 0..(n - 1)
    BY <1>1, <1>2, ModInRange
  <1>4. ((nextIndex[w] + pos[w]) % n) + 1 \in 1..n
    BY <1>1, <1>3
  <1> QED BY <1>1, <1>3, <1>4, ElementOfSeq DEF InQ, n

LEMMA GetFrameKeeps ==
    ASSUME IInv, NEW w \in Workers, GetFrame(w) PROVE IInv'
  <1> DEFINE q == InQ(w)
             f == Head(queue[q])
  <1>1. pc[w] = "get" /\ q \in Queues /\ queue[q] \in Seq(TrueFrame) /\ queue[q] # <<>>
    BY ScanInRange DEF IInv, VarsInv, GetFrame
  <1>2. f \in TrueFrame /\ Tail(queue[q]) \in Seq(TrueFrame)
        /\ Len(Tail(queue[q])) = Len(queue[q]) - 1
    BY <1>1, HeadTailProperties
  <1>3. f.src \in Sources /\ f.val \in 1..MaxVal /\ f.id \in Ids /\ f.id = IdOf(f)
    BY <1>2 DEF TrueFrame, Frame, Ids
  <1>4. /\ queue' = [queue EXCEPT ![q] = Tail(@)]
        /\ exeId' = [exeId EXCEPT ![w] = f.id]
        /\ nextIndex' = [nextIndex EXCEPT ![w] = (@ + 1) % Len(InQs[w])]
        /\ pos' = [pos EXCEPT ![w] = 1]
        /\ UNCHANGED <<lost, entered>>
    BY DEF GetFrame, FrameId, AdvanceIndex, At
  <1>5. \/ Outs(w) = <<>> /\ pc' = [pc EXCEPT ![w] = "idle"] /\ data' = data
        \/ /\ Outs(w) # <<>>
           /\ pc' = [pc EXCEPT ![w] = IF w \in Syncs THEN "wait" ELSE "emit"]
           /\ data' = [data EXCEPT ![w] = Datum(f.src, f.val)]
    BY DEF GetFrame, Goes
  <1>6. w \notin Sources
    BY <1>1 DEF IInv, PosInv
  <1>7. Datum(f.src, f.val) \in [src : Workers, val : 1..MaxVal]
        /\ IdOf(Datum(f.src, f.val)) = IdOf(f) /\ Datum(f.src, f.val).src = f.src
    BY <1>3 DEF Datum, Sources, IdOf
  <1>8. VarsInv'
    <2>1. queue' \in [Queues -> Seq(TrueFrame)]
      BY <1>1, <1>2, <1>4 DEF IInv, VarsInv
    <2>2. exeId' \in [Workers -> Ids] /\ pos' \in [Workers -> Nat]
      BY <1>3, <1>4 DEF IInv, VarsInv
    <2>3. nextIndex' \in [Workers -> Nat]
      BY <1>1, <1>4, ScanInRange DEF IInv, VarsInv
    <2>4. pc' \in [Workers -> {"idle", "get", "wait", "emit", "done"}]
      BY <1>5 DEF IInv, VarsInv
    <2>5. data' \in [Workers -> [src : Workers, val : 1..MaxVal]]
      BY <1>5, <1>7 DEF IInv, VarsInv
    <2> QED BY <1>4, <2>1, <2>2, <2>3, <2>4, <2>5 DEF IInv, VarsInv
  <1>9. CapInv'
    BY <1>1, <1>2, <1>4, TakingKeepsCap DEF IInv, VarsInv
  <1>10. PosInv'
    <2>1. nextIndex'[w] < Len(InQs[w])
      <3>1. nextIndex'[w] = (nextIndex[w] + 1) % Len(InQs[w])
        BY <1>4 DEF IInv, VarsInv
      <3>2. Len(InQs[w]) \in Nat
        BY QueuesAssumption, LenProperties
      <3> QED BY <1>1, <3>1, <3>2, ScanInRange
    <2>2. pc'[w] \in {"idle", "wait", "emit"} /\ pos'[w] = 1
          /\ (pc'[w] = "emit" => Outs(w) # <<>>) /\ (pc'[w] = "wait" => w \in Syncs)
      BY <1>4, <1>5 DEF IInv, VarsInv
    <2>3. 1 \in 1..Len(Outs(w)) \/ Outs(w) = <<>>
      BY SomeQueue, OutsType, LenProperties
    <2>4. \A v \in Workers \ {w} : pc'[v] = pc[v] /\ pos'[v] = pos[v] /\ nextIndex'[v] = nextIndex[v]
      BY <1>4, <1>5 DEF IInv, VarsInv
    <2> QED BY <2>1, <2>2, <2>3, <2>4, TopologyAssumption DEF IInv, PosInv
  <1>11. DataInv'
    <2>1. pc'[w] \in {"wait", "emit"} => data'[w] = Datum(f.src, f.val) /\ exeId'[w] = f.id
      BY <1>4, <1>5 DEF IInv, VarsInv
    <2>2. \A v \in Workers \ {w} : pc'[v] = pc[v] /\ data'[v] = data[v] /\ exeId'[v] = exeId[v]
      BY <1>4, <1>5 DEF IInv, VarsInv
    <2> QED BY <1>3, <1>6, <1>7, <2>1, <2>2 DEF IInv, DataInv
  <1> QED BY <1>8, <1>9, <1>10, <1>11 DEF IInv

-----------------------------------------------------------------------------
(* emit *)

LEMMA EmitCallKeeps ==
    ASSUME IInv, NEW w \in Workers, EmitCall(w) PROVE IInv'
  <1>1. /\ pc[w] = "idle" /\ w \in Sources
        /\ pc' = [pc EXCEPT ![w] = IF w \in Syncs THEN "wait" ELSE "emit"]
        /\ pos' = [pos EXCEPT ![w] = 1]
        /\ UNCHANGED <<queue, nextIndex, exeId, data, lost, entered>>
    BY DEF EmitCall, Goes, At
  <1>2. VarsInv' /\ CapInv'
    BY <1>1 DEF IInv, VarsInv, CapInv
  <1>3. PosInv'
    <2>1. /\ pc'[w] \in {"wait", "emit"} /\ pos'[w] = 1
          /\ pc'[w] = "wait" => OutQs[w] # <<>>
      BY <1>1, TopologyAssumption DEF IInv, VarsInv
    <2>2. 1 \in 1..Len(Outs(w))
      BY <1>1, SomeQueue, OutsType, LenProperties
    <2>3. \A v \in Workers \ {w} : pc'[v] = pc[v] /\ pos'[v] = pos[v]
      BY <1>1 DEF IInv, VarsInv
    <2> QED BY <1>1, <2>1, <2>2, <2>3 DEF IInv, PosInv
  <1>4. DataInv'
    BY <1>1 DEF IInv, VarsInv, DataInv, IdOf
  <1> QED BY <1>2, <1>3, <1>4 DEF IInv

LEMMA EmitSyncGoesKeeps ==
    ASSUME IInv, NEW w \in Workers, EmitSyncGoes(w) PROVE IInv'
  <1>1. /\ pc[w] = "wait" /\ pc' = [pc EXCEPT ![w] = "emit"]
        /\ UNCHANGED <<queue, pos, nextIndex, exeId, data, lost, entered>>
    BY DEF EmitSyncGoes, Goes
  <1>2. VarsInv' /\ CapInv'
    BY <1>1 DEF IInv, VarsInv, CapInv
  <1>3. PosInv'
    <2>1. pc'[w] = "emit" /\ pos[w] = 1 /\ OutQs[w] # <<>>
      BY <1>1 DEF IInv, VarsInv, PosInv
    <2>2. 1 \in 1..Len(Outs(w))
      BY <2>1, SomeQueue, OutsType, LenProperties
    <2>3. \A v \in Workers \ {w} : pc'[v] = pc[v]
      BY <1>1 DEF IInv, VarsInv
    <2> QED BY <1>1, <2>1, <2>2, <2>3 DEF IInv, PosInv
  <1>4. DataInv'
    BY <1>1 DEF IInv, VarsInv, DataInv, IdOf
  <1> QED BY <1>2, <1>3, <1>4 DEF IInv

\* A frame that a queue accepts is a true one, and fits.
LEMMA EntersKeeps ==
    ASSUME IInv, NEW w \in Workers, pc[w] = "emit",
           NEW q, q = Outs(w)[pos[w]], Accepts(q), Enters(q, Framed(w))
    PROVE  /\ queue' \in [Queues -> Seq(TrueFrame)]
           /\ entered' \in [Queues -> [Sources -> 0..MaxVal]]
           /\ CapInv'
  <1> DEFINE f == Framed(w)
  <1>1. q \in Queues
    BY OutsType, ElementOfSeq DEF IInv, PosInv
  <1>2. f \in TrueFrame /\ f.src \in Sources /\ f.val \in 1..MaxVal
    BY FramedTrue DEF TrueFrame, Frame
  <1> HIDE DEF f
  <1>3. queue[q] \in Seq(TrueFrame) /\ Len(queue[q]) < Cap[q] /\ Cap[q] \in Nat
    BY <1>1, BoundsAssumption DEF IInv, VarsInv, Accepts
  <1>4. /\ Append(queue[q], f) \in Seq(TrueFrame)
        /\ Len(Append(queue[q], f)) = Len(queue[q]) + 1
        /\ Len(queue[q]) \in Nat
    BY <1>2, <1>3, AppendProperties, LenProperties
  <1>5. /\ queue' = [queue EXCEPT ![q] = Append(@, f)]
        /\ entered' = [entered EXCEPT ![q][f.src] = f.val]
    BY DEF Enters, f
  <1>6. queue' \in [Queues -> Seq(TrueFrame)]
    BY <1>1, <1>4, <1>5 DEF IInv, VarsInv
  <1>7. entered' \in [Queues -> [Sources -> 0..MaxVal]]
    BY <1>1, <1>2, <1>5 DEF IInv, VarsInv
  <1>8. CapInv'
    <2>1. queue'[q] = Append(queue[q], f) /\ \A r \in Queues \ {q} : queue'[r] = queue[r]
      BY <1>1, <1>5 DEF IInv, VarsInv
    <2>2. Len(queue'[q]) <= Cap[q]
      BY <1>3, <1>4, <2>1
    <2> QED BY <2>1, <2>2 DEF IInv, CapInv
  <1> QED BY <1>6, <1>7, <1>8

\* Whatever the queue answers, the worker is left where it can go on.
LEMMA AnswerKeeps ==
    ASSUME IInv, NEW w \in Workers, pc[w] = "emit",
           Added(w) \/ NotAdded(w), UNCHANGED <<nextIndex, exeId>>
    PROVE  /\ pc' \in [Workers -> {"idle", "get", "wait", "emit", "done"}]
           /\ pos' \in [Workers -> Nat]
           /\ data' \in [Workers -> [src : Workers, val : 1..MaxVal]]
           /\ PosInv' /\ DataInv'
  <1>1. /\ pos[w] \in 1..Len(Outs(w)) /\ Len(Outs(w)) \in Nat
        /\ data[w].val \in 1..MaxVal
    BY OutsType, LenProperties DEF IInv, VarsInv, PosInv
  <1>2. CASE pos' = [pos EXCEPT ![w] = pos[w] + 1] /\ pc' = pc /\ data' = data
             /\ pos[w] < Len(Outs(w))
    <2>1. pos' \in [Workers -> Nat]
      BY <1>1, <1>2 DEF IInv, VarsInv
    <2>2. pos'[w] \in 1..Len(Outs(w)) /\ \A v \in Workers \ {w} : pos'[v] = pos[v]
      BY <1>1, <1>2 DEF IInv, VarsInv
    <2>3. PosInv'
      BY <1>2, <2>2 DEF IInv, PosInv
    <2> QED BY <1>2, <2>1, <2>3 DEF IInv, VarsInv, DataInv, IdOf
  <1>3. CASE /\ pos' = [pos EXCEPT ![w] = 1] /\ data' = data
             /\ \/ pc' = [pc EXCEPT ![w] = IF w \in Syncs THEN "wait" ELSE "emit"]
                \/ pc' = [pc EXCEPT ![w] = "idle"]
                \/ pc' = [pc EXCEPT ![w] = "done"]
    <2>1. /\ pc' \in [Workers -> {"idle", "get", "wait", "emit", "done"}]
          /\ pos' \in [Workers -> Nat]
      BY <1>3 DEF IInv, VarsInv
    <2>2. /\ pc'[w] \in {"idle", "wait", "emit", "done"} /\ pos'[w] = 1
          /\ pc'[w] = "wait" => OutQs[w] # <<>>
          /\ \A v \in Workers \ {w} : pc'[v] = pc[v] /\ pos'[v] = pos[v]
      BY <1>3, TopologyAssumption DEF IInv, VarsInv
    <2>3. PosInv'
      BY <1>1, <2>2 DEF IInv, PosInv
    <2>4. DataInv'
      BY <1>3, <2>2 DEF IInv, DataInv, IdOf
    <2> QED BY <1>3, <2>1, <2>3, <2>4 DEF IInv, VarsInv
  <1>4. CASE /\ pos' = [pos EXCEPT ![w] = 1] /\ pc' = [pc EXCEPT ![w] = "idle"]
             /\ w \in Sources /\ data[w].val # MaxVal
             /\ data' = [data EXCEPT ![w] = Datum(w, data[w].val + 1)]
    <2>1. /\ pc' \in [Workers -> {"idle", "get", "wait", "emit", "done"}]
          /\ pos' \in [Workers -> Nat]
      BY <1>4 DEF IInv, VarsInv
    <2>2. Datum(w, data[w].val + 1) \in [src : Workers, val : 1..MaxVal]
      BY <1>1, <1>4, BoundsAssumption DEF Datum
    <2>3. data' \in [Workers -> [src : Workers, val : 1..MaxVal]]
      BY <1>4, <2>2 DEF IInv, VarsInv
    <2>4. /\ pc'[w] = "idle" /\ data'[w].src = w
          /\ \A v \in Workers \ {w} : pc'[v] = pc[v] /\ pos'[v] = pos[v] /\ data'[v] = data[v]
      BY <1>4 DEF IInv, VarsInv, Datum
    <2>5. PosInv'
      BY <2>4 DEF IInv, PosInv
    <2>6. DataInv'
      BY <1>4, <2>4 DEF IInv, DataInv, IdOf
    <2> QED BY <2>1, <2>3, <2>5, <2>6
  <1>5. CASE NotAdded(w)
    BY <1>3, <1>5 DEF NotAdded, Returns, Goes, At
  <1>6. CASE Added(w)
    BY <1>2, <1>3, <1>4, <1>6 DEF Added, Returns, Goes, At
  <1> QED BY <1>5, <1>6

LEMMA EmitAcceptedKeeps ==
    ASSUME IInv, NEW w \in Workers, EmitAccepted(w) PROVE IInv'
  <1>1. /\ pc[w] = "emit" /\ Added(w) /\ UNCHANGED <<nextIndex, exeId, lost>>
        /\ Accepts(Outs(w)[pos[w]]) /\ Enters(Outs(w)[pos[w]], Framed(w))
    BY DEF EmitAccepted
  <1> QED BY <1>1, EntersKeeps, AnswerKeeps DEF IInv, VarsInv

LEMMA EmitRefusedKeeps ==
    ASSUME IInv, NEW w \in Workers, EmitRefused(w) PROVE IInv'
  <1>1. /\ pc[w] = "emit" /\ NotAdded(w)
        /\ UNCHANGED <<queue, nextIndex, exeId, lost, entered>>
    BY DEF EmitRefused
  <1> QED BY <1>1, AnswerKeeps DEF IInv, VarsInv, CapInv

LEMMA EmitLostKeeps ==
    ASSUME IInv, NEW w \in Workers, EmitLost(w) PROVE IInv'
  <1> DEFINE q == Outs(w)[pos[w]]
  <1>1. /\ pc[w] = "emit" /\ NotAdded(w) /\ UNCHANGED <<nextIndex, exeId>>
        /\ lost < MaxLost /\ lost' = lost + 1
        /\ UNCHANGED <<queue, entered>> \/ (Accepts(q) /\ Enters(q, Framed(w)))
    BY DEF EmitLost
  <1>2. lost' \in 0..MaxLost
    BY <1>1, BoundsAssumption DEF IInv, VarsInv
  <1>3. /\ queue' \in [Queues -> Seq(TrueFrame)]
        /\ entered' \in [Queues -> [Sources -> 0..MaxVal]]
        /\ CapInv'
    BY <1>1, EntersKeeps DEF IInv, VarsInv, CapInv
  <1> QED BY <1>1, <1>2, <1>3, AnswerKeeps DEF IInv, VarsInv

LEMMA SinkGetKeeps ==
    ASSUME IInv, NEW q \in Queues, SinkGet(q) PROVE IInv'
  <1>1. /\ queue[q] \in Seq(TrueFrame) /\ queue[q] # <<>>
        /\ queue' = [queue EXCEPT ![q] = Tail(queue[q])]
        /\ UNCHANGED <<workVars, lost, entered>>
    BY DEF IInv, VarsInv, SinkGet
  <1>2. /\ Tail(queue[q]) \in Seq(TrueFrame)
        /\ Len(Tail(queue[q])) = Len(queue[q]) - 1
    BY <1>1, HeadTailProperties
  <1>3. VarsInv'
    BY <1>1, <1>2 DEF IInv, VarsInv, workVars
  <1>4. CapInv'
    BY <1>1, <1>2, TakingKeepsCap DEF IInv, VarsInv
  <1>5. PosInv' /\ DataInv'
    BY <1>1 DEF IInv, PosInv, DataInv, workVars, IdOf
  <1> QED BY <1>3, <1>4, <1>5 DEF IInv

\* The inductive invariant: types, capacities, loop positions and ids.
THEOREM Invariance == Spec => []IInv
  <1>1. IInv /\ [Next]_vars => IInv'
    <2> SUFFICES ASSUME IInv, [Next]_vars PROVE IInv'
      OBVIOUS
    <2>1. CASE UNCHANGED vars \/ SinkReturns
      <3>1. UNCHANGED <<queue, pc, pos, nextIndex, exeId, data, lost, entered>>
        BY <2>1 DEF vars, workVars, SinkReturns
      <3>2. VarsInv' /\ CapInv'
        BY <3>1 DEF IInv, VarsInv, CapInv
      <3>3. PosInv' /\ DataInv'
        BY <3>1 DEF IInv, PosInv, DataInv, IdOf
      <3> QED BY <3>2, <3>3 DEF IInv
    <2>2. CASE \E w \in Workers : Step(w)
      BY <2>2, GetCallKeeps, GetFrameKeeps, GetEmptyKeeps, EmitCallKeeps,
         EmitSyncGoesKeeps, EmitAcceptedKeeps, EmitRefusedKeeps, EmitLostKeeps DEF Step
    <2>3. CASE \E q \in Queues : SinkGet(q)
      BY <2>3, SinkGetKeeps
    <2> QED BY <2>1, <2>2, <2>3 DEF Next
  <1> QED BY <1>1, Initially, PTL DEF Spec

\* The client awaits frames of the Pipe alone.
ClientInv == /\ awaited \subseteq Tagged \X (1..MaxVal)
             /\ reader \in {"up", "raised", "returned"}

LEMMA RegistersKeeps ==
    ASSUME IInv, ClientInv, NEW w \in Workers, Registers(w)
    PROVE  awaited' \subseteq Tagged \X (1..MaxVal)
  <1>1. data[w].val \in 1..MaxVal
    BY DEF IInv, VarsInv
  <1> QED BY <1>1 DEF ClientInv, Registers

LEMMA ClientKept == ASSUME IInv, ClientInv, [Next]_vars PROVE ClientInv'
  <1>1. ASSUME NEW w \in Workers, Step(w) PROVE ClientInv'
    <2>1. reader' = reader
      BY <1>1 DEF Step, GetCall, GetFrame, GetEmpty, EmitCall, EmitSyncGoes, EmitAccepted,
         EmitRefused, EmitLost, clientVars
    <2>2. awaited' = awaited \/ Registers(w)
      BY <1>1 DEF Step, GetCall, GetFrame, GetEmpty, EmitCall, EmitSyncGoes, EmitAccepted,
         EmitRefused, EmitLost, Added, NotAdded, Returns, clientVars
    <2> QED BY <2>1, <2>2, RegistersKeeps DEF ClientInv
  <1>2. ASSUME NEW q \in Queues, SinkGet(q) PROVE ClientInv'
    <2>1. /\ awaited' = awaited \ {Head(queue[q]).id}
          /\ reader' \in {"up", "raised"}
      BY <1>2 DEF SinkGet
    <2> QED BY <2>1 DEF ClientInv
  <1>3. CASE SinkReturns
    BY <1>3 DEF SinkReturns, ClientInv
  <1>4. CASE UNCHANGED vars
    BY <1>4 DEF vars, clientVars, ClientInv
  <1> QED BY <1>1, <1>2, <1>3, <1>4 DEF Next

LEMMA ClientTyped == Spec => []ClientInv
  <1>1. Init => ClientInv
    BY DEF Init, ClientInv
  <1>2. IInv /\ ClientInv /\ [Next]_vars => ClientInv'
    BY ClientKept
  <1> QED BY <1>1, <1>2, Invariance, PTL DEF Spec

\* The variables of WorkerIO keep their types: no queue takes more than put
\* allows, and get and emit turn to queues that their worker has.
THEOREM TypeCorrect == Spec => []TypeOK
  <1>1. IInv /\ ClientInv => TypeOK
    <2> SUFFICES ASSUME IInv, ClientInv PROVE TypeOK
      OBVIOUS
    <2>1. \A q \in Queues : ToSet(queue[q]) \subseteq Frame
      <3> SUFFICES ASSUME NEW q \in Queues, NEW i \in DOMAIN queue[q]
                   PROVE  queue[q][i] \in Frame
        BY DEF ToSet
      <3>1. queue[q] \in Seq(TrueFrame)
        BY DEF IInv, VarsInv
      <3> QED BY <3>1, ElementOfSeq, LenProperties DEF TrueFrame
    <2>2. \A w \in Workers :
            /\ pc[w] = "get" => pos[w] \in 0..(Len(InQs[w]) - 1)
            /\ pc[w] = "emit" => pos[w] \in 1..Len(Outs(w))
            /\ nextIndex[w] = 0 \/ nextIndex[w] < Len(InQs[w])
            /\ data[w].val \in 1..MaxVal
      BY QueuesAssumption, LenProperties DEF IInv, VarsInv, PosInv
    <2> QED BY <2>1, <2>2 DEF IInv, VarsInv, CapInv, ClientInv, TypeOK, Ids
  <1> QED BY <1>1, Invariance, ClientTyped, PTL

\* A frame carries the execution id of the frame it was made from, however
\* frames with and without an id meet on their way (current_pipe_execution_id).
THEOREM IdsCorrect == Spec => []IdsMatch
  <1>1. IInv => IdsMatch
    <2> SUFFICES ASSUME IInv, NEW q \in Queues, NEW i \in DOMAIN queue[q]
                 PROVE  queue[q][i].id = IdOf(queue[q][i])
      BY DEF IdsMatch, ToSet, IdOf
    <2>1. queue[q] \in Seq(TrueFrame)
      BY DEF IInv, VarsInv
    <2> QED BY <2>1, ElementOfSeq, LenProperties DEF TrueFrame
  <1> QED BY <1>1, Invariance, PTL

-----------------------------------------------------------------------------
(* What a source emits to its own queues. *)

\* The queues before the one that emit turns to have the value in hand; those
\* after it may have it from an attempt that was refused.
InStep(s, k, p, v, e) ==
    /\ p = "emit" /\ k < pos[s] => e = v
    /\ p # "done" => e \in {v - 1, v}
    /\ p # "done" /\ FeedsAlone(s, OutQs[s][k]) => e = v - 1

PaceInv ==
    \A s \in Sources : \A k \in 1..Len(OutQs[s]) :
        InStep(s, k, pc[s], data[s].val, entered[OutQs[s][k]][s])

\* What a source emits goes into its out queues, if it has some.
LEMMA SourceOuts ==
    ASSUME NEW s \in Sources, OutQs[s] # <<>>
    PROVE  Outs(s) = OutQs[s] /\ s \in Workers /\ OutQs[s] \in Seq(Queues)
  BY QueuesAssumption DEF Outs, Sources

\* Only the source itself puts its frames into its queues.
LEMMA OwnFrames ==
    ASSUME IInv, NEW s \in Sources, NEW k \in 1..Len(OutQs[s]),
           NEW w \in Workers, pc[w] = "emit", w # s,
           Enters(Outs(w)[pos[w]], Framed(w))
    PROVE  entered'[OutQs[s][k]][s] = entered[OutQs[s][k]][s]
           /\ (OutQs[s][k] = Outs(w)[pos[w]] => Framed(w).src # s)
  <1> DEFINE q == OutQs[s][k]
             r == Outs(w)[pos[w]]
  <1>1. /\ entered' = [entered EXCEPT ![r][Framed(w).src] = Framed(w).val]
        /\ Framed(w).src = data[w].src
    BY DEF Enters, Framed
  <1>2. q \in Queues /\ q \in ToSet(OutQs[s])
    BY QueuesAssumption, ElementOfSeq, LenProperties DEF ToSet, Sources
  <1>3. r \in ToSet(Outs(w)) /\ r \in Queues
    BY OutsType, ElementOfSeq, LenProperties DEF IInv, PosInv, ToSet
  <1>4. CASE w \in Sources
    <2>1. data[w].src # s
      BY <1>4 DEF IInv, DataInv
    <2> QED BY <1>1, <1>2, <1>3, <2>1 DEF IInv, VarsInv
  <1>5. CASE w \notin Sources
    <2>1. q # r
      BY <1>2, <1>3, <1>5, FeedersAssumption
    <2> QED BY <1>1, <1>2, <1>3, <2>1 DEF IInv, VarsInv
  <1> QED BY <1>4, <1>5

\* A step that is not the source's own leaves all of this alone.
LEMMA OthersKeepPace ==
    ASSUME IInv, NEW s \in Sources, NEW k \in 1..Len(OutQs[s]),
           \/ UNCHANGED vars \/ SinkReturns
           \/ \E q \in Queues : SinkGet(q)
           \/ \E w \in Workers \ {s} : Step(w)
    PROVE  /\ pc'[s] = pc[s] /\ pos'[s] = pos[s] /\ data'[s] = data[s]
           /\ entered'[OutQs[s][k]][s] = entered[OutQs[s][k]][s]
  <1>1. CASE UNCHANGED vars \/ SinkReturns \/ \E q \in Queues : SinkGet(q)
    BY <1>1 DEF vars, workVars, SinkGet, SinkReturns
  <1>2. ASSUME NEW w \in Workers \ {s}, Step(w)
        PROVE  pc'[s] = pc[s] /\ pos'[s] = pos[s] /\ data'[s] = data[s]
    <2>1. \/ pc' = pc
          \/ \E to \in {"idle", "get", "wait", "emit", "done"} : Goes(w, to)
      BY <1>2 DEF Step, GetCall, GetFrame, GetEmpty, EmitCall, EmitSyncGoes,
                 EmitAccepted, EmitRefused, EmitLost, Added, NotAdded, Returns
    <2>2. pos' = pos \/ \E n : At(w, n)
      BY <1>2 DEF Step, GetCall, GetFrame, GetEmpty, EmitCall, EmitSyncGoes,
                 EmitAccepted, EmitRefused, EmitLost, Added, NotAdded
    <2>3. data' = data \/ \E d : data' = [data EXCEPT ![w] = d]
      BY <1>2 DEF Step, GetCall, GetFrame, GetEmpty, EmitCall, EmitSyncGoes,
                 EmitAccepted, EmitRefused, EmitLost, Added, NotAdded, Returns
    <2>4. s # w /\ s \in Workers
      BY DEF Sources
    <2>5. pc'[s] = pc[s]
      BY <2>1, <2>4 DEF Goes, IInv, VarsInv
    <2>6. pos'[s] = pos[s]
      BY <2>2, <2>4 DEF At, IInv, VarsInv
    <2>7. data'[s] = data[s]
      BY <2>3, <2>4 DEF IInv, VarsInv
    <2> QED BY <2>5, <2>6, <2>7
  <1>3. ASSUME NEW w \in Workers \ {s}, Step(w)
        PROVE  entered'[OutQs[s][k]][s] = entered[OutQs[s][k]][s]
    <2>1. CASE entered' = entered
      BY <2>1
    <2>2. CASE pc[w] = "emit" /\ Enters(Outs(w)[pos[w]], Framed(w))
      BY <2>2, OwnFrames
    <2> QED BY <1>3, <2>1, <2>2 DEF Step, GetCall, GetFrame, GetEmpty, EmitCall,
               EmitSyncGoes, EmitAccepted, EmitRefused, EmitLost
  <1> QED BY <1>1, <1>2, <1>3

\* After a source has emitted to one queue, that queue has its value, and the
\* others have what they had.
LEMMA OwnEnters ==
    ASSUME IInv, NEW s \in Sources, NEW k \in 1..Len(OutQs[s]), pc[s] = "emit",
           Enters(Outs(s)[pos[s]], Framed(s))
    PROVE  entered'[OutQs[s][k]][s] = IF k = pos[s] THEN data[s].val
                                                    ELSE entered[OutQs[s][k]][s]
  <1>1. OutQs[s] # <<>> /\ OutQs[s] \in Seq(Queues) /\ s \in Workers
    BY QueuesAssumption, EmptySeq DEF Sources
  <1>2. Outs(s) = OutQs[s] /\ pos[s] \in 1..Len(OutQs[s])
    BY <1>1, SourceOuts DEF IInv, PosInv
  <1>3. /\ entered' = [entered EXCEPT ![Outs(s)[pos[s]]][Framed(s).src] = Framed(s).val]
        /\ Framed(s).src = s /\ Framed(s).val = data[s].val
    BY <1>1 DEF Enters, Framed, IInv, DataInv
  <1>4. OutQs[s][k] \in Queues /\ OutQs[s][pos[s]] \in Queues
    BY <1>1, <1>2, ElementOfSeq
  <1>5. k # pos[s] => OutQs[s][k] # OutQs[s][pos[s]]
    BY <1>1, <1>2, TopologyAssumption, LenProperties DEF IsInjective
  <1> QED BY <1>2, <1>3, <1>4, <1>5 DEF IInv, VarsInv

\* A step of the source itself keeps each of its queues in pace.
LEMMA OwnStepsKeepPace ==
    ASSUME IInv, PaceInv, NEW s \in Sources, NEW k \in 1..Len(OutQs[s]), Step(s)
    PROVE  InStep(s, k, pc[s], data[s].val, entered[OutQs[s][k]][s])'
  <1> DEFINE e == entered[OutQs[s][k]][s]
             v == data[s].val
  <1>1. /\ s \in Workers /\ OutQs[s] \in Seq(Queues) /\ Len(OutQs[s]) \in Nat
        /\ Outs(s) = OutQs[s] /\ OutQs[s][k] \in Queues
    BY QueuesAssumption, EmptySeq, LenProperties, ElementOfSeq, SourceOuts DEF Sources
  <1>2. e \in Nat /\ v \in Nat /\ v >= 1 /\ pos[s] \in Nat
    BY <1>1 DEF IInv, VarsInv
  <1>3. InStep(s, k, pc[s], v, e)
    BY DEF PaceInv
  <1>4. pc[s] = "emit" => pos[s] \in 1..Len(OutQs[s])
    BY <1>1 DEF IInv, PosInv
  <1>5. ASSUME FeedsAlone(s, OutQs[s][k])
        PROVE  /\ Len(OutQs[s]) = 1 /\ OutQs[s][k] \notin Remote
               /\ k = 1 /\ (pc[s] = "emit" => pos[s] = 1)
    <2>1. Len(OutQs[s]) = 1 /\ OutQs[s][k] \notin Remote
      BY <1>5, <1>1 DEF FeedsAlone
    <2>2. k \in 1..1
      BY <2>1
    <2>3. pc[s] = "emit" => pos[s] \in 1..1
      BY <2>1, <1>4, Zenon
    <2>4. \A n \in 1..1 : n = 1
      OBVIOUS
    <2> QED BY <2>1, <2>2, <2>3, <2>4, Zenon
  <1>6. CASE EmitCall(s) \/ EmitSyncGoes(s)
    <2>1. pc[s] \in {"idle", "wait"} /\ pos'[s] = 1 /\ e' = e /\ v' = v
      BY <1>1, <1>6 DEF EmitCall, EmitSyncGoes, At, IInv, VarsInv, PosInv
    <2> QED BY <1>2, <1>3, <2>1 DEF InStep
  <1>7. CASE pc[s] = "emit" /\ Added(s) /\ e' = IF k = pos[s] THEN v ELSE e
    <2>1. \/ pos'[s] = pos[s] + 1 /\ pc'[s] = "emit" /\ v' = v /\ pos[s] < Len(OutQs[s])
          \/ pos'[s] = 1 /\ pc'[s] = "done" /\ pos[s] = Len(OutQs[s])
          \/ pos'[s] = 1 /\ pc'[s] = "idle" /\ v' = v + 1 /\ pos[s] = Len(OutQs[s])
      <3>1. CASE pos[s] < Len(OutQs[s])
        BY <1>1, <1>7, <3>1 DEF Added, At, IInv, VarsInv
      <3>2. CASE ~(pos[s] < Len(OutQs[s]))
        <4>1. pos[s] = Len(OutQs[s]) /\ At(s, 1) /\ Returns(s, TRUE)
          <5>1. pos[s] = Len(OutQs[s])
            BY <1>1, <1>4, <1>7, <3>2
          <5>2. ~(pos[s] < Len(Outs(s)))
            BY <1>1, <3>2
          <5> QED BY <1>7, <5>1, <5>2, Zenon DEF Added
        <4>2. \/ Goes(s, "done")
              \/ Goes(s, "idle") /\ data' = [data EXCEPT ![s] = Datum(s, data[s].val + 1)]
          BY <4>1 DEF Returns
        <4>3. pos'[s] = 1
          BY <1>1, <4>1 DEF At, IInv, VarsInv
        <4>4. pc'[s] = "done" \/ (pc'[s] = "idle" /\ v' = v + 1)
          BY <1>1, <4>2 DEF Goes, Datum, IInv, VarsInv
        <4> QED BY <4>1, <4>3, <4>4
      <3> QED BY <3>1, <3>2
    <2>2. CASE k < pos[s]
      <3>1. e = v /\ e' = v
        BY <1>2, <1>3, <1>7, <2>2 DEF InStep
      <3>2. ~FeedsAlone(s, OutQs[s][k])
        BY <1>5, <1>7, <2>2
      <3> QED BY <1>2, <2>1, <3>1, <3>2 DEF InStep
    <2>3. CASE k = pos[s]
      <3>1. e' = v
        BY <1>7, <2>3
      <3>2. FeedsAlone(s, OutQs[s][k]) => ~(pos[s] < Len(OutQs[s]))
        <4>1. FeedsAlone(s, OutQs[s][k]) => Len(OutQs[s]) = 1 /\ pos[s] = 1
          BY <1>5, <1>7, Zenon
        <4>2. Len(OutQs[s]) = 1 /\ pos[s] = 1 => ~(pos[s] < Len(OutQs[s]))
          OBVIOUS
        <4> QED BY <4>1, <4>2, Zenon
      <3>3. CASE pc'[s] = "emit" /\ pos'[s] = pos[s] + 1 /\ v' = v
                 /\ pos[s] < Len(OutQs[s])
        <4>1. ~FeedsAlone(s, OutQs[s][k])
          BY <3>2, <3>3
        <4> QED BY <1>2, <3>1, <3>3, <4>1 DEF InStep
      <3>4. CASE pc'[s] = "done"
        BY <3>4 DEF InStep
      <3>5. CASE pc'[s] = "idle" /\ v' = v + 1
        BY <1>2, <3>1, <3>5 DEF InStep
      <3> QED BY <2>1, <3>3, <3>4, <3>5
    <2>4. CASE k > pos[s]
      <3>1. e' = e /\ e \in {v - 1, v} /\ pos[s] # Len(OutQs[s])
        BY <1>1, <1>2, <1>3, <1>7, <2>4 DEF InStep
      <3>2. ~FeedsAlone(s, OutQs[s][k])
        BY <1>5, <1>7, <2>4
      <3> QED BY <1>2, <2>1, <2>4, <3>1, <3>2 DEF InStep
    <2> QED BY <1>2, <2>2, <2>3, <2>4
  <1>8. CASE /\ pc[s] = "emit" /\ NotAdded(s)
             /\ e' = e \/ (OutQs[s][pos[s]] \in Remote /\ e' = IF k = pos[s] THEN v ELSE e)
    <2>1. pos'[s] = 1 /\ pc'[s] \in {"wait", "emit"} /\ v' = v
      BY <1>1, <1>8 DEF NotAdded, Returns, Goes, At, IInv, VarsInv
    <2>2. FeedsAlone(s, OutQs[s][k]) => e' = e
      BY <1>4, <1>5, <1>8
    <2> QED BY <1>2, <1>3, <1>8, <2>1, <2>2 DEF InStep
  <1>9. CASE EmitAccepted(s)
    BY <1>1, <1>7, <1>9, OwnEnters DEF EmitAccepted
  <1>10. CASE EmitRefused(s)
    BY <1>8, <1>10 DEF EmitRefused
  <1>11. CASE EmitLost(s)
    BY <1>1, <1>8, <1>11, OwnEnters DEF EmitLost
  <1>12. ~(GetCall(s) \/ GetFrame(s) \/ GetEmpty(s))
    BY <1>1 DEF GetCall, GetFrame, GetEmpty, IInv, PosInv
  <1> QED BY <1>6, <1>9, <1>10, <1>11, <1>12 DEF Step

\* A source's queues keep pace with it: before its first call, after every
\* refusal and after every success.
LEMMA PaceInvariance == Spec => []PaceInv
  <1>1. Init => PaceInv
    <2> SUFFICES ASSUME Init, NEW s \in Sources, NEW k \in 1..Len(OutQs[s])
                 PROVE  InStep(s, k, pc[s], data[s].val, entered[OutQs[s][k]][s])
      BY DEF PaceInv
    <2>1. s \in Workers /\ OutQs[s][k] \in Queues
      BY QueuesAssumption, ElementOfSeq DEF Sources
    <2>2. pc[s] = "idle" /\ data[s].val = 1 /\ entered[OutQs[s][k]][s] = 0
      BY <2>1 DEF Init, Datum
    <2> QED BY <2>2 DEF InStep
  <1>2. IInv /\ PaceInv /\ [Next]_vars => PaceInv'
    <2> SUFFICES ASSUME IInv, PaceInv, [Next]_vars,
                        NEW s \in Sources, NEW k \in 1..Len(OutQs[s])
                 PROVE  InStep(s, k, pc[s], data[s].val, entered[OutQs[s][k]][s])'
      BY DEF PaceInv
    <2>1. CASE Step(s)
      BY <2>1, OwnStepsKeepPace
    <2>2. CASE \/ UNCHANGED vars \/ SinkReturns
               \/ \E q \in Queues : SinkGet(q)
               \/ \E w \in Workers \ {s} : Step(w)
      <3>1. /\ pc'[s] = pc[s] /\ pos'[s] = pos[s] /\ data'[s] = data[s]
            /\ entered'[OutQs[s][k]][s] = entered[OutQs[s][k]][s]
        BY <2>2, OthersKeepPace
      <3>2. InStep(s, k, pc[s], data[s].val, entered[OutQs[s][k]][s])
        BY DEF PaceInv
      <3> QED BY <3>1, <3>2 DEF InStep
    <2> QED BY <2>1, <2>2 DEF Next
  <1> QED BY <1>1, <1>2, Invariance, PTL DEF Spec

\* A frame that arrives in a queue is one that a worker is emitting to it.
LEMMA ArrivalIsEmission ==
    ASSUME IInv, [Next]_vars, NEW q \in Queues, NEW f \in Frame, Arrives(q, f)
    PROVE  \E w \in Workers : /\ pc[w] = "emit" /\ Enters(Outs(w)[pos[w]], Framed(w))
                              /\ q = Outs(w)[pos[w]] /\ f = Framed(w)
  <1>1. queue[q] \in Seq(Frame)
    <2>1. queue[q] \in Seq(TrueFrame) /\ TrueFrame \subseteq Frame
      BY DEF IInv, VarsInv, TrueFrame
    <2> QED BY <2>1, SeqMonotonic
  <1>2. queue' # queue /\ Len(queue'[q]) = Len(queue[q]) + 1 /\ Len(queue[q]) \in Nat
    BY <1>1, AppendProperties, LenProperties DEF Arrives
  <1>3. ASSUME NEW r \in Queues, queue[r] # <<>>, queue' = [queue EXCEPT ![r] = Tail(@)]
        PROVE  FALSE
    <2>1. queue[r] \in Seq(TrueFrame)
      BY DEF IInv, VarsInv
    <2>2. Len(Tail(queue[r])) = Len(queue[r]) - 1 /\ Len(queue[r]) \in Nat
      BY <1>3, <2>1, HeadTailProperties, LenProperties
    <2>3. queue'[q] = IF q = r THEN Tail(queue[r]) ELSE queue[q]
      BY <1>1, <1>3 DEF IInv, VarsInv
    <2> QED BY <1>2, <2>2, <2>3
  <1>4. PICK w \in Workers : pc[w] = "emit" /\ Enters(Outs(w)[pos[w]], Framed(w))
    <2>1. ASSUME NEW w \in Workers, GetFrame(w)
          PROVE  FALSE
      <3>1. pc[w] = "get" /\ queue[InQ(w)] # <<>> /\ queue' = [queue EXCEPT ![InQ(w)] = Tail(@)]
        BY <2>1 DEF GetFrame
      <3> QED BY <1>3, <3>1, ScanInRange
    <2>2. ASSUME NEW r \in Queues, SinkGet(r)
          PROVE  FALSE
      BY <1>3, <2>2 DEF SinkGet
    <2>3. ASSUME NEW w \in Workers, GetCall(w) \/ GetEmpty(w) \/ EmitCall(w)
                                    \/ EmitSyncGoes(w) \/ EmitRefused(w)
          PROVE  FALSE
      BY <1>2, <2>3 DEF GetCall, GetEmpty, EmitCall, EmitSyncGoes, EmitRefused
    <2>4. ~UNCHANGED vars /\ ~SinkReturns
      BY <1>2 DEF vars, SinkReturns
    <2>5. PICK w \in Workers : EmitAccepted(w) \/ EmitLost(w)
      BY <2>1, <2>2, <2>3, <2>4 DEF Next, Step
    <2> QED BY <1>2, <2>5 DEF EmitAccepted, EmitLost
  <1> DEFINE r == Outs(w)[pos[w]]
  <1>5. r \in Queues /\ queue' = [queue EXCEPT ![r] = Append(@, Framed(w))]
    BY <1>4, OutsType, ElementOfSeq DEF IInv, PosInv, Enters
  <1>6. q = r
    <2>1. q # r => queue'[q] = queue[q]
      BY <1>1, <1>5 DEF IInv, VarsInv
    <2> QED BY <1>2, <2>1
  <1>7. f = Framed(w)
    <2>1. Append(queue[q], f) = Append(queue[q], Framed(w))
      BY <1>1, <1>5, <1>6 DEF Arrives, IInv, VarsInv
    <2>2. Framed(w) \in Frame
      BY <1>4, FramedTrue DEF TrueFrame
    <2> QED BY <1>1, <2>1, <2>2, AppendInjective
  <1> QED BY <1>4, <1>6, <1>7

\* In a queue of a source, a frame of that source is the one it is emitting.
LEMMA OwnArrival ==
    ASSUME IInv, [Next]_vars,
           NEW s \in Sources, NEW k \in 1..Len(OutQs[s]), NEW f \in Frame,
           Arrives(OutQs[s][k], f), f.src = s
    PROVE  pc[s] = "emit" /\ k = pos[s] /\ f.val = data[s].val
  <1>1. OutQs[s][k] \in Queues /\ s \in Workers /\ OutQs[s] \in Seq(Queues)
    BY QueuesAssumption, ElementOfSeq, LenProperties DEF Sources
  <1>2. PICK w \in Workers : /\ pc[w] = "emit" /\ Enters(Outs(w)[pos[w]], Framed(w))
                             /\ OutQs[s][k] = Outs(w)[pos[w]] /\ f = Framed(w)
    BY <1>1, ArrivalIsEmission
  <1>3. w = s
    BY <1>2, OwnFrames
  <1>4. OutQs[s][k] = OutQs[s][pos[s]] /\ pos[s] \in 1..Len(OutQs[s])
    <2>1. OutQs[s] # <<>>
      BY <1>1, EmptySeq
    <2> QED BY <1>2, <1>3, <2>1, SourceOuts DEF IInv, PosInv
  <1>5. k = pos[s]
    BY <1>1, <1>4, TopologyAssumption, LenProperties DEF IsInjective
  <1> QED BY <1>2, <1>3, <1>5 DEF Framed

\* A source with one local queue puts every frame into it once, in order,
\* whatever is refused and however often emit is called again.
THEOREM OnceFromSource == Spec => OnceAlone
  <1>1. IInv /\ PaceInv /\ [Next]_vars
          => \A s \in Sources, q \in Queues, f \in Frame :
               FeedsAlone(s, q) /\ Arrives(q, f) /\ f.src = s => f.val = entered[q][s] + 1
    <2> SUFFICES ASSUME IInv, PaceInv, [Next]_vars,
                        NEW s \in Sources, NEW q \in Queues, NEW f \in Frame,
                        FeedsAlone(s, q), Arrives(q, f), f.src = s
                 PROVE  f.val = entered[q][s] + 1
      OBVIOUS
    <2>1. 1 \in 1..Len(OutQs[s]) /\ OutQs[s][1] = q
      BY DEF FeedsAlone
    <2>2. pc[s] = "emit" /\ f.val = data[s].val
      BY <2>1, OwnArrival
    <2>3. entered[q][s] = data[s].val - 1
      BY <2>1, <2>2 DEF PaceInv, InStep
    <2>4. data[s].val \in Nat
      BY DEF IInv, VarsInv, Sources
    <2> QED BY <2>2, <2>3, <2>4
  <1> QED BY <1>1, Invariance, PaceInvariance, PTL DEF Spec, OnceAlone

\* NoneLeftOut for the queues a source emits to, local or remote, however many
\* they are: emit's stop at the first refusal and the loss of replies repeat
\* frames, but leave out none and put none in late.
SourcesLeaveNoneOut ==
    [][\A s \in Sources : \A k \in 1..Len(OutQs[s]) : \A f \in Frame :
          Arrives(OutQs[s][k], f) /\ f.src = s
              => f.val \in {entered[OutQs[s][k]][s], entered[OutQs[s][k]][s] + 1}]_vars

\* For every number of out queues: see SourcesLeaveNoneOut.
THEOREM NoneLeftOutBySources == Spec => SourcesLeaveNoneOut
  <1>1. IInv /\ PaceInv /\ [Next]_vars
          => \A s \in Sources : \A k \in 1..Len(OutQs[s]) : \A f \in Frame :
               Arrives(OutQs[s][k], f) /\ f.src = s
                  => f.val \in {entered[OutQs[s][k]][s], entered[OutQs[s][k]][s] + 1}
    <2> SUFFICES ASSUME IInv, PaceInv, [Next]_vars,
                        NEW s \in Sources, NEW k \in 1..Len(OutQs[s]), NEW f \in Frame,
                        Arrives(OutQs[s][k], f), f.src = s
                 PROVE  f.val \in {entered[OutQs[s][k]][s], entered[OutQs[s][k]][s] + 1}
      OBVIOUS
    <2>1. pc[s] = "emit" /\ f.val = data[s].val
      BY OwnArrival
    <2>2. entered[OutQs[s][k]][s] \in {data[s].val - 1, data[s].val}
      BY <2>1 DEF PaceInv, InStep
    <2>3. data[s].val \in Nat
      BY DEF IInv, VarsInv, Sources
    <2> QED BY <2>1, <2>2, <2>3
  <1> QED BY <1>1, Invariance, PaceInvariance, PTL DEF Spec, SourcesLeaveNoneOut

-----------------------------------------------------------------------------
(* The turns of the queues a worker gets from                              *)

\* A worker with several in queues is the only one to take frames from them: its
\* processor has one instance, and no client reads them.
ReadAlone ==
    \A w \in Workers : Len(InQs[w]) > 1 =>
        \A q \in ToSet(InQs[w]) :
            q \notin SinkQueues /\ \A v \in Workers \ {w} : q \notin ToSet(InQs[v])

\* How many queues a scan that begins now turns to before queue k.
Turn(w, k) == IF k - 1 >= nextIndex[w] THEN k - 1 - nextIndex[w]
                                       ELSE k - 1 - nextIndex[w] + Len(InQs[w])

\* A queue that has been passed over is not empty, and each time its turn has come
\* nearer; a queue that the scan has turned to already was empty then.
TurnOf(w, k) ==
    /\ passed[w][InQs[w][k]] \in Nat
    /\ passed[w][InQs[w][k]] + Turn(w, k) <= Len(InQs[w])
    /\ passed[w][InQs[w][k]] # 0 => Len(InQs[w]) > 1 /\ queue[InQs[w][k]] # <<>>
    /\ pc[w] = "get" /\ Turn(w, k) < pos[w] => passed[w][InQs[w][k]] = 0

TurnInv == DOMAIN passed = Workers /\ \A w \in Workers : \A k \in 1..Len(InQs[w]) : TurnOf(w, k)

\* Once around the queues.
LEMMA Around ==
    ASSUME NEW n \in Nat \ {0}, NEW i \in Nat, i < 2 * n
    PROVE  i % n = IF i < n THEN i ELSE i - n
  <1>1. CASE i < n
    BY <1>1
  <1>2. CASE i >= n
    <2>1. i - n \in 0..(n - 1)
      BY <1>2
    <2>2. i = n * 1 + (i - n)
      BY <2>1
    <2> QED BY <1>2, <2>1, <2>2
  <1> QED BY <1>1, <1>2

\* The queue of the scan is the one that has as many before it as the scan has made.
LEMMA ScanTurns ==
    ASSUME IInv, NEW w \in Workers, pc[w] = "get"
    PROVE  /\ Len(InQs[w]) \in Nat \ {0}
           /\ \E k \in 1..Len(InQs[w]) : InQ(w) = InQs[w][k] /\ Turn(w, k) = pos[w]
           /\ \A k \in 1..Len(InQs[w]) :
                 /\ Turn(w, k) \in 0..(Len(InQs[w]) - 1)
                 /\ (InQ(w) = InQs[w][k]) <=> (Turn(w, k) = pos[w])
           /\ (nextIndex[w] + 1) % Len(InQs[w]) =
                 IF nextIndex[w] + 1 < Len(InQs[w]) THEN nextIndex[w] + 1 ELSE 0
  <1> DEFINE n == Len(InQs[w])
             j == (nextIndex[w] + pos[w]) % n
  <1>1. n \in Nat \ {0} /\ InQs[w] \in Seq(Queues)
    BY SomeQueue, QueuesAssumption, LenProperties DEF IInv, PosInv
  <1>2. nextIndex[w] \in 0..(n - 1) /\ pos[w] \in 0..(n - 1)
    <2>1. /\ nextIndex[w] \in Nat /\ pos[w] \in Nat /\ pos[w] < n
          /\ (nextIndex[w] = 0 \/ nextIndex[w] < n)
      BY DEF IInv, VarsInv, PosInv
    <2> HIDE DEF n
    <2> QED BY <1>1, <2>1
  <1>3. InQ(w) = InQs[w][j + 1]
    BY DEF InQ
  <1>4. \A k \in 1..n : Turn(w, k) = IF k - 1 >= nextIndex[w] THEN k - 1 - nextIndex[w]
                                                            ELSE k - 1 - nextIndex[w] + n
    BY DEF Turn
  <1>5. \A k, m \in 1..n : InQs[w][k] = InQs[w][m] => k = m
    BY <1>1, TopologyAssumption, LenProperties DEF IsInjective
  <1> HIDE DEF n, j
  <1>6. j = IF nextIndex[w] + pos[w] < n THEN nextIndex[w] + pos[w] ELSE nextIndex[w] + pos[w] - n
    <2> DEFINE i == nextIndex[w] + pos[w]
    <2>1. i \in Nat /\ i < 2 * n
      BY <1>1, <1>2
    <2> HIDE DEF i
    <2>2. i % n = IF i < n THEN i ELSE i - n
      BY <1>1, <2>1, Around
    <2>3. j = i % n
      BY DEF i, j
    <2>4. i = nextIndex[w] + pos[w]
      BY DEF i
    <2> QED BY <1>1, <1>2, <2>1, <2>2, <2>3, <2>4
  <1>7. (nextIndex[w] + 1) % n = IF nextIndex[w] + 1 < n THEN nextIndex[w] + 1 ELSE 0
    <2> DEFINE i == nextIndex[w] + 1
    <2>1. i \in Nat /\ i <= n /\ i < 2 * n
      BY <1>1, <1>2
    <2> HIDE DEF i
    <2>2. i % n = IF i < n THEN i ELSE i - n
      BY <1>1, <2>1, Around
    <2>3. i % n = IF i < n THEN i ELSE 0
      BY <1>1, <2>1, <2>2
    <2> QED BY <2>3 DEF i
  <1>8. j + 1 \in 1..n
    BY <1>1, <1>2, <1>6
  <1>9. \A k \in 1..n : Turn(w, k) \in 0..(n - 1) /\ (k = j + 1 <=> Turn(w, k) = pos[w])
    <2> DEFINE c == nextIndex[w]
               p == pos[w]
    <2>1. c \in 0..(n - 1) /\ p \in 0..(n - 1) /\ j = IF c + p < n THEN c + p ELSE c + p - n
      BY <1>2, <1>6
    <2>2. \A k \in 1..n : Turn(w, k) = IF k - 1 >= c THEN k - 1 - c ELSE k - 1 - c + n
      BY <1>4
    <2> HIDE DEF c, p
    <2> SUFFICES ASSUME NEW k \in 1..n PROVE Turn(w, k) \in 0..(n - 1) /\ (k = j + 1 <=> Turn(w, k) = p)
      BY DEF p
    <2>3. CASE k - 1 >= c
      BY <1>1, <2>1, <2>2, <2>3
    <2>4. CASE k - 1 < c
      <3>1. Turn(w, k) = k - 1 - c + n
        BY <2>1, <2>2, <2>4
      <3> DEFINE t == Turn(w, k)
      <3> HIDE DEF t
      <3>2. t = k - 1 - c + n
        BY <3>1 DEF t
      <3>3. t \in 0..(n - 1)
        BY <1>1, <2>1, <2>4, <3>2
      <3>4. CASE c + p < n
        BY <1>1, <2>1, <2>4, <3>2, <3>3, <3>4 DEF t
      <3>5. CASE c + p >= n
        BY <1>1, <2>1, <2>4, <3>2, <3>3, <3>5 DEF t
      <3> QED BY <1>1, <2>1, <3>4, <3>5
    <2> QED BY <1>1, <2>1, <2>3, <2>4
  <1>10. \A k \in 1..n : InQ(w) = InQs[w][k] <=> k = j + 1
    BY <1>3, <1>5, <1>8
  <1> QED BY <1>1, <1>7, <1>8, <1>9, <1>10 DEF n

\* What leaves the in queues, the index and the scans alone keeps the turns.
LEMMA ScansApart ==
    ASSUME TurnInv, UNCHANGED <<nextIndex, passed>>,
           \A w \in Workers : pc'[w] = "get" => pc[w] = "get" /\ pos'[w] = pos[w],
           \A w \in Workers : Len(InQs[w]) > 1 =>
               \A k \in 1..Len(InQs[w]) : queue[InQs[w][k]] # <<>> => queue'[InQs[w][k]] # <<>>
    PROVE  TurnInv'
  <1> SUFFICES ASSUME NEW w \in Workers, NEW k \in 1..Len(InQs[w]) PROVE TurnOf(w, k)'
    BY DEF TurnInv
  <1>1. TurnOf(w, k) /\ Turn(w, k)' = Turn(w, k)
    BY DEF TurnInv, Turn
  <1> QED BY <1>1 DEF TurnOf

\* A queue that the scan finds empty has not been passed over.
LEMMA EmptyScanKeepsTurns ==
    ASSUME IInv, TurnInv, NEW w \in Workers, GetEmpty(w)
    PROVE  TurnInv'
  <1> SUFFICES ASSUME NEW v \in Workers, NEW k \in 1..Len(InQs[v]) PROVE TurnOf(v, k)'
    BY DEF TurnInv, GetEmpty
  <1>1. /\ pc[w] = "get" /\ queue[InQ(w)] = <<>> /\ UNCHANGED <<queue, nextIndex, passed>>
        /\ \/ pos' = [pos EXCEPT ![w] = pos[w] + 1] /\ pc' = pc
           \/ pc' = [pc EXCEPT ![w] = "idle"] /\ pos' = [pos EXCEPT ![w] = 1]
    BY DEF GetEmpty, Goes, At
  <1>2. TurnOf(v, k) /\ Turn(v, k)' = Turn(v, k)
    BY <1>1 DEF TurnInv, Turn
  <1>3. pc \in [Workers -> {"idle", "get", "wait", "emit", "done"}] /\ pos \in [Workers -> Nat]
    BY DEF IInv, VarsInv
  <1>4. CASE v # w
    BY <1>1, <1>2, <1>3, <1>4 DEF TurnOf
  <1>5. CASE v = w
    <2>1. /\ Turn(w, k) \in Nat
          /\ (InQ(w) = InQs[w][k]) <=> (Turn(w, k) = pos[w])
      BY <1>1, <1>5, ScanTurns
    <2>2. pc'[w] = "get" => pos'[w] = pos[w] + 1
      BY <1>1, <1>3
    <2>3. Turn(w, k) = pos[w] => passed[w][InQs[w][k]] = 0
      BY <1>1, <1>2, <1>5, <2>1 DEF TurnOf
    <2>4. pc'[w] = "get" /\ Turn(w, k) < pos'[w] => passed[w][InQs[w][k]] = 0
      BY <1>1, <1>2, <1>3, <1>5, <2>1, <2>2, <2>3 DEF TurnOf
    <2> QED BY <1>1, <1>2, <1>5, <2>4 DEF TurnOf
  <1> QED BY <1>4, <1>5

\* A queue that is passed over has its turn earlier in the next scan.
LEMMA TakingKeepsTurns ==
    ASSUME ReadAlone, IInv, TurnInv, NEW w \in Workers, GetFrame(w)
    PROVE  TurnInv'
  <1>1. /\ pc[w] = "get" /\ queue[InQ(w)] # <<>> /\ InQ(w) \in Queues
        /\ queue' = [queue EXCEPT ![InQ(w)] = Tail(queue[InQ(w)])]
        /\ nextIndex' = [nextIndex EXCEPT ![w] = (nextIndex[w] + 1) % Len(InQs[w])]
        /\ passed' = [passed EXCEPT ![w] = [q \in ToSet(InQs[w]) |->
                          IF q = InQ(w) \/ queue[q] = <<>> THEN 0 ELSE passed[w][q] + 1]]
    BY ScanInRange DEF GetFrame, AdvanceIndex, PassedOver
  <1>2. /\ pc \in [Workers -> {"idle", "get", "wait", "emit", "done"}] /\ pos \in [Workers -> Nat]
        /\ nextIndex \in [Workers -> Nat] /\ queue \in [Queues -> Seq(TrueFrame)]
    BY DEF IInv, VarsInv
  <1>3. pc'[w] # "get" /\ \A v \in Workers \ {w} : pc'[v] = pc[v] /\ pos'[v] = pos[v]
    BY <1>2 DEF GetFrame, Goes, At
  <1>4. DOMAIN passed' = Workers
    BY <1>1 DEF TurnInv
  <1> SUFFICES ASSUME NEW v \in Workers, NEW k \in 1..Len(InQs[v]) PROVE TurnOf(v, k)'
    BY <1>4 DEF TurnInv
  <1>5. TurnOf(v, k)
    BY DEF TurnInv
  <1>6. InQs[v] \in Seq(Queues) /\ InQs[v][k] \in Queues /\ InQs[v][k] \in ToSet(InQs[v])
        /\ Len(InQs[v]) \in Nat
    BY QueuesAssumption, LenProperties, ElementOfSeq DEF ToSet
  <1>7. CASE v # w
    <2>1. passed'[v] = passed[v] /\ nextIndex'[v] = nextIndex[v]
      BY <1>1, <1>2, <1>7 DEF TurnInv
    <2>2. Turn(v, k)' = Turn(v, k)
      BY <2>1 DEF Turn
    <2>3. Len(InQs[v]) > 1 => InQs[v][k] # InQ(w)
      <3>1. InQ(w) \in ToSet(InQs[w])
        <4>1. PICK m \in 1..Len(InQs[w]) : InQ(w) = InQs[w][m]
          BY <1>1, ScanTurns
        <4> QED BY <4>1, QueuesAssumption, LenProperties DEF ToSet
      <3> QED BY <1>6, <1>7, <3>1 DEF ReadAlone
    <2>4. Len(InQs[v]) > 1 => queue'[InQs[v][k]] = queue[InQs[v][k]]
      BY <1>1, <1>2, <1>6, <2>3
    <2>5. pc'[v] = pc[v] /\ pos'[v] = pos[v]
      BY <1>3, <1>7
    <2> QED BY <1>5, <2>1, <2>2, <2>4, <2>5 DEF TurnOf
  <1>8. CASE v = w
    <2> DEFINE n == Len(InQs[w])
               q == InQs[w][k]
               t == Turn(w, k)
    <2>1. /\ n \in Nat \ {0} /\ k \in 1..n /\ t \in 0..(n - 1)
          /\ q = InQ(w) <=> t = pos[w]
          /\ (nextIndex[w] + 1) % n = IF nextIndex[w] + 1 < n THEN nextIndex[w] + 1 ELSE 0
      BY <1>1, <1>8, ScanTurns
    <2>2. /\ passed[w][q] \in Nat /\ passed[w][q] + t <= n
          /\ passed[w][q] # 0 => n > 1 /\ queue[q] # <<>>
          /\ t < pos[w] => passed[w][q] = 0
      BY <1>1, <1>5, <1>8 DEF TurnOf
    <2>3. passed'[w][q] = IF q = InQ(w) \/ queue[q] = <<>> THEN 0 ELSE passed[w][q] + 1
      BY <1>1, <1>6, <1>8 DEF TurnInv
    <2>4. q # InQ(w) => queue'[q] = queue[q]
      BY <1>1, <1>2, <1>6, <1>8
    <2>5. nextIndex'[w] = (nextIndex[w] + 1) % n
      BY <1>1, <1>2
    <2>6. nextIndex[w] \in 0..(n - 1) /\ pos[w] \in 0..(n - 1)
      <3>1. /\ nextIndex[w] \in Nat /\ pos[w] \in Nat /\ pos[w] < n
            /\ (nextIndex[w] = 0 \/ nextIndex[w] < n)
        BY <1>1 DEF IInv, VarsInv, PosInv
      <3> HIDE DEF n
      <3> QED BY <2>1, <3>1
    <2> DEFINE t1 == IF k - 1 >= nextIndex'[w] THEN k - 1 - nextIndex'[w]
                                               ELSE k - 1 - nextIndex'[w] + n
    <2>7. Turn(w, k)' = t1
      BY DEF Turn
    <2>8. t = IF k - 1 >= nextIndex[w] THEN k - 1 - nextIndex[w] ELSE k - 1 - nextIndex[w] + n
      BY DEF Turn
    <2> HIDE DEF n, t
    <2>9. t1 = IF t = 0 THEN n - 1 ELSE t - 1
      <3> DEFINE c == nextIndex[w]
                 c1 == nextIndex'[w]
      <3>1. c \in 0..(n - 1) /\ c1 = IF c + 1 < n THEN c + 1 ELSE 0
        BY <2>1, <2>5, <2>6
      <3>2. t = IF k - 1 >= c THEN k - 1 - c ELSE k - 1 - c + n
        BY <2>8
      <3>3. t1 = IF k - 1 >= c1 THEN k - 1 - c1 ELSE k - 1 - c1 + n
        OBVIOUS
      <3>4. n \in Nat \ {0} /\ k \in 1..n
        BY <2>1
      <3> HIDE DEF c, c1, t1
      <3>5. CASE k - 1 >= c
        BY <3>1, <3>2, <3>3, <3>4, <3>5
      <3>6. CASE k - 1 < c
        BY <3>1, <3>2, <3>3, <3>4, <3>6
      <3> QED BY <3>1, <3>4, <3>5, <3>6
    <2> HIDE DEF q, t1
    <2>10. passed'[w][q] \in Nat /\ passed'[w][q] + t1 <= n
      <3>1. CASE q = InQ(w) \/ queue[q] = <<>>
        BY <2>1, <2>3, <2>9, <3>1
      <3>2. CASE q # InQ(w) /\ queue[q] # <<>> /\ t = 0
        <4>1. t < pos[w]
          BY <2>1, <2>6, <3>2
        <4>2. passed[w][q] = 0 /\ passed'[w][q] = 1
          <5>1. passed[w][q] = 0
            BY <2>2, <4>1
          <5>2. passed'[w][q] = passed[w][q] + 1
            BY <2>3, <3>2
          <5> QED BY <5>1, <5>2
        <4> QED BY <2>1, <2>9, <3>2, <4>2
      <3>3. CASE q # InQ(w) /\ queue[q] # <<>> /\ t # 0
        BY <2>1, <2>2, <2>3, <2>9, <3>3
      <3> QED BY <3>1, <3>2, <3>3
    <2>11. passed'[w][q] # 0 => n > 1 /\ queue'[q] # <<>>
      <3> SUFFICES ASSUME passed'[w][q] # 0 PROVE n > 1 /\ queue'[q] # <<>>
        OBVIOUS
      <3>1. q # InQ(w) /\ queue[q] # <<>>
        BY <2>3
      <3>2. t # pos[w]
        BY <2>1, <3>1
      <3> QED BY <2>1, <2>4, <2>6, <3>1, <3>2
    <2> QED BY <1>3, <1>8, <2>7, <2>10, <2>11 DEF TurnOf, n, q
  <1> QED BY <1>7, <1>8

\* What a put does to a queue leaves none empty that was not.
LEMMA PutsLeaveNoneEmpty ==
    ASSUME IInv, NEW q \in Queues, NEW f, queue' = queue \/ Enters(q, f)
    PROVE  \A r \in Queues : queue[r] # <<>> => queue'[r] # <<>>
  <1> SUFFICES ASSUME NEW r \in Queues, queue[r] # <<>> PROVE queue'[r] # <<>>
    OBVIOUS
  <1>1. queue'[r] = queue[r] \/ queue'[r] = Append(queue[r], f)
    BY DEF Enters, IInv, VarsInv
  <1>2. Append(queue[r], f) # <<>>
    OBVIOUS
  <1> QED BY <1>1, <1>2

\* Every step keeps the turns.
LEMMA TurnsKept == ReadAlone /\ IInv /\ TurnInv /\ [Next]_vars => TurnInv'
  <1> SUFFICES ASSUME ReadAlone, IInv, TurnInv, [Next]_vars PROVE TurnInv'
    OBVIOUS
  <1>0. /\ pc \in [Workers -> {"idle", "get", "wait", "emit", "done"}] /\ pos \in [Workers -> Nat]
        /\ queue \in [Queues -> Seq(TrueFrame)]
    BY DEF IInv, VarsInv
  <1>1. \A w \in Workers : \A k \in 1..Len(InQs[w]) : InQs[w][k] \in Queues /\ InQs[w][k] \in ToSet(InQs[w])
    BY QueuesAssumption, LenProperties, ElementOfSeq DEF ToSet
  <1>2. ASSUME NEW w \in Workers, GetCall(w) PROVE TurnInv'
    <2> SUFFICES ASSUME NEW v \in Workers, NEW k \in 1..Len(InQs[v]) PROVE TurnOf(v, k)'
      BY <1>2 DEF TurnInv, GetCall
    <2>1. /\ UNCHANGED <<queue, nextIndex, passed>> /\ pos' = [pos EXCEPT ![w] = 0]
          /\ pc' = [pc EXCEPT ![w] = "get"]
      BY <1>2 DEF GetCall, Goes, At
    <2>2. TurnOf(v, k) /\ Turn(v, k)' = Turn(v, k)
      BY <2>1 DEF TurnInv, Turn
    <2>3. v = w => ~(Turn(v, k) < pos'[v])
      <3>1. Turn(v, k) \in Nat
        <4>1. nextIndex[v] \in Nat /\ Len(InQs[v]) \in Nat
              /\ (nextIndex[v] = 0 \/ nextIndex[v] < Len(InQs[v]))
          BY QueuesAssumption, LenProperties DEF IInv, VarsInv, PosInv
        <4> QED BY <4>1 DEF Turn
      <3> QED BY <1>0, <2>1, <3>1
    <2>4. v # w => pc'[v] = pc[v] /\ pos'[v] = pos[v]
      BY <1>0, <2>1
    <2> QED BY <2>1, <2>2, <2>3, <2>4 DEF TurnOf
  <1>3. ASSUME NEW w \in Workers, EmitCall(w) \/ EmitSyncGoes(w) PROVE TurnInv'
    <2>1. /\ UNCHANGED <<queue, nextIndex, passed>>
          /\ \A v \in Workers : pc'[v] = "get" => pc[v] = "get" /\ pos'[v] = pos[v]
      BY <1>0, <1>3 DEF EmitCall, EmitSyncGoes, Goes, At
    <2> QED BY <2>1, ScansApart
  <1>4. ASSUME NEW w \in Workers, EmitAccepted(w) \/ EmitRefused(w) \/ EmitLost(w) PROVE TurnInv'
    <2>1. /\ pc[w] = "emit" /\ UNCHANGED <<nextIndex, passed>> /\ (Added(w) \/ NotAdded(w))
          /\ queue' = queue \/ Enters(Outs(w)[pos[w]], Framed(w))
      BY <1>4 DEF EmitAccepted, EmitRefused, EmitLost
    <2>2. Outs(w)[pos[w]] \in Queues
      BY <2>1, OutsType, ElementOfSeq DEF IInv, PosInv
    <2>3. \A r \in Queues : queue[r] # <<>> => queue'[r] # <<>>
      BY <2>1, <2>2, PutsLeaveNoneEmpty
    <2>4. \A v \in Workers : pc'[v] = "get" => pc[v] = "get" /\ pos'[v] = pos[v]
      BY <1>0, <2>1 DEF Added, NotAdded, Returns, Goes, At
    <2> QED BY <1>1, <2>1, <2>3, <2>4, ScansApart
  <1>5. ASSUME NEW q \in Queues, SinkGet(q) PROVE TurnInv'
    <2>1. /\ q \in SinkQueues /\ queue' = [queue EXCEPT ![q] = Tail(queue[q])]
          /\ UNCHANGED <<pc, pos, nextIndex, passed>>
      BY <1>5 DEF SinkGet, workVars
    <2>2. \A w \in Workers : Len(InQs[w]) > 1 =>
              \A k \in 1..Len(InQs[w]) : queue'[InQs[w][k]] = queue[InQs[w][k]]
      BY <1>0, <1>1, <2>1 DEF ReadAlone
    <2> QED BY <2>1, <2>2, ScansApart
  <1>6. CASE UNCHANGED vars \/ SinkReturns
    BY <1>6, ScansApart DEF vars, workVars, SinkReturns
  <1> QED BY <1>2, <1>3, <1>4, <1>5, <1>6, EmptyScanKeepsTurns, TakingKeepsTurns DEF Next, Step

\* At first none has been passed over.
LEMMA TurnsStart == Init => TurnInv
  <1> SUFFICES ASSUME Init PROVE TurnInv
    OBVIOUS
  <1>1. DOMAIN passed = Workers
    BY DEF Init
  <1> SUFFICES ASSUME NEW w \in Workers, NEW k \in 1..Len(InQs[w]) PROVE TurnOf(w, k)
    BY <1>1 DEF TurnInv
  <1>2. InQs[w][k] \in ToSet(InQs[w]) /\ Len(InQs[w]) \in Nat
    BY QueuesAssumption, LenProperties DEF ToSet
  <1>3. passed[w][InQs[w][k]] = 0 /\ Turn(w, k) = k - 1
    BY <1>2 DEF Init, Turn
  <1> QED BY <1>2, <1>3 DEF TurnOf

\* Where no two workers share them, a worker's in queues are served in turn: one
\* that holds a frame is passed over by get at most as often in a row as the
\* worker has queues, whatever arrives meanwhile (worker.py, get).
THEOREM ServedInTurn == ReadAlone => (Spec => []RoundRobin)
  <1> SUFFICES ASSUME ReadAlone PROVE Spec => []RoundRobin
    OBVIOUS
  <1>1. IInv /\ TurnInv /\ [Next]_vars => TurnInv'
    BY TurnsKept
  <1>2. IInv /\ TurnInv => RoundRobin
    <2> SUFFICES ASSUME IInv, TurnInv, NEW w \in Workers, NEW q \in ToSet(InQs[w])
                 PROVE  passed[w][q] <= Len(InQs[w])
      BY DEF RoundRobin
    <2>1. PICK k \in 1..Len(InQs[w]) : q = InQs[w][k]
      BY QueuesAssumption, LenProperties DEF ToSet
    <2>2. TurnOf(w, k)
      BY <2>1 DEF TurnInv
    <2>3. Turn(w, k) \in Nat /\ Len(InQs[w]) \in Nat
      <3>1. nextIndex[w] \in Nat /\ Len(InQs[w]) \in Nat
            /\ (nextIndex[w] = 0 \/ nextIndex[w] < Len(InQs[w]))
        BY QueuesAssumption, LenProperties DEF IInv, VarsInv, PosInv
      <3> QED BY <3>1 DEF Turn
    <2> QED BY <2>1, <2>2, <2>3 DEF TurnOf
  <1> QED BY <1>1, <1>2, Invariance, TurnsStart, PTL DEF Spec

-----------------------------------------------------------------------------
(* What workers pass on. *)

\* L gives the last value of source s before and after each frame of Q, from b to e.
Levels(Q, s, b, e, L) ==
    /\ L[0] = b /\ L[Len(Q)] = e
    /\ \A i \in 1..Len(Q) : IF Q[i].src = s
                            THEN L[i] = Q[i].val /\ L[i] \in {L[i - 1], L[i - 1] + 1}
                            ELSE L[i] = L[i - 1]

\* The frames of source s in Q go on from value b, without a gap, to value e.
Chained(Q, s, b, e) == \E L \in [0..Len(Q) -> 0..MaxVal] : Levels(Q, s, b, e, L)

Holds(w) == pc[w] \in {"wait", "emit"}

\* The last value of s that worker w has taken for its out queue k.
Base(w, s, k) ==
    IF Holds(w) /\ data[w].src = s THEN data[w].val ELSE entered[Outs(w)[k]][s]

\* What waits for w goes on where w has come to.
LinkInv(carried) ==
    \A w \in Workers \ Sources : \A q \in ToSet(InQs[w]) : \A s \in carried[q] :
        \A k \in 1..Len(Outs(w)) : Chained(queue[q], s, Base(w, s, k), entered[q][s])

\* Frames are where they are carried.
RouteInv(carried) ==
    /\ \A q \in Queues : \A i \in 1..Len(queue[q]) : queue[q][i].src \in carried[q]
    /\ \A w \in Workers : Holds(w) \/ w \in Sources => data[w].src \in Brings(carried, w)

\* An out queue has the value in hand, as have all before the one emit turns to,
\* or the value before.
InHand(k, p, i, v, e) == e \in {v - 1, v} /\ (p = "emit" /\ k < i => e = v)

Emitting(w) == Holds(w) \/ (w \in Sources /\ pc[w] # "done")

HandInv ==
    \A w \in Workers : \A k \in 1..Len(Outs(w)) : Emitting(w) =>
        InHand(k, pc[w], pos[w], data[w].val, entered[Outs(w)[k]][data[w].src])

WayInv(carried) == LinkInv(carried) /\ RouteInv(carried) /\ HandInv

-----------------------------------------------------------------------------
LEMMA ChainEmpty == ASSUME NEW s, NEW b \in 0..MaxVal PROVE Chained(<<>>, s, b, b)
  <1>1. PICK L : L = [i \in 0..0 |-> b]
    OBVIOUS
  <1>2. Len(<<>>) = 0
    OBVIOUS
  <1>3. L \in [0..0 -> 0..MaxVal] /\ L[0] = b
    BY <1>1
  <1>4. Levels(<<>>, s, b, b, L)
    BY <1>2, <1>3 DEF Levels
  <1> QED BY <1>2, <1>3, <1>4 DEF Chained

\* The next frame of s may repeat the last value or go on with the next.
LEMMA ChainAppend ==
    ASSUME NEW Q \in Seq(TrueFrame), NEW s, NEW b, NEW e, Chained(Q, s, b, e),
           NEW f \in TrueFrame, f.src = s => f.val \in {e, e + 1}
    PROVE  Chained(Append(Q, f), s, b, IF f.src = s THEN f.val ELSE e)
  <1> DEFINE n == Len(Q)
             t == IF f.src = s THEN f.val ELSE e
  <1>1. PICK L \in [0..n -> 0..MaxVal] : Levels(Q, s, b, e, L)
    BY DEF Chained
  <1>2. /\ n \in Nat /\ Len(Append(Q, f)) = n + 1 /\ Append(Q, f)[n + 1] = f
        /\ \A i \in 1..n : Append(Q, f)[i] = Q[i]
    BY AppendProperties, LenProperties
  <1>3. /\ L[0] = b /\ L[n] = e /\ e \in 0..MaxVal /\ f.val \in 0..MaxVal
        /\ \A i \in 1..n : IF Q[i].src = s
                           THEN L[i] = Q[i].val /\ L[i] \in {L[i - 1], L[i - 1] + 1}
                           ELSE L[i] = L[i - 1]
    <2>1. L[0] = b /\ L[n] = e
      BY <1>1 DEF Levels
    <2>2. n \in 0..n
      BY <1>2
    <2>3. f.val \in 1..MaxVal /\ MaxVal \in Nat
      BY BoundsAssumption DEF TrueFrame, Frame
    <2> QED BY <1>1, <2>1, <2>2, <2>3 DEF Levels
  <1>4. PICK M : M = [i \in 0..(n + 1) |-> IF i = n + 1 THEN t ELSE L[i]]
    OBVIOUS
  <1> HIDE DEF n
  <1>5. /\ M \in [0..(n + 1) -> 0..MaxVal] /\ M[n + 1] = t
        /\ \A i \in 0..n : M[i] = L[i]
    <2>1. \A i \in 0..(n + 1) : i = n + 1 \/ i \in 0..n
      BY <1>2
    <2>2. \A i \in 0..n : i # n + 1 /\ i \in 0..(n + 1)
      BY <1>2
    <2>3. n + 1 \in 0..(n + 1)
      BY <1>2
    <2>4. t \in 0..MaxVal
      BY <1>3
    <2> HIDE DEF t
    <2> QED BY <1>4, <2>1, <2>2, <2>3, <2>4
  <1> DEFINE R == Append(Q, f)
  <1>6. ASSUME NEW i \in 1..(n + 1)
        PROVE  IF R[i].src = s THEN M[i] = R[i].val /\ M[i] \in {M[i - 1], M[i - 1] + 1}
                               ELSE M[i] = M[i - 1]
    <2>1. CASE i = n + 1
      <3>1. i - 1 = n /\ n \in 0..n
        BY <1>2, <2>1
      <3>2. M[i - 1] = e /\ M[i] = t /\ R[i] = f
        BY <1>2, <1>3, <1>5, <2>1, <3>1
      <3> QED BY <3>2
    <2>2. CASE i \in 1..n
      <3>1. i \in 0..n /\ i - 1 \in 0..n
        BY <1>2, <2>2
      <3>2. M[i] = L[i] /\ M[i - 1] = L[i - 1] /\ R[i] = Q[i]
        BY <1>2, <1>5, <2>2, <3>1
      <3> QED BY <1>3, <2>2, <3>2
    <2> QED BY <1>2, <2>1, <2>2
  <1>7. M[0] = b
    BY <1>2, <1>3, <1>5
  <1> HIDE DEF t, R
  <1>8. Levels(R, s, b, t, M)
    BY <1>2, <1>5, <1>6, <1>7 DEF Levels, R
  <1> QED BY <1>2, <1>5, <1>8 DEF Chained, R, t

\* The first frame goes on from where the chain begins.
LEMMA ChainTail ==
    ASSUME NEW Q \in Seq(TrueFrame), Q # <<>>, NEW s, NEW b, NEW e, Chained(Q, s, b, e)
    PROVE  /\ Head(Q).src = s => Head(Q).val \in {b, b + 1}
           /\ Chained(Tail(Q), s, IF Head(Q).src = s THEN Head(Q).val ELSE b, e)
  <1> DEFINE n == Len(Q)
             t == IF Head(Q).src = s THEN Head(Q).val ELSE b
             R == Tail(Q)
  <1>1. PICK L \in [0..n -> 0..MaxVal] : Levels(Q, s, b, e, L)
    BY DEF Chained
  <1>2. /\ n \in Nat \ {0} /\ Len(R) = n - 1 /\ Head(Q) = Q[1]
        /\ \A i \in 1..(n - 1) : R[i] = Q[i + 1]
    BY EmptySeq, LenProperties, HeadTailProperties
  <1>3. /\ L[0] = b /\ L[n] = e
        /\ \A i \in 1..n : IF Q[i].src = s
                           THEN L[i] = Q[i].val /\ L[i] \in {L[i - 1], L[i - 1] + 1}
                           ELSE L[i] = L[i - 1]
    BY <1>1 DEF Levels
  <1> HIDE DEF n, R
  <1>4. L[1] = t /\ (Head(Q).src = s => Head(Q).val \in {b, b + 1})
    <2>1. 1 \in 1..n /\ 1 - 1 = 0
      BY <1>2
    <2> QED BY <1>2, <1>3, <2>1
  <1>5. PICK M : M = [i \in 0..(n - 1) |-> L[i + 1]]
    OBVIOUS
  <1>6. \A i \in 0..(n - 1) : i + 1 \in 0..n
    BY <1>2
  <1>7. M \in [0..(n - 1) -> 0..MaxVal] /\ \A i \in 0..(n - 1) : M[i] = L[i + 1]
    BY <1>5, <1>6
  <1>8. ASSUME NEW i \in 1..(n - 1)
        PROVE  IF R[i].src = s THEN M[i] = R[i].val /\ M[i] \in {M[i - 1], M[i - 1] + 1}
                               ELSE M[i] = M[i - 1]
    <2>1. i \in 0..(n - 1) /\ i - 1 \in 0..(n - 1) /\ i + 1 \in 1..n /\ (i + 1) - 1 = i /\ (i - 1) + 1 = i
      BY <1>2
    <2>2. M[i] = L[i + 1] /\ M[i - 1] = L[i] /\ R[i] = Q[i + 1]
      BY <1>2, <1>7, <2>1
    <2>3. IF Q[i + 1].src = s
          THEN L[i + 1] = Q[i + 1].val /\ L[i + 1] \in {L[i], L[i] + 1}
          ELSE L[i + 1] = L[i]
      BY <1>3, <2>1
    <2> QED BY <2>2, <2>3
  <1>9. M[0] = t /\ M[n - 1] = e
    <2>1. 0 \in 0..(n - 1) /\ n - 1 \in 0..(n - 1) /\ (n - 1) + 1 = n /\ 0 + 1 = 1
      BY <1>2
    <2> QED BY <1>3, <1>4, <1>7, <2>1
  <1> HIDE DEF t
  <1>10. Levels(R, s, t, e, M)
    BY <1>2, <1>8, <1>9 DEF Levels
  <1>11. Chained(R, s, t, e)
    BY <1>2, <1>7, <1>10 DEF Chained
  <1> QED BY <1>4, <1>11 DEF R, t

-----------------------------------------------------------------------------
\* A step leaves the other workers where they are.
LEMMA OthersStay ==
    ASSUME IInv, NEW w \in Workers, Step(w), NEW x \in Workers \ {w}
    PROVE  pc'[x] = pc[x] /\ pos'[x] = pos[x] /\ data'[x] = data[x]
  <1>1. \/ pc' = pc
        \/ \E to \in {"idle", "get", "wait", "emit", "done"} : Goes(w, to)
    BY DEF Step, GetCall, GetFrame, GetEmpty, EmitCall, EmitSyncGoes,
           EmitAccepted, EmitRefused, EmitLost, Added, NotAdded, Returns
  <1>2. pos' = pos \/ \E n : At(w, n)
    BY DEF Step, GetCall, GetFrame, GetEmpty, EmitCall, EmitSyncGoes,
           EmitAccepted, EmitRefused, EmitLost, Added, NotAdded
  <1>3. data' = data \/ \E d : data' = [data EXCEPT ![w] = d]
    BY DEF Step, GetCall, GetFrame, GetEmpty, EmitCall, EmitSyncGoes,
           EmitAccepted, EmitRefused, EmitLost, Added, NotAdded, Returns
  <1>4. pc'[x] = pc[x]
    BY <1>1 DEF Goes, IInv, VarsInv
  <1>5. pos'[x] = pos[x]
    BY <1>2 DEF At, IInv, VarsInv
  <1>6. data'[x] = data[x]
    BY <1>3 DEF IInv, VarsInv
  <1> QED BY <1>4, <1>5, <1>6

\* What emit does after a queue has answered: begin again, turn to the next
\* queue, or return.
Again(w) == pos'[w] = 1 /\ pc'[w] \in {"wait", "emit"} /\ data'[w] = data[w]

Onward(w) == /\ pos[w] < Len(Outs(w)) /\ pos'[w] = pos[w] + 1
             /\ pc'[w] = "emit" /\ data'[w] = data[w]

Through(w) ==
    /\ pos[w] = Len(Outs(w))
    /\ w \notin Sources => pc'[w] = "idle" /\ data'[w] = data[w]
    /\ w \in Sources => \/ pc'[w] = "done" /\ data'[w] = data[w]
                        \/ pc'[w] = "idle" /\ data'[w] = Datum(w, data[w].val + 1)

LEMMA Answered ==
    ASSUME IInv, NEW w \in Workers, pc[w] = "emit"
    PROVE  /\ NotAdded(w) => Again(w)
           /\ Added(w) => Onward(w) \/ Through(w)
  <1>1. pos[w] \in 1..Len(Outs(w)) /\ Len(Outs(w)) \in Nat /\ pos[w] \in Nat
    BY OutsType, LenProperties DEF IInv, VarsInv, PosInv
  <1>2. ASSUME NotAdded(w) PROVE Again(w)
    BY <1>2 DEF NotAdded, Returns, Goes, At, Again, IInv, VarsInv
  <1>3. ASSUME Added(w), pos[w] < Len(Outs(w)) PROVE Onward(w)
    BY <1>3 DEF Added, At, Onward, IInv, VarsInv
  <1>4. ASSUME Added(w), ~(pos[w] < Len(Outs(w))) PROVE Through(w)
    <2>1. pos[w] = Len(Outs(w))
      BY <1>1, <1>4
    <2>2. Returns(w, TRUE)
      BY <1>4 DEF Added
    <2>3. w \notin Sources => pc'[w] = "idle" /\ data'[w] = data[w]
      BY <2>2 DEF Returns, Goes, IInv, VarsInv
    <2>4. w \in Sources => \/ pc'[w] = "done" /\ data'[w] = data[w]
                           \/ pc'[w] = "idle" /\ data'[w] = Datum(w, data[w].val + 1)
      BY <2>2 DEF Returns, Goes, IInv, VarsInv
    <2> QED BY <2>1, <2>3, <2>4 DEF Through
  <1> QED BY <1>2, <1>3, <1>4

\* The queue that emit turns to, and the frame it has.
LEMMA Emitted ==
    ASSUME IInv, NEW carried, OneWay(carried), RouteInv(carried), HandInv,
           NEW w \in Workers, pc[w] = "emit", NEW r, r = Outs(w)[pos[w]]
    PROVE  /\ r \in Queues /\ r \in ToSet(Outs(w)) /\ pos[w] \in 1..Len(Outs(w))
           /\ Len(Outs(w)) \in Nat
           /\ Framed(w) \in TrueFrame /\ Framed(w).src = data[w].src
           /\ Framed(w).val = data[w].val
           /\ data[w].src \in Sources /\ data[w].src \in Brings(carried, w)
           /\ data[w].src \in carried[r]
           /\ data[w].val \in Nat /\ entered[r][data[w].src] \in Nat
           /\ data[w].val \in {entered[r][data[w].src], entered[r][data[w].src] + 1}
           /\ \A k \in 1..Len(Outs(w)) : Outs(w)[k] = r => k = pos[w]
  <1>1. Outs(w) \in Seq(Queues) /\ Len(Outs(w)) \in Nat /\ pos[w] \in 1..Len(Outs(w))
    BY OutsType, LenProperties DEF IInv, PosInv
  <1>2. r \in Queues /\ r \in ToSet(Outs(w))
    BY <1>1, ElementOfSeq, LenProperties DEF ToSet
  <1>3. /\ Framed(w) \in TrueFrame /\ Framed(w).src = data[w].src
        /\ Framed(w).val = data[w].val
    BY FramedTrue DEF Framed
  <1>4. data[w].src \in Sources /\ data[w].val \in Nat
    BY <1>3 DEF TrueFrame, Frame
  <1>5. data[w].src \in Brings(carried, w)
    BY DEF RouteInv, Holds
  <1>6. data[w].src \in carried[r]
    BY <1>2, <1>5 DEF OneWay
  <1>7. entered[r][data[w].src] \in Nat
    BY <1>2, <1>4 DEF IInv, VarsInv
  <1>8. entered[r][data[w].src] \in {data[w].val - 1, data[w].val}
    BY <1>1 DEF HandInv, InHand, Emitting, Holds
  <1>9. \A k \in 1..Len(Outs(w)) : Outs(w)[k] = r => k = pos[w]
    <2>1. IsInjective(Outs(w))
      <3>1. CASE OutQs[w] # <<>>
        BY <3>1, TopologyAssumption DEF Outs
      <3>2. CASE OutQs[w] = <<>>
        <4>1. Outs(w) = SinkQ[w] /\ Len(SinkQ[w]) <= 1
          BY <3>2, TopologyAssumption DEF Outs
        <4>2. DOMAIN Outs(w) = 1..Len(Outs(w))
          BY <1>1, LenProperties
        <4>3. \A i, j \in 1..Len(Outs(w)) : i = j
          BY <1>1, <4>1
        <4> QED BY <4>2, <4>3 DEF IsInjective
      <3> QED BY <3>1, <3>2
    <2> QED BY <1>1, <2>1, LenProperties DEF IsInjective
  <1> QED BY <1>1, <1>2, <1>3, <1>4, <1>5, <1>6, <1>7, <1>8, <1>9

\* A queue has the frames of a source from one worker.
LEMMA OneFeeder ==
    ASSUME NEW carried, OneWay(carried), NEW w \in Workers, NEW x \in Workers \ {w},
           NEW k \in 1..Len(Outs(x)), Outs(x)[k] \in ToSet(Outs(w)),
           NEW s \in Brings(carried, w)
    PROVE  s \notin Brings(carried, x)
  <1>1. Outs(x)[k] \in ToSet(Outs(x))
    BY OutsType, LenProperties DEF ToSet
  <1>2. ToSet(Outs(w)) \cap ToSet(Outs(x)) # {}
    BY <1>1
  <1>3. Brings(carried, w) \cap Brings(carried, x) = {}
    BY <1>2 DEF OneWay
  <1> QED BY <1>3

\* What a worker takes from its queues it brings.
LEMMA TakenIsBrought ==
    ASSUME NEW carried, OneWay(carried), NEW w \in Workers, NEW q \in ToSet(InQs[w])
    PROVE  q \in Queues /\ carried[q] \subseteq Sources /\ carried[q] \subseteq Brings(carried, w)
  <1>1. q \in Queues
    BY QueuesAssumption, ElementOfSeq, LenProperties DEF ToSet
  <1>2. carried[q] \subseteq Sources
    BY <1>1 DEF OneWay
  <1> QED BY <1>1, <1>2 DEF Brings

\* A step that moves no frame, and after which the workers that pass frames on have
\* in hand what they had, leaves the links.
LEMMA LinksStay ==
    ASSUME NEW carried, LinkInv(carried), UNCHANGED <<queue, entered>>,
           \A w \in Workers \ Sources : (Holds(w)' <=> Holds(w)) /\ data'[w] = data[w]
    PROVE  LinkInv(carried)'
  <1> SUFFICES ASSUME NEW w \in Workers \ Sources, NEW q \in ToSet(InQs[w]), NEW s \in carried[q],
                      NEW k \in 1..Len(Outs(w))
               PROVE  Chained(queue'[q], s, Base(w, s, k)', entered'[q][s])
    BY DEF LinkInv
  <1>1. Base(w, s, k)' = Base(w, s, k)
    BY DEF Base
  <1>2. Chained(queue[q], s, Base(w, s, k), entered[q][s])
    BY DEF LinkInv
  <1> QED BY <1>1, <1>2

\* The same for what the workers have in hand.
LEMMA HandStays ==
    ASSUME IInv, HandInv, entered' = entered, NEW w \in Workers,
           \A x \in Workers \ {w} : pc'[x] = pc[x] /\ pos'[x] = pos[x] /\ data'[x] = data[x],
           Emitting(w)' => data'[w] = data[w] /\ pos'[w] = 1 /\ Emitting(w)
    PROVE  HandInv'
  <1> SUFFICES ASSUME NEW x \in Workers, NEW k \in 1..Len(Outs(x)), Emitting(x)'
               PROVE  InHand(k, pc'[x], pos'[x], data'[x].val, entered'[Outs(x)[k]][data'[x].src])
    BY DEF HandInv
  <1>1. CASE x # w
    BY <1>1 DEF HandInv, Emitting, Holds
  <1>2. CASE x = w
    <2>1. InHand(k, pc[w], pos[w], data[w].val, entered[Outs(w)[k]][data[w].src])
      BY <1>2 DEF HandInv
    <2>2. ~(k < 1)
      BY OutsType, LenProperties
    <2> QED BY <1>2, <2>1, <2>2 DEF InHand
  <1> QED BY <1>1, <1>2

LEMMA RouteStays ==
    ASSUME NEW carried, RouteInv(carried), queue' = queue,
           \A w \in Workers : Holds(w)' \/ w \in Sources
                => data'[w].src = data[w].src /\ (Holds(w) \/ w \in Sources)
    PROVE  RouteInv(carried)'
  BY DEF RouteInv

\* The calls that move no frame.
LEMMA QuietKeepsWay ==
    ASSUME IInv, NEW carried, OneWay(carried), WayInv(carried), NEW w \in Workers,
           \/ GetCall(w) \/ GetEmpty(w) \/ EmitCall(w) \/ EmitSyncGoes(w) \/ EmitRefused(w)
           \/ EmitLost(w) /\ UNCHANGED <<queue, entered>>
    PROVE  WayInv(carried)'
  <1>1. \A x \in Workers \ {w} : pc'[x] = pc[x] /\ pos'[x] = pos[x] /\ data'[x] = data[x]
    BY OthersStay DEF Step
  <1>2. UNCHANGED <<queue, entered>>
    BY DEF GetCall, GetEmpty, EmitCall, EmitSyncGoes, EmitRefused
  <1>3. /\ data'[w] = data[w]
        /\ Holds(w)' => pos'[w] = 1 /\ (Holds(w) \/ (w \in Sources /\ pc[w] = "idle"))
        /\ ~Holds(w)' => ~Holds(w) /\ (pc'[w] # "done" => pos'[w] = 1 \/ w \notin Sources)
        /\ pc'[w] # "done" => pc[w] # "done"
    <2>1. CASE GetCall(w) \/ GetEmpty(w)
      <3>1. pc[w] \in {"idle", "get"} /\ pc'[w] \in {"idle", "get"} /\ data' = data /\ w \notin Sources
        BY <2>1 DEF GetCall, GetEmpty, Goes, At, IInv, VarsInv, PosInv
      <3> QED BY <3>1 DEF Holds
    <2>2. CASE EmitCall(w)
      BY <2>2 DEF EmitCall, Goes, At, IInv, VarsInv, Holds
    <2>3. CASE EmitSyncGoes(w)
      BY <2>3 DEF EmitSyncGoes, Goes, IInv, VarsInv, PosInv, Holds
    <2>4. CASE EmitRefused(w) \/ EmitLost(w)
      <3>1. pc[w] = "emit" /\ NotAdded(w)
        BY <2>4 DEF EmitRefused, EmitLost
      <3>2. Again(w)
        BY <3>1, Answered
      <3> QED BY <3>1, <3>2 DEF Again, Holds
    <2> QED BY <2>1, <2>2, <2>3, <2>4
  <1>4. w \notin Sources => (Holds(w)' <=> Holds(w))
    BY <1>3
  <1>5. LinkInv(carried)'
    BY <1>1, <1>2, <1>3, <1>4, LinksStay DEF WayInv, Holds
  <1>6. RouteInv(carried)'
    BY <1>1, <1>2, <1>3, <1>4, RouteStays DEF WayInv, Holds
  <1>7. Emitting(w)' => data'[w] = data[w] /\ pos'[w] = 1 /\ Emitting(w)
    BY <1>3 DEF Emitting, Holds
  <1>8. HandInv'
    BY <1>1, <1>2, <1>7, HandStays DEF WayInv
  <1> QED BY <1>5, <1>6, <1>8 DEF WayInv

\* A frame that enters a queue: what the history and the queues then say.
LEMMA EnteredIs ==
    ASSUME IInv, NEW r \in Queues, NEW f \in TrueFrame, Enters(r, f)
    PROVE  /\ \A q \in Queues : queue'[q] = IF q = r THEN Append(queue[r], f) ELSE queue[q]
           /\ \A q \in Queues : \A s \in Sources :
                 entered'[q][s] = IF q = r /\ s = f.src THEN f.val ELSE entered[q][s]
  BY DEF Enters, IInv, VarsInv, TrueFrame, Frame

\* A frame enters a queue, and its worker begins again, goes on or returns.
LEMMA EntersKeepsLinks ==
    ASSUME IInv, NEW carried, OneWay(carried), WayInv(carried), NEW w \in Workers,
           pc[w] = "emit", NEW r, r = Outs(w)[pos[w]], Enters(r, Framed(w)),
           Again(w) \/ Onward(w) \/ Through(w),
           \A x \in Workers \ {w} : pc'[x] = pc[x] /\ pos'[x] = pos[x] /\ data'[x] = data[x]
    PROVE  LinkInv(carried)'
  <1> DEFINE f == Framed(w)
             s == data[w].src
             v == data[w].val
  <1>1. /\ r \in Queues /\ r \in ToSet(Outs(w)) /\ pos[w] \in 1..Len(Outs(w))
        /\ Len(Outs(w)) \in Nat
        /\ f \in TrueFrame /\ f.src = s /\ f.val = v
        /\ s \in Sources /\ s \in Brings(carried, w)
        /\ v \in {entered[r][s], entered[r][s] + 1}
        /\ \A k \in 1..Len(Outs(w)) : Outs(w)[k] = r => k = pos[w]
    BY Emitted DEF WayInv
  <1> HIDE DEF f
  <1>2. /\ \A q \in Queues : queue'[q] = IF q = r THEN Append(queue[r], f) ELSE queue[q]
        /\ \A q \in Queues : \A t \in Sources :
              entered'[q][t] = IF q = r /\ t = s THEN v ELSE entered[q][t]
    BY <1>1, EnteredIs DEF f
  <1> SUFFICES ASSUME NEW x \in Workers \ Sources, NEW q \in ToSet(InQs[x]), NEW t \in carried[q],
                      NEW k \in 1..Len(Outs(x))
               PROVE  Chained(queue'[q], t, Base(x, t, k)', entered'[q][t])
    BY DEF LinkInv
  <1>3. q \in Queues /\ t \in Sources /\ t \in Brings(carried, x)
    BY TakenIsBrought
  <1>4. Outs(x)[k] \in Queues
    BY OutsType, ElementOfSeq
  <1>5. Base(x, t, k)' = Base(x, t, k)
    <2>1. CASE x # w
      <3>1. Outs(x)[k] = r => t # s
        BY <1>1, <1>3, <2>1, OneFeeder
      <3>2. entered'[Outs(x)[k]][t] = entered[Outs(x)[k]][t]
        BY <1>2, <1>3, <1>4, <3>1
      <3> QED BY <2>1, <3>2 DEF Base, Holds
    <2>2. CASE x = w /\ t # s
      <3>1. data'[w] = data[w]
        BY <2>2 DEF Again, Onward, Through
      <3>2. entered'[Outs(x)[k]][t] = entered[Outs(x)[k]][t]
        BY <1>2, <1>3, <1>4, <2>2
      <3> QED BY <2>2, <3>1, <3>2 DEF Base
    <2>3. CASE x = w /\ t = s
      <3>1. Base(x, t, k) = v
        BY <2>3 DEF Base, Holds
      <3>2. data'[w] = data[w]
        BY <2>3 DEF Again, Onward, Through
      <3>3. CASE Again(w) \/ Onward(w)
        BY <2>3, <3>1, <3>2, <3>3 DEF Again, Onward, Base, Holds
      <3>4. CASE Through(w)
        <4>1. pc'[w] = "idle" /\ pos[w] = Len(Outs(w))
          BY <2>3, <3>4 DEF Through
        <4>2. Base(x, t, k)' = entered'[Outs(w)[k]][s]
          BY <2>3, <4>1 DEF Base, Holds
        <4>3. CASE k = pos[w]
          BY <1>2, <1>1, <2>3, <3>1, <4>2, <4>3
        <4>4. CASE k # pos[w]
          <5>1. k < pos[w]
            BY <1>1, <2>3, <4>1, <4>4
          <5>2. entered[Outs(w)[k]][s] = v
            BY <2>3, <5>1 DEF WayInv, HandInv, InHand, Emitting, Holds
          <5>3. Outs(w)[k] # r
            BY <1>1, <2>3, <4>4
          <5> QED BY <1>1, <1>2, <1>4, <2>3, <3>1, <4>2, <5>2, <5>3
        <4> QED BY <4>3, <4>4
      <3> QED BY <3>3, <3>4
    <2> QED BY <2>1, <2>2, <2>3
  <1>6. Chained(queue[q], t, Base(x, t, k), entered[q][t])
    BY DEF WayInv, LinkInv
  <1>7. CASE q # r
    BY <1>2, <1>3, <1>5, <1>6, <1>7
  <1>8. CASE q = r
    <2>1. queue[r] \in Seq(TrueFrame)
      BY <1>1 DEF IInv, VarsInv
    <2>2. f.src = t => f.val \in {entered[q][t], entered[q][t] + 1}
      BY <1>1, <1>8
    <2>3. PICK b : b = Base(x, t, k)
      OBVIOUS
    <2>4. PICK e : e = entered[q][t]
      OBVIOUS
    <2>5. Chained(Append(queue[r], f), t, b, IF f.src = t THEN f.val ELSE e)
      BY <1>1, <1>6, <1>8, <2>1, <2>2, <2>3, <2>4, ChainAppend
    <2>6. entered'[q][t] = IF f.src = t THEN f.val ELSE e
      BY <1>1, <1>2, <1>3, <1>8, <2>4
    <2> QED BY <1>2, <1>3, <1>5, <1>8, <2>3, <2>5, <2>6
  <1> QED BY <1>7, <1>8

LEMMA EntersKeepsRoute ==
    ASSUME IInv, NEW carried, OneWay(carried), WayInv(carried), NEW w \in Workers,
           pc[w] = "emit", NEW r, r = Outs(w)[pos[w]], Enters(r, Framed(w)),
           Again(w) \/ Onward(w) \/ Through(w),
           \A x \in Workers \ {w} : pc'[x] = pc[x] /\ pos'[x] = pos[x] /\ data'[x] = data[x]
    PROVE  RouteInv(carried)'
  <1> DEFINE f == Framed(w)
  <1>1. r \in Queues /\ f \in TrueFrame /\ f.src \in carried[r]
    BY Emitted DEF WayInv
  <1> HIDE DEF f
  <1>2. \A q \in Queues : queue'[q] = IF q = r THEN Append(queue[r], f) ELSE queue[q]
    BY <1>1, EnteredIs DEF f
  <1>3. ASSUME NEW q \in Queues, NEW i \in 1..Len(queue'[q])
        PROVE  queue'[q][i].src \in carried[q]
    <2>1. \A j \in 1..Len(queue[q]) : queue[q][j].src \in carried[q]
      BY DEF WayInv, RouteInv
    <2>2. CASE q # r
      BY <1>2, <1>3, <2>1, <2>2
    <2>3. CASE q = r
      <3>1. queue[r] \in Seq(TrueFrame) /\ queue'[q] = Append(queue[r], f)
        BY <1>1, <1>2, <2>3 DEF IInv, VarsInv
      <3>2. /\ Len(queue'[q]) = Len(queue[r]) + 1 /\ queue'[q][Len(queue[r]) + 1] = f
            /\ \A j \in 1..Len(queue[r]) : queue'[q][j] = queue[r][j]
            /\ Len(queue[r]) \in Nat
        BY <1>1, <3>1, AppendProperties, LenProperties
      <3>3. i \in 1..Len(queue[r]) \/ i = Len(queue[r]) + 1
        BY <1>3, <3>2
      <3> QED BY <1>1, <2>1, <2>3, <3>2, <3>3
    <2> QED BY <2>2, <2>3
  <1>4. ASSUME NEW x \in Workers, Holds(x)' \/ x \in Sources
        PROVE  data'[x].src \in Brings(carried, x)
    <2>1. CASE x # w
      BY <1>4, <2>1 DEF WayInv, RouteInv, Holds
    <2>2. CASE x = w
      <3>1. data'[w].src = data[w].src \/ (w \in Sources /\ data'[w].src = w)
        BY DEF Again, Onward, Through, Datum
      <3>2. w \in Sources => w \in Brings(carried, w)
        BY DEF Brings
      <3>3. data[w].src \in Brings(carried, w)
        BY DEF WayInv, RouteInv, Holds
      <3> QED BY <2>2, <3>1, <3>2, <3>3
    <2> QED BY <2>1, <2>2
  <1> QED BY <1>3, <1>4 DEF RouteInv

LEMMA EntersKeepsHand ==
    ASSUME IInv, NEW carried, OneWay(carried), WayInv(carried), NEW w \in Workers,
           pc[w] = "emit", NEW r, r = Outs(w)[pos[w]], Enters(r, Framed(w)),
           Again(w) \/ Onward(w) \/ Through(w),
           \A x \in Workers \ {w} : pc'[x] = pc[x] /\ pos'[x] = pos[x] /\ data'[x] = data[x]
    PROVE  HandInv'
  <1> DEFINE f == Framed(w)
             s == data[w].src
             v == data[w].val
  <1>1. /\ r \in Queues /\ r \in ToSet(Outs(w)) /\ pos[w] \in 1..Len(Outs(w))
        /\ Len(Outs(w)) \in Nat /\ f \in TrueFrame /\ f.src = s /\ f.val = v
        /\ s \in Sources /\ s \in Brings(carried, w) /\ v \in Nat
        /\ \A k \in 1..Len(Outs(w)) : Outs(w)[k] = r => k = pos[w]
    BY Emitted DEF WayInv
  <1> HIDE DEF f
  <1>2. \A q \in Queues : \A t \in Sources :
           entered'[q][t] = IF q = r /\ t = s THEN v ELSE entered[q][t]
    BY <1>1, EnteredIs DEF f
  <1> SUFFICES ASSUME NEW x \in Workers, NEW k \in 1..Len(Outs(x)), Emitting(x)'
               PROVE  InHand(k, pc'[x], pos'[x], data'[x].val, entered'[Outs(x)[k]][data'[x].src])
    BY DEF HandInv
  <1>3. Outs(x)[k] \in Queues
    BY OutsType, ElementOfSeq
  <1>4. CASE x # w
    <2>1. /\ pc'[x] = pc[x] /\ pos'[x] = pos[x] /\ data'[x] = data[x] /\ Emitting(x)
      BY <1>4 DEF Emitting, Holds
    <2>2. InHand(k, pc[x], pos[x], data[x].val, entered[Outs(x)[k]][data[x].src])
      BY <2>1 DEF WayInv, HandInv
    <2>3. data[x].src \in Brings(carried, x)
      BY <2>1 DEF WayInv, RouteInv, Emitting
    <2>4. data[x].src \in Sources
      BY <2>1 DEF IInv, DataInv, Emitting, Holds
    <2>5. Outs(x)[k] = r => data[x].src # s
      BY <1>1, <1>4, <2>3, OneFeeder
    <2>6. entered'[Outs(x)[k]][data[x].src] = entered[Outs(x)[k]][data[x].src]
      BY <1>2, <1>3, <2>4, <2>5
    <2> QED BY <2>1, <2>2, <2>6
  <1>5. CASE x = w
    <2>1. InHand(k, "emit", pos[w], v, entered[Outs(w)[k]][s])
      BY <1>5 DEF WayInv, HandInv, Emitting, Holds
    <2>2. entered'[Outs(w)[k]][s] = IF k = pos[w] THEN v ELSE entered[Outs(w)[k]][s]
      BY <1>1, <1>2, <1>3, <1>5
    <2>3. k \in Nat /\ k >= 1 /\ k <= Len(Outs(w)) /\ pos[w] \in Nat
      BY <1>1, <1>5
    <2>4. CASE Again(w)
      BY <1>1, <1>5, <2>1, <2>2, <2>3, <2>4 DEF Again, InHand
    <2>5. CASE Onward(w)
      <3>1. k < pos[w] + 1 => k < pos[w] \/ k = pos[w]
        BY <2>3
      <3> QED BY <1>1, <1>5, <2>1, <2>2, <2>5, <3>1 DEF Onward, InHand
    <2>6. CASE Through(w)
      <3>1. w \in Sources /\ pc'[w] = "idle" /\ data'[w] = Datum(w, v + 1)
        BY <1>5, <2>6 DEF Through, Emitting, Holds
      <3>2. w = s
        BY <3>1 DEF IInv, DataInv
      <3>3. k < pos[w] \/ k = pos[w]
        BY <2>3, <2>6 DEF Through
      <3>4. entered'[Outs(w)[k]][s] = v
        BY <2>1, <2>2, <3>3 DEF InHand
      <3>5. data'[w].val = v + 1 /\ data'[w].src = s
        BY <3>1, <3>2 DEF Datum
      <3> QED BY <1>1, <1>5, <3>1, <3>4, <3>5 DEF InHand
    <2> QED BY <2>4, <2>5, <2>6
  <1> QED BY <1>4, <1>5

\* A frame is taken from a queue: the others are where they are carried.
LEMMA TakingKeepsRoute ==
    ASSUME IInv, NEW carried, RouteInv(carried), NEW q \in Queues, queue[q] # <<>>,
           \A r \in Queues : queue'[r] = IF r = q THEN Tail(queue[q]) ELSE queue[r],
           NEW r \in Queues, NEW i \in 1..Len(queue'[r])
    PROVE  queue'[r][i].src \in carried[r]
  <1>1. \A j \in 1..Len(queue[r]) : queue[r][j].src \in carried[r]
    BY DEF RouteInv
  <1>2. CASE r # q
    BY <1>1, <1>2
  <1>3. CASE r = q
    <2>1. queue[q] \in Seq(TrueFrame) /\ queue'[r] = Tail(queue[q])
      BY <1>3 DEF IInv, VarsInv
    <2>2. /\ Len(queue[q]) \in Nat /\ Len(queue'[r]) = Len(queue[q]) - 1
          /\ \A j \in 1..Len(queue'[r]) : queue'[r][j] = queue[q][j + 1]
      BY <2>1, HeadTailProperties, LenProperties
    <2>3. i + 1 \in 1..Len(queue[q])
      BY <2>2
    <2> QED BY <1>1, <1>3, <2>2, <2>3
  <1> QED BY <1>2, <1>3

\* What a worker that takes a frame has then.
LEMMA FrameTaken ==
    ASSUME IInv, NEW w \in Workers, GetFrame(w), NEW q, q = InQ(w), NEW f, f = Head(queue[q])
    PROVE  /\ q \in Queues /\ q \in ToSet(InQs[w]) /\ w \notin Sources
           /\ queue[q] \in Seq(TrueFrame) /\ queue[q] # <<>> /\ f \in TrueFrame
           /\ f = queue[q][1] /\ 1 \in 1..Len(queue[q])
           /\ \A r \in Queues : queue'[r] = IF r = q THEN Tail(queue[q]) ELSE queue[r]
           /\ entered' = entered /\ ~Holds(w)
           /\ Outs(w) = <<>> => ~Holds(w)'
           /\ Outs(w) # <<>> => Holds(w)' /\ pos'[w] = 1 /\ data'[w] = Datum(f.src, f.val)
           /\ \A x \in Workers \ {w} : pc'[x] = pc[x] /\ pos'[x] = pos[x] /\ data'[x] = data[x]
  <1>1. pc[w] = "get" /\ queue[q] # <<>> /\ queue' = [queue EXCEPT ![q] = Tail(@)]
    BY DEF GetFrame
  <1>2. q \in Queues /\ queue[q] \in Seq(TrueFrame) /\ w \notin Sources
    BY <1>1, ScanInRange DEF IInv, VarsInv, PosInv
  <1>3. q \in ToSet(InQs[w])
    <2> DEFINE n == Len(InQs[w])
    <2>1. n \in Nat \ {0} /\ InQs[w] \in Seq(Queues)
      BY <1>2, SomeQueue, QueuesAssumption, LenProperties
    <2>2. nextIndex[w] + pos[w] \in Nat
      BY DEF IInv, VarsInv
    <2> HIDE DEF n
    <2>3. (nextIndex[w] + pos[w]) % n \in 0..(n - 1)
      BY <2>1, <2>2, ModInRange
    <2>4. ((nextIndex[w] + pos[w]) % n) + 1 \in 1..n
      BY <2>1, <2>3
    <2>5. \E i \in DOMAIN InQs[w] : InQs[w][i] = q
      BY <2>1, <2>4, LenProperties DEF InQ, n
    <2> QED BY <2>5 DEF ToSet
  <1>4. f \in TrueFrame /\ f = queue[q][1] /\ 1 \in 1..Len(queue[q])
    BY <1>1, <1>2, HeadTailProperties, EmptySeq, LenProperties
  <1>5. \A r \in Queues : queue'[r] = IF r = q THEN Tail(queue[q]) ELSE queue[r]
    BY <1>1, <1>2 DEF IInv, VarsInv
  <1>6. entered' = entered /\ pos'[w] = 1
    BY DEF GetFrame, At, IInv, VarsInv
  <1>7. ~Holds(w)
    BY <1>1 DEF Holds
  <1>8. ASSUME Outs(w) = <<>> PROVE ~Holds(w)'
    <2>1. pc'[w] = "idle"
      BY <1>8 DEF GetFrame, Goes, IInv, VarsInv
    <2> QED BY <2>1 DEF Holds
  <1>9. ASSUME Outs(w) # <<>>
        PROVE  Holds(w)' /\ pos'[w] = 1 /\ data'[w] = Datum(f.src, f.val)
    <2>1. pc'[w] \in {"wait", "emit"} /\ data'[w] = Datum(f.src, f.val)
      BY <1>9 DEF GetFrame, Goes, IInv, VarsInv
    <2> QED BY <2>1, <1>6 DEF Holds
  <1>10. \A x \in Workers \ {w} : pc'[x] = pc[x] /\ pos'[x] = pos[x] /\ data'[x] = data[x]
    BY OthersStay DEF Step
  <1> QED BY <1>1, <1>2, <1>3, <1>4, <1>5, <1>6, <1>7, <1>8, <1>9, <1>10

\* A worker that takes a frame has taken the next one of its source.
LEMMA GetFrameKeepsLinks ==
    ASSUME IInv, NEW carried, OneWay(carried), WayInv(carried), NEW w \in Workers, GetFrame(w)
    PROVE  LinkInv(carried)'
  <1>1. PICK q : q = InQ(w)
    OBVIOUS
  <1>2. PICK f : f = Head(queue[q])
    OBVIOUS
  <1>3. /\ q \in Queues /\ q \in ToSet(InQs[w]) /\ w \notin Sources
        /\ queue[q] \in Seq(TrueFrame) /\ queue[q] # <<>>
        /\ f = queue[q][1] /\ 1 \in 1..Len(queue[q])
        /\ \A r \in Queues : queue'[r] = IF r = q THEN Tail(queue[q]) ELSE queue[r]
        /\ entered' = entered /\ ~Holds(w)
        /\ Outs(w) # <<>> => Holds(w)' /\ data'[w] = Datum(f.src, f.val)
        /\ \A x \in Workers \ {w} : pc'[x] = pc[x] /\ data'[x] = data[x]
    BY <1>1, <1>2, FrameTaken
  <1> SUFFICES ASSUME NEW x \in Workers \ Sources, NEW p \in ToSet(InQs[x]), NEW t \in carried[p],
                      NEW k \in 1..Len(Outs(x))
               PROVE  Chained(queue'[p], t, Base(x, t, k)', entered'[p][t])
    BY DEF LinkInv
  <1>4. PICK b : b = Base(x, t, k)
    OBVIOUS
  <1>5. PICK e : e = entered[p][t]
    OBVIOUS
  <1>6. Chained(queue[p], t, b, e) /\ entered'[p][t] = e
    BY <1>3, <1>4, <1>5 DEF WayInv, LinkInv
  <1>7. p \in Queues
    BY TakenIsBrought
  <1>8. CASE x # w
    <2>1. p # q
      BY <1>3, <1>8 DEF OneWay
    <2>2. Base(x, t, k)' = b
      BY <1>3, <1>4, <1>8 DEF Base, Holds
    <2> QED BY <1>3, <1>6, <1>7, <2>1, <2>2
  <1>9. CASE x = w
    <2>1. Outs(w) # <<>>
      BY <1>9, EmptySeq
    <2>2. b = entered[Outs(w)[k]][t]
      BY <1>3, <1>4, <1>9 DEF Base
    <2>3. Base(x, t, k)' = IF f.src = t THEN f.val ELSE b
      BY <1>3, <1>9, <2>1, <2>2 DEF Base, Datum
    <2>4. CASE p = q
      <3>1. Chained(Tail(queue[q]), t, IF f.src = t THEN f.val ELSE b, e)
        BY <1>2, <1>3, <1>6, <2>4, ChainTail
      <3> QED BY <1>3, <1>6, <2>3, <2>4, <3>1
    <2>5. CASE p # q
      <3>1. f.src \in carried[q]
        BY <1>3 DEF WayInv, RouteInv
      <3>2. f.src # t
        BY <1>3, <1>9, <2>5, <3>1 DEF OneWay
      <3> QED BY <1>3, <1>6, <1>7, <2>3, <2>5, <3>2
    <2> QED BY <2>4, <2>5
  <1> QED BY <1>8, <1>9

LEMMA GetFrameKeepsRoute ==
    ASSUME IInv, NEW carried, OneWay(carried), WayInv(carried), NEW w \in Workers, GetFrame(w)
    PROVE  RouteInv(carried)'
  <1>1. PICK q : q = InQ(w)
    OBVIOUS
  <1>2. PICK f : f = Head(queue[q])
    OBVIOUS
  <1>3. /\ q \in Queues /\ q \in ToSet(InQs[w]) /\ w \notin Sources /\ queue[q] # <<>>
        /\ f = queue[q][1] /\ 1 \in 1..Len(queue[q])
        /\ \A r \in Queues : queue'[r] = IF r = q THEN Tail(queue[q]) ELSE queue[r]
        /\ Outs(w) = <<>> => ~Holds(w)'
        /\ Outs(w) # <<>> => data'[w] = Datum(f.src, f.val)
        /\ \A x \in Workers \ {w} : pc'[x] = pc[x] /\ data'[x] = data[x]
    BY <1>1, <1>2, FrameTaken
  <1>4. RouteInv(carried)
    BY DEF WayInv
  <1>5. \A r \in Queues : \A i \in 1..Len(queue'[r]) : queue'[r][i].src \in carried[r]
    BY <1>3, <1>4, TakingKeepsRoute
  <1>6. ASSUME NEW x \in Workers, Holds(x)' \/ x \in Sources
        PROVE  data'[x].src \in Brings(carried, x)
    <2>1. CASE x # w
      BY <1>3, <1>4, <1>6, <2>1 DEF RouteInv, Holds
    <2>2. CASE x = w
      <3>1. data'[w].src = f.src
        BY <1>3, <1>6, <2>2 DEF Datum
      <3>2. f.src \in carried[q]
        BY <1>3, <1>4 DEF RouteInv
      <3> QED BY <1>3, <2>2, <3>1, <3>2, TakenIsBrought
    <2> QED BY <2>1, <2>2
  <1> QED BY <1>5, <1>6 DEF RouteInv

LEMMA GetFrameKeepsHand ==
    ASSUME IInv, NEW carried, OneWay(carried), WayInv(carried), NEW w \in Workers, GetFrame(w)
    PROVE  HandInv'
  <1>1. PICK q : q = InQ(w)
    OBVIOUS
  <1>2. PICK f : f = Head(queue[q])
    OBVIOUS
  <1>3. /\ q \in Queues /\ q \in ToSet(InQs[w]) /\ w \notin Sources
        /\ queue[q] \in Seq(TrueFrame) /\ queue[q] # <<>> /\ f \in TrueFrame
        /\ f = queue[q][1] /\ 1 \in 1..Len(queue[q])
        /\ entered' = entered /\ ~Holds(w)
        /\ Outs(w) # <<>> => pos'[w] = 1 /\ data'[w] = Datum(f.src, f.val)
        /\ \A x \in Workers \ {w} : pc'[x] = pc[x] /\ pos'[x] = pos[x] /\ data'[x] = data[x]
    BY <1>1, <1>2, FrameTaken
  <1> SUFFICES ASSUME NEW x \in Workers, NEW k \in 1..Len(Outs(x)), Emitting(x)'
               PROVE  InHand(k, pc'[x], pos'[x], data'[x].val, entered'[Outs(x)[k]][data'[x].src])
    BY DEF HandInv
  <1>4. CASE x # w
    BY <1>3, <1>4 DEF WayInv, HandInv, Emitting, Holds
  <1>5. CASE x = w
    <2>1. Outs(w) # <<>> /\ ~(k < 1)
      BY <1>5, EmptySeq
    <2>2. f.src \in carried[q]
      BY <1>3 DEF WayInv, RouteInv
    <2>3. PICK b : b = entered[Outs(w)[k]][f.src]
      OBVIOUS
    <2>4. Base(w, f.src, k) = b
      BY <1>3, <2>3 DEF Base
    <2>5. PICK e : e = entered[q][f.src]
      OBVIOUS
    <2>6. Chained(queue[q], f.src, b, e)
      BY <1>3, <1>5, <2>2, <2>4, <2>5 DEF WayInv, LinkInv
    <2>7. f.val \in {b, b + 1}
      BY <1>2, <1>3, <2>6, ChainTail
    <2>8. f.val \in Nat /\ b \in Nat
      <3>1. Outs(w)[k] \in Queues /\ f.src \in Sources
        BY <1>3, <1>5, OutsType, ElementOfSeq DEF TrueFrame, Frame
      <3>2. b \in 0..MaxVal /\ f.val \in 1..MaxVal
        BY <1>3, <2>3, <3>1 DEF IInv, VarsInv, TrueFrame, Frame
      <3> QED BY <3>2
    <2>9. data'[w].val = f.val /\ data'[w].src = f.src /\ pos'[w] = 1
      BY <1>3, <2>1 DEF Datum
    <2>10. b \in {f.val - 1, f.val}
      BY <2>7, <2>8
    <2> QED BY <1>3, <1>5, <2>1, <2>3, <2>9, <2>10 DEF InHand
  <1> QED BY <1>4, <1>5

\* The client takes frames from queues that no worker reads.
LEMMA SinkGetKeepsWay ==
    ASSUME IInv, NEW carried, OneWay(carried), WayInv(carried), NEW q \in Queues, SinkGet(q)
    PROVE  WayInv(carried)'
  <1>1. /\ queue[q] # <<>> /\ q \in SinkQueues /\ pc' = pc /\ pos' = pos /\ data' = data
        /\ entered' = entered
        /\ \A r \in Queues : queue'[r] = IF r = q THEN Tail(queue[q]) ELSE queue[r]
    BY DEF SinkGet, workVars, IInv, VarsInv
  <1>2. RouteInv(carried)'
    <2>1. RouteInv(carried)
      BY DEF WayInv
    <2>2. \A r \in Queues : \A i \in 1..Len(queue'[r]) : queue'[r][i].src \in carried[r]
      BY <1>1, <2>1, TakingKeepsRoute
    <2> QED BY <1>1, <2>1, <2>2 DEF RouteInv, Holds
  <1>3. HandInv'
    BY <1>1 DEF WayInv, HandInv, Emitting, Holds
  <1>4. LinkInv(carried)'
    <2> SUFFICES ASSUME NEW x \in Workers \ Sources, NEW p \in ToSet(InQs[x]), NEW t \in carried[p],
                        NEW k \in 1..Len(Outs(x))
                 PROVE  Chained(queue'[p], t, Base(x, t, k)', entered'[p][t])
      BY DEF LinkInv
    <2>1. p # q
      BY <1>1 DEF OneWay
    <2>2. p \in Queues
      BY TakenIsBrought
    <2>3. Base(x, t, k)' = Base(x, t, k)
      BY <1>1 DEF Base, Holds
    <2>4. Chained(queue[p], t, Base(x, t, k), entered[p][t])
      BY DEF WayInv, LinkInv
    <2> QED BY <1>1, <2>1, <2>2, <2>3, <2>4
  <1> QED BY <1>2, <1>3, <1>4 DEF WayInv

\* A queue has answered emit.
LEMMA AnswerKeepsWay ==
    ASSUME IInv, NEW carried, OneWay(carried), WayInv(carried), NEW w \in Workers,
           Step(w), pc[w] = "emit", Enters(Outs(w)[pos[w]], Framed(w)), Added(w) \/ NotAdded(w)
    PROVE  WayInv(carried)'
  <1>1. PICK r : r = Outs(w)[pos[w]]
    OBVIOUS
  <1>2. Enters(r, Framed(w))
    BY <1>1
  <1>3. Again(w) \/ Onward(w) \/ Through(w)
    BY Answered
  <1>4. \A x \in Workers \ {w} : pc'[x] = pc[x] /\ pos'[x] = pos[x] /\ data'[x] = data[x]
    BY OthersStay
  <1>5. LinkInv(carried)'
    BY <1>1, <1>2, <1>3, <1>4, EntersKeepsLinks
  <1>6. RouteInv(carried)'
    BY <1>1, <1>2, <1>3, <1>4, EntersKeepsRoute
  <1>7. HandInv'
    BY <1>1, <1>2, <1>3, <1>4, EntersKeepsHand
  <1> QED BY <1>5, <1>6, <1>7 DEF WayInv

LEMMA WayStarts ==
    ASSUME Init, NEW carried, OneWay(carried) PROVE WayInv(carried)
  <1>1. \A w \in Workers : ~Holds(w)
    BY DEF Init, Holds
  <1>2. \A q \in Queues : queue[q] = <<>> /\ \A s \in Sources : entered[q][s] = 0
    BY DEF Init
  <1>3. LinkInv(carried)
    <2> SUFFICES ASSUME NEW w \in Workers \ Sources, NEW q \in ToSet(InQs[w]), NEW s \in carried[q],
                        NEW k \in 1..Len(Outs(w))
                 PROVE  Chained(queue[q], s, Base(w, s, k), entered[q][s])
      BY DEF LinkInv
    <2>1. q \in Queues /\ s \in Sources
      BY TakenIsBrought
    <2>2. Outs(w)[k] \in Queues
      BY OutsType, ElementOfSeq
    <2>3. Base(w, s, k) = 0 /\ entered[q][s] = 0 /\ queue[q] = <<>>
      BY <1>1, <1>2, <2>1, <2>2 DEF Base
    <2>4. 0 \in 0..MaxVal
      BY BoundsAssumption
    <2>5. Chained(<<>>, s, 0, 0)
      BY <2>4, ChainEmpty
    <2> QED BY <2>3, <2>5
  <1>4. RouteInv(carried)
    <2>1. \A q \in Queues : Len(queue[q]) = 0
      BY <1>2
    <2>2. \A w \in Workers : data[w].src = w
      BY DEF Init, Datum
    <2> QED BY <1>1, <2>1, <2>2 DEF RouteInv, Brings
  <1>5. HandInv
    <2> SUFFICES ASSUME NEW w \in Workers, NEW k \in 1..Len(Outs(w)), Emitting(w)
                 PROVE  InHand(k, pc[w], pos[w], data[w].val, entered[Outs(w)[k]][data[w].src])
      BY DEF HandInv
    <2>1. w \in Sources
      BY <1>1 DEF Emitting
    <2>2. Outs(w)[k] \in Queues
      BY OutsType, ElementOfSeq
    <2>3. pc[w] = "idle" /\ data[w].val = 1 /\ data[w].src = w
      BY DEF Init, Datum
    <2>4. entered[Outs(w)[k]][w] = 0
      BY <1>2, <2>1, <2>2
    <2> QED BY <2>3, <2>4 DEF InHand
  <1> QED BY <1>3, <1>4, <1>5 DEF WayInv

LEMMA WayKept ==
    ASSUME IInv, NEW carried, OneWay(carried), WayInv(carried), [Next]_vars
    PROVE  WayInv(carried)'
  <1>1. CASE UNCHANGED vars \/ SinkReturns
    <2>1. UNCHANGED <<queue, entered, pc, pos, data>>
      BY <1>1 DEF vars, workVars, SinkReturns
    <2>2. LinkInv(carried)'
      BY <2>1, LinksStay DEF WayInv, Holds
    <2>3. RouteInv(carried)'
      BY <2>1 DEF WayInv, RouteInv, Holds
    <2>4. HandInv'
      BY <2>1 DEF WayInv, HandInv, Emitting, Holds
    <2> QED BY <2>2, <2>3, <2>4 DEF WayInv
  <1>2. ASSUME NEW w \in Workers, Step(w) PROVE WayInv(carried)'
    <2>1. CASE \/ GetCall(w) \/ GetEmpty(w) \/ EmitCall(w) \/ EmitSyncGoes(w) \/ EmitRefused(w)
               \/ EmitLost(w) /\ UNCHANGED <<queue, entered>>
      BY <2>1, QuietKeepsWay
    <2>2. CASE GetFrame(w)
      <3>1. LinkInv(carried)' /\ RouteInv(carried)' /\ HandInv'
        BY <2>2, GetFrameKeepsLinks, GetFrameKeepsRoute, GetFrameKeepsHand
      <3> QED BY <3>1 DEF WayInv
    <2>3. CASE EmitAccepted(w)
      <3>1. pc[w] = "emit" /\ Enters(Outs(w)[pos[w]], Framed(w)) /\ Added(w)
        BY <2>3 DEF EmitAccepted
      <3> QED BY <1>2, <3>1, AnswerKeepsWay
    <2>4. CASE EmitLost(w)
      <3>1. /\ pc[w] = "emit" /\ NotAdded(w)
            /\ UNCHANGED <<queue, entered>> \/ Enters(Outs(w)[pos[w]], Framed(w))
        BY <2>4 DEF EmitLost
      <3>2. CASE UNCHANGED <<queue, entered>>
        BY <2>4, <3>2, QuietKeepsWay
      <3>3. CASE Enters(Outs(w)[pos[w]], Framed(w))
        BY <1>2, <3>1, <3>3, AnswerKeepsWay
      <3> QED BY <3>1, <3>2, <3>3
    <2> QED BY <1>2, <2>1, <2>2, <2>3, <2>4 DEF Step
  <1> QED BY <1>1, <1>2, SinkGetKeepsWay DEF Next

\* With one way for the frames of each source, what is under way has no gap.
LEMMA WayInvariance ==
    ASSUME NEW carried, OneWay(carried)
    PROVE  Spec => []WayInv(carried)
  <1>1. Init => WayInv(carried)
    BY WayStarts
  <1>2. IInv /\ WayInv(carried) /\ [Next]_vars => WayInv(carried)'
    BY WayKept
  <1> QED BY <1>1, <1>2, Invariance, PTL DEF Spec

\* No frame is left out and none comes late anywhere in a pipe: whatever one of
\* several queues of emit refuses and whatever replies of put_q get lost, each
\* queue is given the frames of a source without a gap and in order, through any
\* number of workers and joins, where the frames of a source have one way there.
THEOREM NothingLeftOut ==
    ASSUME NEW carried, OneWay(carried)
    PROVE  Spec => NoneLeftOut
  <1>1. IInv /\ WayInv(carried) /\ [Next]_vars
          => \A q \in Queues, f \in Frame :
                Arrives(q, f) => f.val \in {entered[q][f.src], entered[q][f.src] + 1}
    <2> SUFFICES ASSUME IInv, WayInv(carried), [Next]_vars,
                        NEW q \in Queues, NEW f \in Frame, Arrives(q, f)
                 PROVE  f.val \in {entered[q][f.src], entered[q][f.src] + 1}
      OBVIOUS
    <2>1. PICK w \in Workers : pc[w] = "emit" /\ q = Outs(w)[pos[w]] /\ f = Framed(w)
      BY ArrivalIsEmission
    <2>2. /\ f.src = data[w].src /\ f.val = data[w].val
          /\ data[w].val \in {entered[q][data[w].src], entered[q][data[w].src] + 1}
      BY <2>1, Emitted DEF WayInv
    <2> QED BY <2>2
  <1>2. Spec => []WayInv(carried)
    BY WayInvariance
  <1> QED BY <1>1, <1>2, Invariance, PTL DEF Spec, NoneLeftOut
=============================================================================
