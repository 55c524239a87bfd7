----------------------------- MODULE FrameQueue -----------------------------
(***************************************************************************)
(* What a upipe queue promises to the processors at its two ends: a        *)
(* bounded first-in first-out queue of data frames.  put appends one whole *)
(* frame, get removes the oldest one, and a frame that was accepted is     *)
(* eventually handed to a processor.                                       *)
(***************************************************************************)
EXTENDS Naturals, Sequences

CONSTANTS Frame,       \* the data frames, records with a field "size"
          Capacity     \* the space the queued frames may take together

VARIABLES queue,       \* the frames in the queue, oldest first
          used,        \* the space they take together
          delivered    \* the frames handed to the processors, in order

vars == <<queue, used, delivered>>

TypeOK == queue \in Seq(Frame) /\ used \in 0..Capacity /\ delivered \in Seq(Frame)

Init == queue = <<>> /\ used = 0 /\ delivered = <<>>

Put(f) == /\ used + f.size <= Capacity
          /\ queue' = Append(queue, f)
          /\ used' = used + f.size
          /\ UNCHANGED delivered

Get == /\ queue # <<>>
       /\ delivered' = Append(delivered, Head(queue))
       /\ queue' = Tail(queue)
       /\ used' = used - Head(queue).size

Next == Get \/ \E f \in Frame : Put(f)

Safety == Init /\ [][Next]_vars
Spec == Safety /\ WF_vars(Get)
=============================================================================
