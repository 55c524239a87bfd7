----------------------------- MODULE MCWorkerIO -----------------------------
(***************************************************************************)
(* Small pipes for the runs of WorkerIO.                                   *)
(***************************************************************************)
EXTENDS WorkerIO

\* A Pipe feeds a worker j and, on another machine, a worker r; a
\* source a feeds j as well, and j emits into the sink.
MeshWorkers == {"pipe", "a", "j", "r"}
MeshQueues == {"pipe_j", "pipe_r", "a_j", "sink"}
MeshIn == [w \in MeshWorkers |->
              CASE w = "j" -> <<"pipe_j", "a_j">>
                [] w = "r" -> <<"pipe_r">>
                [] OTHER -> <<>>]
MeshOut == [w \in MeshWorkers |->
               CASE w = "pipe" -> <<"pipe_j", "pipe_r">>
                 [] w = "a" -> <<"a_j">>
                 [] OTHER -> <<>>]
MeshSink == [w \in MeshWorkers |-> IF w = "j" THEN <<"sink">> ELSE <<>>]
MeshCap == [q \in MeshQueues |-> 1]

\* examples/double_counter: a emits to b and to c.
ForkWorkers == {"a", "b", "c"}
ForkQueues == {"a_b", "a_c"}
ForkIn == [w \in ForkWorkers |->
              CASE w = "b" -> <<"a_b">> [] w = "c" -> <<"a_c">> [] OTHER -> <<>>]
ForkOut == [w \in ForkWorkers |-> IF w = "a" THEN <<"a_b", "a_c">> ELSE <<>>]
ForkSink == [w \in ForkWorkers |-> <<>>]
ForkCap == [q \in ForkQueues |-> 2]

\* The frames of each source have one way through either pipe, as the theorem on
\* NoneLeftOut requires: no instances share a queue, and no two ways meet again.
ASSUME OneWayAssumption == \E carried \in [Queues -> SUBSET Sources] : OneWay(carried)
=============================================================================
