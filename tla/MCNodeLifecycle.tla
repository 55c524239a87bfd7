-------------------------- MODULE MCNodeLifecycle --------------------------
(* Small nodes for the runs of NodeLifecycle. *)
EXTENDS NodeLifecycle

OnePipeOne == [n \in {"p1"} |-> <<"a">>]
OnePipeTwo == [n \in {"p1"} |-> <<"a", "b">>]

Twice  == [p \in Procs |-> 2]
Uneven == [p \in Procs |-> IF p = "a" THEN 1 ELSE 2]
=============================================================================
