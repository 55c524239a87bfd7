----------------------------- MODULE MCNodeView -----------------------------
(* Small pages for the runs of NodeView. *)
EXTENDS NodeView

CONSTANTS p1

OnePipe == {p1}
=============================================================================
