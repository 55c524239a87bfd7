----------------------------- MODULE MCPipeView -----------------------------
(* Small pages for the runs of PipeView. *)
EXTENDS PipeView

CONSTANTS p1, p2, a, b

TwoPipes == {p1, p2}
OnePipe == {p1}

\* One pipe is a chain; in the other b is reached directly and through a.
Built(rootChildren, root) ==
    [p \in {root, a, b} |-> IF p = root THEN rootChildren ELSE IF p = a THEN {b} ELSE {}]

ChainAndShortcut ==
    [p \in {p1, p2} |-> Built(IF p = p1 THEN {a} ELSE {a, b}, p)]
=============================================================================
