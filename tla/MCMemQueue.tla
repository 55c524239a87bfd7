----------------------------- MODULE MCMemQueue -----------------------------
(***************************************************************************)
(* Instances of MemQueue for TLC.                                          *)
(***************************************************************************)
EXTENDS MemQueue, TLC

CONSTANTS p1, p2, c1, c2

TwoProducers == {p1, p2}
OneConsumer  == {c1}
TwoConsumers == {c1, c2}

Small == {3}
Mixed == {3, 4}
=============================================================================
