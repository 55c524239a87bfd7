---------------------------- MODULE MCUsageTables ----------------------------
(* Small instances for the run of UsageTables. *)
EXTENDS UsageTables

CONSTANTS w1, w2

TwoWorkers == {w1, w2}
=============================================================================
