------------------------------ MODULE MCPidLog ------------------------------
(***************************************************************************)
(* An instance of PidLog for TLC.                                          *)
(***************************************************************************)
EXTENDS PidLog

CONSTANTS c1, c2

TwoClients == {c1, c2}

\* The worker of one session is a script, that of the other a function.
OneFunction == {Worker(c2, 1)}
=============================================================================
