---------------------------- MODULE MCPipeClient ----------------------------
(* Small clients for the runs of PipeClient. *)
EXTENDS PipeClient

OneTask == {"main"}
=============================================================================
