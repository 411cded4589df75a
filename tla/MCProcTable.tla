---------------------------- MODULE MCProcTable ------------------------------
(* Three task ids, one process to begin with. *)
EXTENDS ProcTable
=============================================================================
