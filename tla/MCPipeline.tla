---------------------------- MODULE MCPipeline ------------------------------
(* A handful of events, one of them malformed, one of a type that is switched off; a *)
(* ring buffer and a channel that both overflow.                                     *)
EXTENDS Pipeline

MCMalformed == {2}
MCExcluded == {3}
=============================================================================
