--------------------------- MODULE MCPhaseManager ---------------------------
(* The instance of PhaseManager that TLC checks; the cfg files give the bounds. *)
EXTENDS PhaseManager
=============================================================================
