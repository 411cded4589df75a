------------------------------ MODULE MCScoring ------------------------------
(* A week of three days of two hours. *)
EXTENDS Scoring
=============================================================================
