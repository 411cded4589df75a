----------------------------- MODULE MCNovelty -------------------------------
(* Two keys, which nothing tells apart; gaps that are too short, steady give or take, and *)
(* too long.                                                                              *)
EXTENDS Tracker, TLC

Symmetry == Permutations(Keys)
=============================================================================
