---------------------------- MODULE MCDetectors ------------------------------
(* Two pids; the default rule, a rule of three steps and one that repeats a step. *)
EXTENDS Detectors, TLC

Symmetry == Permutations(Pids)

MCRules ==
    {[sequence |-> <<"exec", "connect">>, window |-> 1],
     [sequence |-> <<"exec", "setuid", "connect">>, window |-> 3],
     [sequence |-> <<"setuid", "setuid">>, window |-> 1]}
=============================================================================
