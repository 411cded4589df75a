----------------------------- MODULE Lifecycle ------------------------------
(***************************************************************************)
(* What the two-phase lifecycle promises to an operator whose agent is     *)
(* killed and restarted at will: learning comes before monitoring, what a  *)
(* start resumes was really reached, and stored progress is never undone.  *)
(***************************************************************************)
VARIABLES
    stage,   \* what the agent is doing: "off", "learning", "monitoring"
    stored   \* what a start would resume: "nothing", "learning", "monitoring"

vars == <<stage, stored>>

TypeOK ==
    /\ stage \in {"off", "learning", "monitoring"}
    /\ stored \in {"nothing", "learning", "monitoring"}

Init == stage = "off" /\ stored = "nothing"

\* A start resumes what is stored.
Start ==
    /\ stage = "off"
    /\ stage' = IF stored = "monitoring" THEN "monitoring" ELSE "learning"
    /\ UNCHANGED stored

Advance ==
    /\ stage = "learning"
    /\ stage' = "monitoring"
    /\ UNCHANGED stored

\* Progress is stored: never more than was reached, never less than before.
Store ==
    /\ \/ stage # "off" /\ stored = "nothing" /\ stored' = "learning"
       \/ stage = "monitoring" /\ stored' = "monitoring"
    /\ UNCHANGED stage

Stop ==
    /\ stage # "off"
    /\ stage' = "off"
    /\ UNCHANGED stored

Next == Start \/ Advance \/ Store \/ Stop

Spec == Init /\ [][Next]_vars
=============================================================================
