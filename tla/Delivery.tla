------------------------------ MODULE Delivery ------------------------------
(***************************************************************************)
(* What the path from the tracepoints to the baseline promises: every      *)
(* event is lost or rated at most once, and the windows cut the stream of  *)
(* events in the order in which the kernel emitted them.                   *)
(***************************************************************************)
EXTENDS Naturals

VARIABLES
    seen,    \* events emitted so far; they are numbered from 1
    lost,    \* events that will never be counted
    rated    \* events counted in a window that was handed to the phase manager

vars == <<seen, lost, rated>>

Open == 1..seen \ (lost \cup rated)

Init == seen = 0 /\ lost = {} /\ rated = {}

\* An event is emitted; it may be lost at once.
Emit ==
    /\ seen' = seen + 1
    /\ lost' \in {lost, lost \cup {seen + 1}}
    /\ UNCHANGED rated

Lose ==
    /\ \E e \in Open : lost' = lost \cup {e}
    /\ UNCHANGED <<seen, rated>>

RateWindow ==
    /\ \E window \in SUBSET Open :
        /\ \A e \in window, f \in rated : f < e
        /\ rated' = rated \cup window
    /\ UNCHANGED <<seen, lost>>

Next == Emit \/ Lose \/ RateWindow

Spec == Init /\ [][Next]_vars
=============================================================================
