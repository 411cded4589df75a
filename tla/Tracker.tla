------------------------------ MODULE Tracker --------------------------------
(* Tracker.Observe looks for a first sighting, then for a beacon. The two halves see the    *)
(* same connects and share no state, so each is followed on its own.                        *)
EXTENDS Novelty, Beacon

VARIABLE half      \* bound: the half that is followed

TrackerInit == Init /\ BeaconInit /\ half \in {"sightings", "beacons"}

Sightings == half = "sightings" /\ Next /\ UNCHANGED beaconVars
Beacons == half = "beacons" /\ (\E gap \in Gaps : Connect(gap)) /\ UNCHANGED vars

TrackerNext == (Sightings \/ Beacons) /\ UNCHANGED half

TrackerSpec == TrackerInit /\ [][TrackerNext]_<<vars, beaconVars, half>>
=============================================================================
