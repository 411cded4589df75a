------------------------------- MODULE Scoring -------------------------------
(***************************************************************************)
(* One dimension in the baseline: which buckets of the seasonal week a     *)
(* verdict of the scorer rests on, how much that is trusted, and which     *)
(* windows go into the baseline.                                           *)
(*                                                                         *)
(* Abstractions.  A bucket is its number of samples.  How far a count is   *)
(* from what its baseline expects is an input, as are ceilings, holds and  *)
(* maintenance windows; so is the choice between deviation and median.     *)
(***************************************************************************)
EXTENDS Integers, FiniteSets

CONSTANTS
    HoursPerDay, DaysPerWeek,
    MinSamples,  \* minimum_samples
    SampleCap    \* bound: sample counts saturate here

ASSUME ConstantsAssumption ==
    /\ HoursPerDay \in Nat \ {0} /\ DaysPerWeek \in Nat \ {0}
    /\ MinSamples \in Nat \ {0}
    /\ SampleCap \in Nat \ {0}

HourlyBuckets == HoursPerDay * DaysPerWeek
Slots == 0 .. HourlyBuckets - 1

VARIABLES
    phase,       \* of the phase manager
    samples,     \* Count of each bucket of the dimension
    fastTrack,   \* not started, on, or over
    verdict      \* the window being processed, with the scorer's result

vars == <<phase, samples, fastTrack, verdict>>

NoVerdict == [kind |-> "none"]

Init ==
    /\ phase = "learning" /\ fastTrack = "no" /\ verdict = NoVerdict
    /\ samples = [slot \in Slots |-> 0]

-----------------------------------------------------------------------------
(* The baseline's answer, with its confidence as a fraction. *)

Ready(slot) == samples[slot] >= MinSamples

NeighborsAround(slot) ==                  \* mutant: around the week
    {(slot + d) % HourlyBuckets : d \in {HourlyBuckets - 1, 1,
                                         HourlyBuckets - HoursPerDay, HoursPerDay}}

\* neighborIndices: the hour before, the hour after, the day before, the day after, as far as
\* they are in the table. The week does not wrap around.
NeighborIndices(slot) == {slot - 1, slot + 1, slot - HoursPerDay, slot + HoursPerDay} \cap Slots

ReadyNeighbors(slot) == {n \in NeighborIndices(slot) : Ready(n)}

\* All samples of the dimension.
TotalSamples == Cardinality({p \in Slots \X (1 .. SampleCap) : p[2] <= samples[p[1]]})

AtMost(a, b) == IF a > b THEN b ELSE a

NoAnswer == [ready |-> FALSE, num |-> 0, den |-> 1]

Answer(num, den) == [ready |-> TRUE, num |-> num, den |-> den]

NoFallback == NoAnswer                    \* mutant

\* globalFallback: the mean of all buckets that are ready, at half the confidence.
GlobalFallback ==
    LET full == MinSamples * HourlyBuckets IN
    IF \E slot \in Slots : Ready(slot)
    THEN Answer(AtMost(TotalSamples, full), 2 * full) ELSE NoAnswer

\* lookupWithFallback.
Lookup(slot) ==
    IF Ready(slot) THEN Answer(AtMost(samples[slot], 3 * MinSamples), 3 * MinSamples)
    ELSE IF ReadyNeighbors(slot) # {} THEN Answer(3 * Cardinality(ReadyNeighbors(slot)), 16)
    ELSE GlobalFallback

-----------------------------------------------------------------------------
(* The scorer's verdict on a window, and its way into the baseline. *)

Known == \E slot \in Slots : samples[slot] > 0

InFastTrack == fastTrack = "on"

\* Below 0.35 a severity goes down one step, below 0.6 only a critical one.
SeverityFromConfidence(base, answer) ==
    IF 20 * answer.num < 7 * answer.den
    THEN IF base = "critical" THEN "warning" ELSE "info"
    ELSE IF base = "critical" /\ 5 * answer.num < 3 * answer.den THEN "warning" ELSE base

\* A window that Score passes over: the whole of it, or a dimension in fast-track.
Excused(over, maintenance) == maintenance \/ (InFastTrack /\ (Known \/ ~over))

Deviations == {"usual", "off", "far", "rare"}

\* What Score makes of the dimension, in the order of its tests. One that is rare, with a
\* mean below one, is not missed.
Kind(slot, deviation, over, maintenance) ==
    IF Excused(over, maintenance) THEN "excused"
    ELSE IF over THEN "ceiling"
    ELSE IF ~Known THEN "cold"
    ELSE IF ~Lookup(slot).ready THEN "silent"
    ELSE IF deviation = "rare" THEN "rare" ELSE "scored"

Severity(slot, kind, deviation) ==
    CASE kind = "ceiling" -> SeverityFromConfidence("warning", Lookup(slot))
      [] kind = "cold" -> "info"
      [] kind = "scored" /\ deviation = "off" -> SeverityFromConfidence("warning", Lookup(slot))
      [] kind = "scored" /\ deviation = "far" -> SeverityFromConfidence("critical", Lookup(slot))
      [] OTHER -> "none"

\* A dimension is counted in the window, or known and missing from it.
Score(slot, present, deviation, over, maintenance) ==
    /\ phase = "monitoring" /\ verdict = NoVerdict
    /\ present \/ (Known /\ ~over)
    /\ deviation = "rare" => ~present
    /\ LET kind == Kind(slot, deviation, over, maintenance) IN
       /\ verdict' = [kind |-> kind, slot |-> slot, present |-> present,
                      severity |-> Severity(slot, kind, deviation)]
       /\ fastTrack' = IF kind = "cold" /\ fastTrack = "no" THEN "on" ELSE fastTrack
    /\ UNCHANGED <<phase, samples>>

\* updateBucket, for the number of samples.
Update(slot) ==
    samples' = [samples EXCEPT ![slot] = IF samples[slot] < SampleCap THEN samples[slot] + 1
                                         ELSE samples[slot]]

\* The gate of ProcessWindow: no anomaly is ingested, but a cold start in fast-track is,
\* unless it is held.
Gated(held) ==
    /\ verdict.severity # "none"
    /\ ~(verdict.kind = "cold" /\ InFastTrack /\ ~held)

IngestFiltered(held) ==
    /\ verdict # NoVerdict
    /\ IF verdict.present /\ ~Gated(held) THEN Update(verdict.slot) ELSE UNCHANGED samples
    /\ verdict' = NoVerdict
    /\ UNCHANGED <<phase, fastTrack>>

\* A window of the learning phase is not scored.
Ingest(slot) ==
    /\ phase = "learning" /\ Update(slot)
    /\ UNCHANGED <<phase, fastTrack, verdict>>

LearningEnds ==
    /\ phase = "learning" /\ phase' = "monitoring"
    /\ UNCHANGED <<samples, fastTrack, verdict>>

FastTrackEnds ==
    /\ fastTrack = "on" /\ verdict = NoVerdict /\ fastTrack' = "over"
    /\ UNCHANGED <<phase, samples, verdict>>

Next ==
    \/ \E slot \in Slots : Ingest(slot)
    \/ \E slot \in Slots, present, over, maintenance \in BOOLEAN,
          deviation \in Deviations :
        Score(slot, present, deviation, over, maintenance)
    \/ \E held \in BOOLEAN : IngestFiltered(held)
    \/ LearningEnds \/ FastTrackEnds

Spec == Init /\ [][Next]_vars

-----------------------------------------------------------------------------
(* Properties. *)

TypeOK ==
    /\ phase \in {"learning", "monitoring"}
    /\ samples \in [Slots -> 0 .. SampleCap]
    /\ fastTrack \in {"no", "on", "over"}
    /\ verdict # NoVerdict =>
        /\ verdict.slot \in Slots
        /\ verdict.kind \in {"excused", "ceiling", "cold", "scored", "silent", "rare"}
        /\ verdict.severity \in {"none", "info", "warning", "critical"}

\* A bucket with samples enough of its own: nine for every five that make it ready.
WellSampled(slot) == 5 * samples[slot] >= 9 * MinSamples

\* A bucket that borrows from all four sides: it is on neither the first nor the last day of
\* the table, and the hours and the days next to it are ready.
Surrounded(slot) ==
    /\ ~Ready(slot)
    /\ slot >= HoursPerDay /\ slot + HoursPerDay < HourlyBuckets
    /\ \A n \in {slot - 1, slot + 1, slot - HoursPerDay, slot + HoursPerDay} : Ready(n)

\* An alert is critical only if its own bucket is well sampled, or it borrows from all four
\* sides; the rest of the week is never ground enough, nor is the edge of it.
CriticalHasGrounds ==
    verdict # NoVerdict /\ verdict.severity = "critical" =>
        WellSampled(verdict.slot) \/ Surrounded(verdict.slot)

\* A known dimension is passed over in silence, outside maintenance and fast-track, only as
\* long as no bucket of the week is ready, or when it is missing and rare: a sparse bucket
\* never makes it blind again.
SilentOnlyUnready ==
    verdict # NoVerdict /\ verdict.kind = "silent" => \A slot \in Slots : ~Ready(slot)
=============================================================================
