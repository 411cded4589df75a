------------------------------ MODULE ColdStart -----------------------------
(***************************************************************************)
(* How a dimension enters the baseline once learning is over: the scorer's *)
(* verdicts, the fast-track and hold tables of the baseline engine, and    *)
(* the ingest gate of ProcessWindow on the main goroutine, interleaved     *)
(* with the consumer goroutine that marks high-severity metrics and counts *)
(* events.                                                                 *)
(*                                                                         *)
(* Abstractions.  Time is counted in windows.  The statistics behind a     *)
(* verdict are one bit of the input: whether the count of a dimension in a *)
(* window is out of range (above a ceiling, or an outlier to a baseline    *)
(* that is ready); the 168 buckets of a dimension are one sample count.    *)
(***************************************************************************)
EXTENDS Naturals

CONSTANTS
    Dims,          \* dimension keys
    MetricOf,      \* the metric name of a key
    HostOf,        \* the host-wide key of the same metric
    HighSeverity,  \* metrics whose rule is a high-severity one (isHighSeverityRule)
    Ceilinged,     \* metrics with an absolute ceiling (scoring.ceilings)
    MinSamples,    \* minimum_samples
    SampleCap,     \* bound: sample counts saturate here
    FTWindow       \* new_dimension_learn_window, in aggregation windows

ASSUME ConstantsAssumption ==
    /\ MetricOf \in [Dims -> STRING]
    /\ HostOf \in [Dims -> Dims]
    /\ \A d \in Dims : MetricOf[HostOf[d]] = MetricOf[d]
    /\ MinSamples \in Nat \ {0} /\ SampleCap \in Nat /\ SampleCap > MinSamples
    /\ FTWindow \in Nat \ {0}

VARIABLES
    cpc, ev,     \* consumer goroutine: what it does next, the event in hand (its key)
    current,     \* keys counted in Aggregator.current
    pc,          \* main goroutine: what it does next
    win, wild,   \* the window being processed, and its keys whose count is out of range
    maint,       \* that window started in a maintenance window
    cold,        \* keys reported as cold starts
    todo, skip,  \* cold starts still to be gated, keys left out of the ingest
    engine,      \* samples per key in the in-memory baseline
    ftAge,       \* age of Engine.fastTrackStarted[key], or NotStarted
    held,        \* Engine.heldFastTrackMetrics
    db,          \* the persisted baseline
    alerts       \* history: cold-start alerts per key in this incarnation, up to 2

consumer == <<cpc, ev, current>>
window == <<win, wild, maint>>
verdicts == <<cold, todo, skip>>
tables == <<engine, ftAge, held>>
vars == <<consumer, pc, window, verdicts, tables, db, alerts>>

NotStarted == FTWindow + 2
Ages == 0..(FTWindow + 1)      \* saturated: anything above FTWindow is expired
NoEvent == "none"

Known(d) == engine[d] > 0
Ready(d) == engine[d] >= MinSamples
InFastTrack(d) == ftAge[d] <= FTWindow
Held(d) == MetricOf[d] \in held

Init ==
    /\ cpc = "recv" /\ ev = NoEvent /\ current = {}
    /\ pc = "idle" /\ win = {} /\ wild = {} /\ maint = FALSE
    /\ cold = {} /\ todo = {} /\ skip = {}
    /\ engine \in [Dims -> {0, MinSamples}]   \* whatever learning has seen
    /\ ftAge = [d \in Dims |-> NotStarted] /\ held = {}
    /\ db = engine
    /\ alerts = [d \in Dims |-> 0]

-----------------------------------------------------------------------------
(* Consumer goroutine. *)

\* An event is received and the rules are evaluated: a high-severity match marks its
\* metric (MarkHighSeverityMetric).
Match(d) ==
    /\ cpc = "recv"
    /\ ev' = d
    /\ held' = IF MetricOf[d] \in HighSeverity THEN held \cup {MetricOf[d]} ELSE held
    /\ cpc' = "add"
    /\ UNCHANGED <<current, pc, window, verdicts, engine, ftAge, db, alerts>>

\* agg.Add: the event's own key and the host-wide key.
Add ==
    /\ cpc = "add"
    /\ current' = current \cup {ev, HostOf[ev]}
    /\ ev' = NoEvent
    /\ cpc' = "recv"
    /\ UNCHANGED <<pc, window, verdicts, tables, db, alerts>>

-----------------------------------------------------------------------------
(* Main goroutine: Rotate and ProcessWindow in the monitoring phase. *)

\* The time since a fast-track start, one window later.
Older(age) == IF age <= FTWindow THEN age + 1 ELSE age

Rotate ==
    /\ pc = "idle"
    /\ win' = current /\ current' = {}
    /\ maint' \in BOOLEAN
    /\ ftAge' = [d \in Dims |-> Older(ftAge[d])]
    /\ pc' = "score"
    /\ UNCHANGED <<cpc, ev, wild, verdicts, engine, held, db, alerts>>

\* What Score can see as out of range: never a known key in fast-track, otherwise a
\* ceiling at any time and an outlier only to a baseline that is ready.
Scorable(d) ==
    /\ ~(InFastTrack(d) /\ Known(d))
    /\ MetricOf[d] \in Ceilinged \/ Ready(d)

\* Engine.StartFastTrack for each key: a key that has a start time keeps it.
FastTrackForgotten(keys) == ftAge                       \* mutant
StartFastTrack(keys) == [d \in Dims |-> IF d \in keys /\ ftAge[d] = NotStarted THEN 0 ELSE ftAge[d]]

Score ==
    /\ pc = "score"
    /\ wild' \in SUBSET win
    /\ skip' = IF maint THEN {} ELSE {d \in wild' : Scorable(d)}
    /\ cold' = IF maint THEN {} ELSE {d \in win \ skip' : ~Known(d) /\ ~InFastTrack(d)}
    /\ ftAge' = StartFastTrack(cold')
    /\ alerts' = [d \in Dims |-> IF d \in cold' /\ alerts[d] < 2 THEN alerts[d] + 1 ELSE alerts[d]]
    /\ todo' = cold'
    /\ pc' = "gate"
    /\ UNCHANGED <<consumer, win, maint, engine, held, db>>

ShouldIngestUnheld(d) == InFastTrack(d)                 \* mutant: the hold is forgotten
ShouldIngestExpired(d) == ~InFastTrack(d) /\ ~Held(d)   \* mutant: the test is inverted

\* ShouldIngestColdStart, for one cold start.
ShouldIngestColdStart(d) == InFastTrack(d) /\ ~Held(d)

\* Mutant: the set of keys to leave out starts anew with every cold start.
GateForgets(d) ==
    /\ pc = "gate" /\ d \in todo
    /\ todo' = todo \ {d}
    /\ skip' = IF ShouldIngestColdStart(d) THEN {} ELSE {d}
    /\ UNCHANGED <<consumer, pc, window, cold, tables, db, alerts>>

Gate(d) ==
    /\ pc = "gate" /\ d \in todo
    /\ todo' = todo \ {d}
    /\ skip' = IF ShouldIngestColdStart(d) THEN skip ELSE skip \cup {d}
    /\ UNCHANGED <<consumer, pc, window, cold, tables, db, alerts>>

\* The keys of the window that are not left out gain a sample; the recalibration that
\* may be due, or the Persist of a shutdown after its last window, stores the result.
IngestFiltered ==
    /\ pc = "gate" /\ todo = {}
    /\ engine' = [d \in Dims |-> IF d \in win \ skip /\ engine[d] < SampleCap
                                 THEN engine[d] + 1 ELSE engine[d]]
    /\ db' \in {db, engine'}
    /\ pc' = "idle"
    /\ win' = {} /\ wild' = {} /\ maint' = FALSE
    /\ cold' = {} /\ skip' = {}
    /\ UNCHANGED <<consumer, todo, ftAge, held, alerts>>

\* The process ends and starts again from the store, in monitoring: the fast-track and
\* hold tables are not stored, the window being filled is lost.
Restart ==
    /\ cpc' = "recv" /\ ev' = NoEvent /\ current' = {}
    /\ pc' = "idle" /\ win' = {} /\ wild' = {} /\ maint' = FALSE
    /\ cold' = {} /\ todo' = {} /\ skip' = {}
    /\ engine' = db
    /\ ftAge' = [d \in Dims |-> NotStarted] /\ held' = {}
    /\ alerts' = [d \in Dims |-> 0]
    /\ UNCHANGED db

Main == Rotate \/ Score \/ (\E d \in Dims : Gate(d)) \/ IngestFiltered

Next == (\E d \in Dims : Match(d)) \/ Add \/ Main \/ Restart

Spec == Init /\ [][Next]_vars

-----------------------------------------------------------------------------
(* Properties. *)

StateOK ==
    /\ cpc \in {"recv", "add"} /\ ev \in Dims \cup {NoEvent} /\ current \subseteq Dims
    /\ pc \in {"idle", "score", "gate"}
    /\ win \subseteq Dims /\ wild \subseteq win
    /\ cold \subseteq Dims /\ todo \subseteq cold /\ skip \subseteq Dims
    /\ engine \in [Dims -> 0..SampleCap] /\ db \in [Dims -> 0..SampleCap]
    /\ ftAge \in [Dims -> Ages \cup {NotStarted}]
    /\ held \subseteq {MetricOf[d] : d \in Dims}
    /\ alerts \in [Dims -> 0..2]

FlagOK == maint \in BOOLEAN

TypeOK == StateOK /\ FlagOK

\* A high-severity event is never learned from in the window that brings its dimension
\* up for the first time: the consumer marks the metric before it counts the event, so
\* whatever the interleaving with rotation, scoring and gating, the gate sees the mark.
HeldAtFirstSight ==
    pc = "gate" /\ todo = {} =>
        \A d \in cold : MetricOf[d] \in HighSeverity => d \in skip

\* Between windows a dimension on which fast-track was started is in the baseline, or
\* its metric is held: no other way leads to a dimension that is alerted on and then
\* neither scored nor learned.
ColdStartSettles ==
    pc = "idle" => \A d \in Dims : ftAge[d] # NotStarted /\ ~Known(d) => Held(d)

\* A dimension whose metric is not held raises one cold-start alert per incarnation.
OneColdStart == \A d \in Dims : ~Held(d) => alerts[d] <= 1

\* Outside fast-track and maintenance windows, a count that is out of range for a
\* baseline that is ready is left out of the baseline.
OutliersLeftOut ==
    [][~Restart /\ pc = "gate" /\ ~maint =>
        \A d \in wild : Ready(d) /\ ~InFastTrack(d) => engine'[d] = engine[d]]_vars

-----------------------------------------------------------------------------
(* What the documentation says and the code does not do. *)

\* DESIGN.md:261: high-severity new dimensions "are not auto-normalized during the 24h
\* fast-track window".
HoldLastsFastTrack ==
    [][~Restart /\ ~maint =>
        \A d \in Dims : ~Known(d) /\ InFastTrack(d) /\ Held(d) => engine'[d] = 0]_vars
=============================================================================
