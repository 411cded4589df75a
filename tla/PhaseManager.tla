---------------------------- MODULE PhaseManager ----------------------------
(***************************************************************************)
(* The learning -> monitoring lifecycle of the agent (internal/phase), the *)
(* in-memory baseline it feeds and the SQLite state it leaves behind, over *)
(* any number of incarnations of the process.                              *)
(*                                                                         *)
(* Abstractions.  Time advances in aggregation windows; an instant is kept *)
(* only as its age, saturated at the duration it is compared with.  A      *)
(* dimension's 168 buckets are one sample count, saturated at SampleCap.   *)
(* What the scorer finds anomalous is any set of dimensions (module        *)
(* ColdStart opens that box).                                              *)
(***************************************************************************)
EXTENDS Naturals

CONSTANTS
    Dims,        \* metric dimensions that can appear in a window
    SampleCap,   \* sample counts saturate here
    LearnDur,    \* learning_duration, in aggregation windows
    RecalibInt,  \* recalibration_interval, in aggregation windows
    MaxCrashes,  \* bound: abrupt ends of the process
    MaxFaults,   \* bound: failed store operations
    MaxResets,   \* bound: calls of Reset
    MaxQuiet     \* bound: windows in which no event was counted

ASSUME ConstantsAssumption ==
    /\ Dims # {}
    /\ SampleCap \in Nat \ {0}
    /\ LearnDur \in Nat \ {0}
    /\ RecalibInt \in Nat
    /\ MaxCrashes \in Nat /\ MaxFaults \in Nat
    /\ MaxResets \in Nat /\ MaxQuiet \in Nat

VARIABLES
    pc,          \* what the main goroutine does next
    closing,     \* ctx.Done was selected: the window in hand is the last one
    tickDue,     \* a value waits in windowTicker.C
    win,         \* dimensions counted in the window being processed
    phase,       \* Manager.phase
    learnAge,    \* time since Manager.learningStart
    recalibAge,  \* time since Manager.lastRecalib
    engine,      \* samples in the in-memory baseline
    job, name,   \* the caller of persist in progress, and its argument
    open,        \* store.New succeeded in this incarnation (st != nil)
    dbBaseline,  \* table baselines; all zero when it has no row
    dbPhase,     \* metadata row "phase"
    dbAge,       \* age of metadata row "learning_started_at", or NoRow
    crashes, faults, resets, quiets,  \* what happened so far, against the bounds
    earned, dbEarned,  \* history: a learning phase ran to its end on this baseline
    blind,       \* history: some start failed to read the stored baseline
    clean,       \* history: the last incarnation ended by a graceful shutdown
    unsaved,     \* history: windows of monitoring since the baseline was saved
    resetOpen    \* history: Reset was called and no learning has ended since

manager == <<phase, learnAge, recalibAge>>
persisting == <<job, name>>
db == <<dbBaseline, dbPhase, dbAge, dbEarned>>
bounds == <<crashes, faults, resets, quiets>>
vars == <<pc, closing, tickDue, win, manager, engine, persisting, open, db,
          bounds, earned, blind, clean, unsaved, resetOpen>>

NoRow == LearnDur + 1    \* GetMeta returned "": outside the range of an age
Counts == [Dims -> 0..SampleCap]
Empty == [d \in Dims |-> 0]
Known(b) == \E d \in Dims : b[d] > 0
Covers(b, c) == \A d \in Dims : b[d] >= c[d]

PCs == {"down", "idle", "ingest", "score", "persist", "save", "meta", "exit"}
Phases == {"learning", "monitoring"}

Num(b) == IF b THEN 1 ELSE 0
Older(age, cap) == IF age < cap THEN age + 1 ELSE age
PutOff(n) == n * (RecalibInt + 1)  \* windows by which n failures delay a save
LossBound(n) == RecalibInt + 2 + PutOff(n)
UnsavedCap == LossBound(MaxFaults) + 1

\* What engine.IngestFiltered adds when the dimensions ds are not skipped.
Ingested(ds) ==
    [d \in Dims |-> IF d \in ds /\ engine[d] < SampleCap
                    THEN engine[d] + 1 ELSE engine[d]]

Init ==
    /\ pc = "down" /\ closing = FALSE /\ tickDue = FALSE /\ win = {}
    /\ phase = "learning" /\ learnAge = 0 /\ recalibAge = 0 /\ engine = Empty
    /\ job = "none" /\ name = "learning" /\ open = TRUE
    /\ dbBaseline = Empty /\ dbPhase = "none" /\ dbAge = NoRow
    /\ crashes = 0 /\ faults = 0 /\ resets = 0 /\ quiets = 0
    /\ earned = FALSE /\ dbEarned = FALSE /\ blind = FALSE /\ clean = FALSE
    /\ unsaved = 0 /\ resetOpen = FALSE

\* n store operations fail in this step.
Fail(n) ==
    /\ faults + n <= MaxFaults
    /\ faults' = faults + n
    /\ UNCHANGED <<crashes, resets, quiets>>

-----------------------------------------------------------------------------
(* Start of the process: store.New, NewManager. *)

Boots ==
    /\ pc = "down"
    /\ pc' = "idle" /\ closing' = FALSE /\ tickDue' = FALSE /\ win' = {}
    /\ recalibAge' = 0 /\ unsaved' = 0 /\ clean' = FALSE
    /\ UNCHANGED <<persisting, resetOpen>>

\* Mutation: the snapshots are read but never handed to engine.Restore.
RestoreBaselineDropped == engine' = Empty /\ earned' = dbEarned
RestoreBaseline == engine' = dbBaseline /\ earned' = dbEarned
BlankBaseline == engine' = Empty /\ earned' = FALSE

\* learningStart = time.Now(), then SetMeta(learning_started_at), which may fail.
StartLearningClock(setFails) ==
    /\ learnAge' = 0
    /\ dbAge' = IF setFails THEN dbAge ELSE 0
    /\ UNCHANGED <<dbBaseline, dbPhase, dbEarned>>

\* LoadBaseline failed, or found nothing: learn from scratch.
BootEmpty(loadFails, setFails) ==
    /\ Boots
    /\ loadFails \/ ~Known(dbBaseline)
    /\ Fail(Num(loadFails) + Num(setFails))
    /\ open' = TRUE /\ phase' = "learning"
    /\ BlankBaseline
    /\ StartLearningClock(setFails)
    /\ blind' = (blind \/ loadFails)

\* Mutation: any restored baseline means monitoring.
BootMonitoringUnchecked ==
    /\ Boots
    /\ Known(dbBaseline)
    /\ open' = TRUE /\ phase' = "monitoring" /\ learnAge' = 0
    /\ RestoreBaseline
    /\ UNCHANGED <<db, bounds, blind>>

\* A baseline and the phase "monitoring" were found.
BootMonitoring ==
    /\ Boots
    /\ Known(dbBaseline) /\ dbPhase = "monitoring"
    /\ open' = TRUE /\ phase' = "monitoring" /\ learnAge' = 0
    /\ RestoreBaseline
    /\ UNCHANGED <<db, bounds, blind>>

\* Mutation: the stored start of learning is not looked at.
BootLearningForgetful(phaseFails, startFails, setFails) ==
    /\ Boots
    /\ Known(dbBaseline)
    /\ phaseFails \/ dbPhase # "monitoring"
    /\ Fail(Num(phaseFails) + Num(startFails) + Num(setFails))
    /\ open' = TRUE /\ phase' = "learning"
    /\ RestoreBaseline
    /\ StartLearningClock(setFails)
    /\ UNCHANGED blind

\* Mutation: a missing learning_started_at is taken for a value.
BootLearningUnmigrated(phaseFails, startFails, setFails) ==
    /\ Boots
    /\ Known(dbBaseline)
    /\ phaseFails \/ dbPhase # "monitoring"
    /\ Fail(Num(phaseFails) + Num(startFails) + Num(setFails))
    /\ open' = TRUE /\ phase' = "learning"
    /\ RestoreBaseline
    /\ learnAge' = dbAge
    /\ UNCHANGED <<db, blind>>

\* A baseline without the phase "monitoring" (or GetMeta failed): the learning
\* clock goes on from the stored start when it can be read, else from now.
BootLearning(phaseFails, startFails, setFails) ==
    /\ Boots
    /\ Known(dbBaseline)
    /\ phaseFails \/ dbPhase # "monitoring"
    /\ Fail(Num(phaseFails) + Num(startFails) + Num(setFails))
    /\ open' = TRUE /\ phase' = "learning"
    /\ RestoreBaseline
    /\ \/ /\ startFails \/ dbAge = NoRow
          /\ StartLearningClock(setFails)
       \/ /\ ~startFails /\ dbAge # NoRow /\ ~setFails
          /\ learnAge' = dbAge
          /\ UNCHANGED db
    /\ UNCHANGED blind

\* store.New failed: the incarnation runs without persistence.
BootWithoutStore ==
    /\ Boots
    /\ Fail(1)
    /\ open' = FALSE /\ phase' = "learning" /\ learnAge' = 0
    /\ BlankBaseline
    /\ UNCHANGED <<db, blind>>

Boot ==
    \/ \E l, s \in BOOLEAN : BootEmpty(l, s)
    \/ BootMonitoring
    \/ \E p, t, s \in BOOLEAN : BootLearning(p, t, s)
    \/ BootWithoutStore

-----------------------------------------------------------------------------
(* ProcessWindow, on the main goroutine. *)

\* The lock section that opens ProcessWindow: the transition is decided here and
\* persisted, under the lock, before the window that crossed the duration is used.
BeginWindow(w) ==
    /\ win' = w
    /\ quiets + Num(w = {}) <= MaxQuiet
    /\ quiets' = quiets + Num(w = {})
    /\ \/ /\ phase = "learning" /\ learnAge >= LearnDur
          /\ phase' = "monitoring" /\ earned' = TRUE /\ resetOpen' = FALSE
          /\ job' = "transition" /\ name' = "monitoring"
          /\ pc' = "save"
       \/ /\ phase = "learning" /\ learnAge < LearnDur
          /\ pc' = "ingest"
          /\ UNCHANGED <<phase, earned, resetOpen, persisting>>
       \/ /\ phase = "monitoring"
          /\ pc' = "score"
          /\ UNCHANGED <<phase, earned, resetOpen, persisting>>
    /\ UNCHANGED <<learnAge, recalibAge, engine, open, db, crashes, faults,
                   resets, blind, clean, unsaved>>

\* case <-windowTicker.C
WindowTick ==
    /\ pc = "idle" /\ tickDue
    /\ tickDue' = FALSE
    /\ \E w \in SUBSET Dims : BeginWindow(w)
    /\ UNCHANGED closing

\* case <-ctx.Done(): tickers stopped, pipeline drained, the last window rotated out.
ShutDown ==
    /\ pc = "idle"
    /\ closing' = TRUE /\ tickDue' = FALSE
    /\ \E w \in SUBSET Dims : BeginWindow(w)

WindowDone == IF closing THEN "persist" ELSE "idle"

\* Learning: everything in the window is ingested.
Ingest ==
    /\ pc = "ingest"
    /\ engine' = Ingested(win)
    /\ pc' = WindowDone
    /\ UNCHANGED <<closing, tickDue, win, manager, persisting, open, db, bounds,
                   earned, blind, clean, unsaved, resetOpen>>

\* Mutation: a due recalibration is stamped but not persisted.
ScoreAndIngestUnsaved ==
    /\ pc = "score"
    /\ \E skip \in SUBSET win : engine' = Ingested(win \ skip)
    /\ recalibAge' = IF recalibAge >= RecalibInt THEN 0 ELSE recalibAge
    /\ pc' = WindowDone
    /\ UNCHANGED <<closing, tickDue, win, phase, learnAge, persisting, open, db,
                   bounds, earned, blind, clean, unsaved, resetOpen>>

\* Monitoring: Score, IngestFiltered without the skipped dimensions, then the
\* recalibration check, which stamps lastRecalib before it persists.
ScoreAndIngest ==
    /\ pc = "score"
    /\ \E skip \in SUBSET win : engine' = Ingested(win \ skip)
    /\ \/ /\ recalibAge >= RecalibInt
          /\ recalibAge' = 0
          /\ job' = "recalib" /\ name' = "monitoring"
          /\ pc' = "save"
       \/ /\ recalibAge < RecalibInt
          /\ pc' = WindowDone
          /\ UNCHANGED <<recalibAge, persisting>>
    /\ UNCHANGED <<closing, tickDue, win, phase, learnAge, open, db, bounds,
                   earned, blind, clean, unsaved, resetOpen>>

-----------------------------------------------------------------------------
(* Persist and persist: two separate writes, each of which may fail. *)

\* Mutation: Persist names the phase as the other callers of persist do.
BeginPersistMonitoring ==
    /\ pc = "persist"
    /\ job' = "shutdown" /\ name' = "monitoring"
    /\ pc' = "save"
    /\ UNCHANGED <<closing, tickDue, win, manager, engine, open, db, bounds,
                   earned, blind, clean, unsaved, resetOpen>>

\* Persist reads the phase, then calls persist.
BeginPersist ==
    /\ pc = "persist"
    /\ job' = "shutdown" /\ name' = phase
    /\ pc' = "save"
    /\ UNCHANGED <<closing, tickDue, win, manager, engine, open, db, bounds,
                   earned, blind, clean, unsaved, resetOpen>>

\* Where the caller of persist goes on; the transition restarts the
\* recalibration clock once it has persisted.
PersistReturns ==
    /\ pc' = CASE job = "transition" -> "score"
               [] job = "recalib" -> WindowDone
               [] OTHER -> "exit"
    /\ recalibAge' = IF job = "transition" THEN 0 ELSE recalibAge
    /\ UNCHANGED <<closing, tickDue, win, phase, learnAge, engine, persisting,
                   open, dbAge, earned, blind, clean, resetOpen>>

PersistWithoutStore ==
    /\ pc = "save" /\ ~open
    /\ PersistReturns
    /\ UNCHANGED <<dbBaseline, dbPhase, dbEarned, bounds, unsaved>>

\* Snapshot and SaveBaseline, one transaction.
SaveBaseline ==
    /\ pc = "save" /\ open
    /\ dbBaseline' = engine /\ dbEarned' = earned
    /\ unsaved' = 0
    /\ pc' = "meta"
    /\ UNCHANGED <<closing, tickDue, win, manager, engine, persisting, open,
                   dbPhase, dbAge, bounds, earned, blind, clean, resetOpen>>

SaveBaselineFails ==
    /\ pc = "save" /\ open
    /\ Fail(1)
    /\ PersistReturns
    /\ UNCHANGED <<dbBaseline, dbPhase, dbEarned, unsaved>>

SetPhaseMeta ==
    /\ pc = "meta"
    /\ dbPhase' = name
    /\ PersistReturns
    /\ UNCHANGED <<dbBaseline, dbEarned, bounds, unsaved>>

SetPhaseMetaFails ==
    /\ pc = "meta"
    /\ Fail(1)
    /\ PersistReturns
    /\ UNCHANGED <<dbBaseline, dbPhase, dbEarned, unsaved>>

\* OTel and HTTP shut down and main returns.
Exit ==
    /\ pc = "exit"
    /\ pc' = "down"
    /\ clean' = TRUE
    /\ UNCHANGED <<closing, tickDue, win, manager, engine, persisting, open, db,
                   bounds, earned, blind, unsaved, resetOpen>>

-----------------------------------------------------------------------------
(* Reset, the environment and the whole system. *)

\* The transition persists with m.mu held: Reset waits for it.
LockHeld == pc \in {"save", "meta"} /\ job = "transition"

Reset ==
    /\ pc \notin {"down", "exit"} /\ ~LockHeld
    /\ resets < MaxResets /\ resets' = resets + 1
    /\ phase' = "learning" /\ learnAge' = 0 /\ unsaved' = 0 /\ resetOpen' = TRUE
    /\ \/ open /\ dbAge' = 0 /\ UNCHANGED faults
       \/ ~open /\ UNCHANGED <<dbAge, faults>>
       \/ open /\ faults < MaxFaults /\ faults' = faults + 1 /\ UNCHANGED dbAge
    /\ UNCHANGED <<pc, closing, tickDue, win, recalibAge, engine, persisting,
                   open, dbBaseline, dbPhase, dbEarned, crashes, quiets, earned,
                   blind, clean>>

\* Kill, power loss or log.Fatalf of the HTTP goroutine: memory is gone.
Crash ==
    /\ pc # "down" /\ crashes < MaxCrashes
    /\ crashes' = crashes + 1
    /\ pc' = "down" /\ closing' = FALSE /\ tickDue' = FALSE /\ win' = {}
    /\ clean' = FALSE
    /\ UNCHANGED <<manager, engine, persisting, open, db, faults, resets, quiets,
                   earned, blind, unsaved, resetOpen>>

\* One aggregation window of time.  Processing a window, or shutting down, takes
\* less than a window: the clock waits for a due tick to be taken.
Tick ==
    /\ pc = "down" \/ ~(tickDue \/ closing)
    /\ tickDue' = (pc # "down")
    /\ dbAge' = IF dbAge = NoRow THEN NoRow ELSE Older(dbAge, LearnDur)
    /\ IF pc = "down"
       THEN UNCHANGED <<learnAge, recalibAge, unsaved>>
       ELSE /\ learnAge' = Older(learnAge, LearnDur)
            /\ recalibAge' = Older(recalibAge, RecalibInt)
            /\ unsaved' = IF phase = "monitoring"
                          THEN Older(unsaved, UnsavedCap) ELSE unsaved
    /\ UNCHANGED <<pc, closing, win, phase, engine, persisting, open, dbBaseline,
                   dbPhase, dbEarned, bounds, earned, blind, clean, resetOpen>>

\* The steps main takes without waiting for a timer or a signal.
MainStep ==
    \/ Ingest \/ ScoreAndIngest
    \/ BeginPersist \/ PersistWithoutStore
    \/ SaveBaseline \/ SaveBaselineFails
    \/ SetPhaseMeta \/ SetPhaseMetaFails
    \/ Exit

Next ==
    \/ Boot \/ WindowTick \/ ShutDown \/ MainStep
    \/ Reset \/ Crash \/ Tick

\* systemd restarts the agent, the runtime schedules its goroutines, and time passes,
\* even when restarts keep suspending the clock of this model.
Fairness ==
    /\ WF_vars(Boot) /\ WF_vars(WindowTick) /\ WF_vars(MainStep) /\ SF_vars(Tick)

Spec == Init /\ [][Next]_vars
FairSpec == Spec /\ Fairness

-----------------------------------------------------------------------------
(* Properties. *)

Up == pc # "down"

FlagsOK ==
    /\ closing \in BOOLEAN /\ tickDue \in BOOLEAN /\ open \in BOOLEAN
    /\ earned \in BOOLEAN /\ dbEarned \in BOOLEAN /\ blind \in BOOLEAN
    /\ clean \in BOOLEAN /\ resetOpen \in BOOLEAN

StateOK ==
    /\ pc \in PCs /\ win \subseteq Dims /\ phase \in Phases
    /\ learnAge \in 0..LearnDur /\ recalibAge \in 0..RecalibInt
    /\ engine \in Counts
    /\ job \in {"none", "transition", "recalib", "shutdown"} /\ name \in Phases
    /\ dbBaseline \in Counts /\ dbPhase \in Phases \cup {"none"} /\ dbAge \in 0..NoRow
    /\ crashes \in 0..MaxCrashes /\ faults \in 0..MaxFaults
    /\ resets \in 0..MaxResets /\ quiets \in 0..MaxQuiet
    /\ unsaved \in 0..UnsavedCap

\* Ages and sample counts stay within the durations and the cap they saturate at.
TypeOK == FlagsOK /\ StateOK

\* The agent is in monitoring only on a baseline for which a learning phase ran to
\* its end, whatever it crashed between: a stored phase "monitoring" never meets a
\* baseline saved by an unfinished learning (persist writes the two separately).
\* It needs a duration of more than one window and no silent window, or the first
\* transition stores "monitoring" beside an empty baseline, and no failed load.
MonitoringEarned ==
    LearnDur > 1 /\ ~blind /\ quiets = 0 =>
        (Up /\ phase = "monitoring" => earned)

\* Saving never replaces stored samples by fewer: whatever restarts, resets and
\* failed writes came before, the engine that is snapshotted extends the stored
\* baseline, as long as no start failed to read it.
NoSavedSampleLost == [][~blind' => Covers(dbBaseline', dbBaseline)]_vars

\* A graceful shutdown followed by a start loses nothing: same baseline, same phase,
\* and a learning phase goes on from at least the age it had (Persist, NewManager).
\* Not while a Reset is open: one that falls between Persist's read of the phase and
\* its writes is overwritten.
GracefulRestart ==
    [][pc = "down" /\ Up' /\ clean /\ Known(engine) /\ faults' = 0 /\ ~resetOpen =>
        /\ engine' = engine /\ phase' = phase
        /\ phase = "learning" => learnAge' >= learnAge]_vars

\* What a crash can cost in monitoring is bounded by the recalibration interval: with a
\* store, the baseline was saved, or restored, at most RecalibInt + 2 windows ago, and
\* each failed store operation puts the next save off by at most RecalibInt + 1, since
\* lastRecalib is stamped before a persist that may fail (ProcessWindow).
BoundedLoss == open /\ Up /\ phase = "monitoring" => unsaved <= LossBound(faults)

\* Learning ends: restarted gracefully any number of times, and after finitely many
\* crashes, faults, resets and silent windows, the agent stays in monitoring.
LearningCompletes == <>[](Up => phase = "monitoring")

\* The lifecycle an operator relies on.  It is implemented by the runs in which no
\* store operation fails, Reset is not called and no window is silent.
Lifecycle == INSTANCE Lifecycle WITH
    stage <- IF pc = "down" THEN "off" ELSE phase,
    stored <- IF ~Known(dbBaseline) THEN "nothing"
              ELSE IF dbPhase = "monitoring" THEN "monitoring" ELSE "learning"

\* Crashes and restarts, between any two writes, never make the agent monitor
\* without having learned, resume more than was reached or undo what was stored.
ImplementsLifecycle == Lifecycle!Spec

=============================================================================
