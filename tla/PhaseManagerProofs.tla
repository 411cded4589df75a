------------------------- MODULE PhaseManagerProofs -------------------------
(***************************************************************************)
(* Theorems about PhaseManager for every set of dimensions, every duration *)
(* and every number of crashes, faults, resets and silent windows.         *)
(***************************************************************************)
EXTENDS PhaseManager, TLAPS

USE DEF PCs, Phases

-----------------------------------------------------------------------------
(* Type correctness. *)

\* One more ingested window keeps every count within its cap and loses none.
LEMMA IngestedType ==
    ASSUME engine \in Counts, NEW ds
    PROVE  Ingested(ds) \in Counts /\ Covers(Ingested(ds), engine)
  BY ConstantsAssumption DEF Counts, Ingested, Covers

\* The blank baseline is a baseline.
LEMMA EmptyType == Empty \in Counts
  BY ConstantsAssumption DEF Empty, Counts

\* A saturating age grows and stays within its cap.
LEMMA AgeType ==
    ASSUME NEW cap \in Nat, NEW age \in 0..cap
    PROVE  Older(age, cap) \in 0..cap /\ Older(age, cap) >= age
  BY DEF Older

\* Every step keeps the Boolean variables Boolean.
LEMMA FlagsStep == TypeOK /\ [Next]_vars => FlagsOK'
  <1> SUFFICES ASSUME TypeOK, [Next]_vars
               PROVE  FlagsOK'
    OBVIOUS
  <1> USE DEF TypeOK, FlagsOK, manager, persisting, db, bounds
  <1>1. ASSUME Boot PROVE FlagsOK'
    <2>1. ASSUME NEW l \in BOOLEAN, NEW s \in BOOLEAN, BootEmpty(l, s) PROVE FlagsOK'
      BY <2>1 DEF BootEmpty, Boots, BlankBaseline, StartLearningClock
    <2>2. ASSUME BootMonitoring PROVE FlagsOK'
      BY <2>2 DEF BootMonitoring, Boots, RestoreBaseline
    <2>3. ASSUME NEW p \in BOOLEAN, NEW t \in BOOLEAN, NEW s \in BOOLEAN,
                 BootLearning(p, t, s)
          PROVE  FlagsOK'
      BY <2>3 DEF BootLearning, Boots, RestoreBaseline, StartLearningClock
    <2>4. ASSUME BootWithoutStore PROVE FlagsOK'
      BY <2>4 DEF BootWithoutStore, Boots, BlankBaseline
    <2> QED
      BY <1>1, <2>1, <2>2, <2>3, <2>4 DEF Boot
  <1>2. ASSUME WindowTick \/ ShutDown PROVE FlagsOK'
    BY <1>2 DEF WindowTick, ShutDown, BeginWindow
  <1>3. ASSUME MainStep PROVE FlagsOK'
    BY ZenonT(40), <1>3 DEF MainStep, Ingest, ScoreAndIngest, BeginPersist, Exit, PersistWithoutStore,
       SaveBaselineFails, SetPhaseMeta, SetPhaseMetaFails, SaveBaseline, PersistReturns
  <1>4. ASSUME Reset \/ Crash PROVE FlagsOK'
    BY <1>4 DEF Reset, Crash
  <1>5. ASSUME Tick PROVE FlagsOK'
    BY <1>5 DEF Tick
  <1>6. ASSUME UNCHANGED vars PROVE FlagsOK'
    BY <1>6 DEF vars
  <1> QED
    BY <1>1, <1>2, <1>3, <1>4, <1>5, <1>6 DEF Next

\* Failures put the next save off by a number of windows that grows with their number.
LEMMA PutOffGrows ==
    ASSUME NEW m \in Nat, NEW n \in Nat, m <= n
    PROVE  /\ PutOff(m) \in Nat /\ PutOff(n) \in Nat
           /\ PutOff(m) <= PutOff(n)
           /\ m < n => PutOff(m) + RecalibInt + 1 <= PutOff(n)
  <1>1. PICK k \in Nat : n = m + k
    BY n - m \in Nat, n = m + (n - m)
  <1>2. PICK r \in Nat : r = RecalibInt + 1
    BY ConstantsAssumption
  <1>3. m * r \in Nat /\ k * r \in Nat /\ (m + k) * r = m * r + k * r
    BY <1>2
  <1>4. k > 0 => k * r >= r
    <2>1. ASSUME k > 0 PROVE k * r >= r
      <3>1. PICK j \in Nat : k = j + 1
        BY <2>1, k - 1 \in Nat, k = (k - 1) + 1
      <3>2. j * r \in Nat /\ (j + 1) * r = j * r + r
        BY <1>2
      <3> QED
        BY <1>2, <3>1, <3>2
    <2> QED
      BY <2>1
  <1>5. PutOff(m) = m * r /\ PutOff(n) = m * r + k * r
    BY <1>1, <1>2, <1>3 DEF PutOff
  <1> QED
    BY <1>1, <1>2, <1>3, <1>4, <1>5, ConstantsAssumption

LEMMA CapType == /\ UnsavedCap \in Nat
                 /\ \A n \in 0..MaxFaults : PutOff(n) \in Nat /\ LossBound(n) < UnsavedCap
  <1> USE ConstantsAssumption
  <1>1. \A n \in 0..MaxFaults : PutOff(n) \in Nat /\ PutOff(n) <= PutOff(MaxFaults)
    BY PutOffGrows
  <1>2. PutOff(MaxFaults) \in Nat
    BY <1>1
  <1> QED
    BY <1>1, <1>2 DEF UnsavedCap, LossBound

\* Every step keeps the other variables in their domains.
LEMMA StateStep == TypeOK /\ [Next]_vars => StateOK'
  <1> SUFFICES ASSUME StateOK, [Next]_vars
               PROVE  StateOK'
    BY DEF TypeOK
  <1> USE ConstantsAssumption, CapType DEF StateOK, NoRow, persisting
  <1>1. ASSUME Boot PROVE StateOK'
    <2>1. ASSUME NEW l \in BOOLEAN, NEW s \in BOOLEAN, BootEmpty(l, s) PROVE StateOK'
      BY <2>1, EmptyType DEF BootEmpty, Boots, BlankBaseline, StartLearningClock, Fail, Num
    <2>2. ASSUME BootMonitoring PROVE StateOK'
      BY <2>2 DEF BootMonitoring, Boots, RestoreBaseline, db, bounds
    <2>3. ASSUME NEW p \in BOOLEAN, NEW t \in BOOLEAN, NEW s \in BOOLEAN,
                 BootLearning(p, t, s)
          PROVE  StateOK'
      BY <2>3 DEF BootLearning, Boots, RestoreBaseline, StartLearningClock, Fail, Num, db
    <2>4. ASSUME BootWithoutStore PROVE StateOK'
      BY <2>4, EmptyType DEF BootWithoutStore, Boots, BlankBaseline, Fail, db
    <2> QED
      BY <1>1, <2>1, <2>2, <2>3, <2>4 DEF Boot
  <1>2. ASSUME WindowTick \/ ShutDown PROVE StateOK'
    BY <1>2 DEF WindowTick, ShutDown, BeginWindow, Num, db
  <1>3. ASSUME MainStep PROVE StateOK'
    <2>1. ASSUME Ingest PROVE StateOK'
      BY <2>1, IngestedType DEF Ingest, WindowDone, manager, db, bounds
    <2>2. ASSUME ScoreAndIngest PROVE StateOK'
      BY <2>2, IngestedType DEF ScoreAndIngest, WindowDone, db, bounds
    <2>3. ASSUME BeginPersist \/ Exit PROVE StateOK'
      BY <2>3 DEF BeginPersist, Exit, manager, db, bounds
    <2>4. ASSUME PersistWithoutStore \/ SaveBaselineFails PROVE StateOK'
      BY <2>4 DEF PersistWithoutStore, SaveBaselineFails, PersistReturns, WindowDone, Fail,
         bounds
    <2>5. ASSUME SetPhaseMeta \/ SetPhaseMetaFails PROVE StateOK'
      BY <2>5 DEF SetPhaseMeta, SetPhaseMetaFails, PersistReturns, WindowDone, Fail, bounds
    <2>6. ASSUME SaveBaseline PROVE StateOK'
      BY <2>6 DEF SaveBaseline, manager, bounds
    <2> QED
      BY <1>3, <2>1, <2>2, <2>3, <2>4, <2>5, <2>6 DEF MainStep
  <1>4. ASSUME Reset PROVE StateOK'
    BY <1>4 DEF Reset
  <1>5. ASSUME Crash PROVE StateOK'
    BY <1>5 DEF Crash, manager, db
  <1>6. ASSUME Tick PROVE StateOK'
    <2>1. /\ Older(learnAge, LearnDur) \in 0..LearnDur
          /\ Older(recalibAge, RecalibInt) \in 0..RecalibInt
          /\ Older(unsaved, UnsavedCap) \in 0..UnsavedCap
          /\ dbAge # NoRow => Older(dbAge, LearnDur) \in 0..LearnDur
      BY AgeType
    <2> QED
      BY <1>6, <2>1 DEF Tick, bounds
  <1>7. ASSUME UNCHANGED vars PROVE StateOK'
    BY <1>7 DEF vars, manager, db, bounds
  <1> QED
    BY <1>1, <1>2, <1>3, <1>4, <1>5, <1>6, <1>7 DEF Next

LEMMA TypeInit == Init => TypeOK
  <1>1. Init => FlagsOK
    BY DEF Init, FlagsOK
  <1>2. Init => StateOK
    BY ConstantsAssumption, CapType, EmptyType DEF Init, StateOK, NoRow
  <1> QED
    BY <1>1, <1>2 DEF TypeOK

\* Every variable keeps its type, whatever the constants: ages and counts stay
\* within the durations and the cap they saturate at.
THEOREM TypeCorrect == Spec => []TypeOK
  <1>1. TypeOK /\ [Next]_vars => TypeOK'
    BY FlagsStep, StateStep DEF TypeOK
  <1> QED
    BY TypeInit, <1>1, PTL DEF Spec

-----------------------------------------------------------------------------
(* No sample that was saved is lost by a later save. *)

LEMMA CoversReflexive == \A b \in Counts : Covers(b, b)
  BY ConstantsAssumption DEF Counts, Covers

LEMMA CoversTransitive ==
    \A a, b, c \in Counts : Covers(a, b) /\ Covers(b, c) => Covers(a, c)
  <1> SUFFICES ASSUME NEW a \in Counts, NEW b \in Counts, NEW c \in Counts,
                      Covers(a, b), Covers(b, c), NEW d \in Dims
               PROVE  a[d] >= c[d]
    BY DEF Covers
  <1>1. a[d] \in Nat /\ b[d] \in Nat /\ c[d] \in Nat
    BY ConstantsAssumption DEF Counts
  <1>2. a[d] >= b[d] /\ b[d] >= c[d]
    BY DEF Covers
  <1> QED
    BY <1>1, <1>2

\* A baseline no dimension of which is known is covered by the blank one.
LEMMA UnknownIsCovered ==
    \A b \in Counts : ~Known(b) => Covers(Empty, b)
  <1> SUFFICES ASSUME NEW b \in Counts, ~Known(b), NEW d \in Dims
               PROVE  Empty[d] >= b[d]
    BY DEF Covers
  <1>1. b[d] \in Nat /\ ~(b[d] > 0)
    BY ConstantsAssumption DEF Counts, Known
  <1> QED
    BY <1>1 DEF Empty

\* What makes NoSavedSampleLost inductive: the engine of an incarnation that read the
\* store extends what is stored.
EngineExtendsStore == ~blind /\ Up /\ open => Covers(engine, dbBaseline)

LEMMA EngineExtendsStoreStep ==
    TypeOK /\ EngineExtendsStore /\ [Next]_vars => EngineExtendsStore'
  <1> SUFFICES ASSUME TypeOK, EngineExtendsStore, [Next]_vars, ~blind', Up', open'
               PROVE  Covers(engine, dbBaseline)'
    BY DEF EngineExtendsStore
  <1>0. engine \in Counts /\ dbBaseline \in Counts
    BY DEF TypeOK, StateOK
  <1>1. ASSUME Boot PROVE Covers(engine', dbBaseline')
    <2>1. ASSUME NEW l \in BOOLEAN, NEW s \in BOOLEAN, BootEmpty(l, s)
          PROVE  Covers(engine', dbBaseline')
      <3>1. ~Known(dbBaseline) /\ engine' = Empty /\ dbBaseline' = dbBaseline
        BY <2>1 DEF BootEmpty, BlankBaseline, StartLearningClock
      <3> QED
        BY <1>0, <3>1, UnknownIsCovered
    <2>2. ASSUME BootMonitoring \/ \E p, t, s \in BOOLEAN : BootLearning(p, t, s)
          PROVE  Covers(engine', dbBaseline')
      <3>1. engine' = dbBaseline /\ dbBaseline' = dbBaseline
        BY <2>2 DEF BootMonitoring, BootLearning, RestoreBaseline, StartLearningClock, db
      <3> QED
        BY <1>0, <3>1, CoversReflexive
    <2>3. ~BootWithoutStore
      BY DEF BootWithoutStore
    <2> QED
      BY <1>1, <2>1, <2>2, <2>3 DEF Boot
  <1>2. ASSUME Ingest \/ ScoreAndIngest PROVE Covers(engine', dbBaseline')
    <2>1. PICK ds : engine' = Ingested(ds)
      BY <1>2 DEF Ingest, ScoreAndIngest
    <2>2. dbBaseline' = dbBaseline /\ Covers(engine, dbBaseline)
      BY <1>2 DEF Ingest, ScoreAndIngest, db, EngineExtendsStore, Up
    <2>3. Ingested(ds) \in Counts /\ Covers(Ingested(ds), engine)
      BY <1>0, IngestedType
    <2> QED
      BY <1>0, <2>1, <2>2, <2>3, CoversTransitive
  <1>3. ASSUME SaveBaseline PROVE Covers(engine', dbBaseline')
    BY <1>0, <1>3, CoversReflexive DEF SaveBaseline
  <1>4. ASSUME UNCHANGED <<engine, dbBaseline, open, blind>>, Up
        PROVE  Covers(engine', dbBaseline')
    BY <1>4 DEF EngineExtendsStore
  <1>5. ASSUME \/ WindowTick \/ ShutDown \/ BeginPersist \/ Exit \/ Reset \/ Crash \/ Tick
               \/ PersistWithoutStore \/ SaveBaselineFails
               \/ SetPhaseMeta \/ SetPhaseMetaFails \/ UNCHANGED vars
        PROVE  UNCHANGED <<engine, dbBaseline, open, blind>> /\ Up
    BY <1>5 DEF WindowTick, ShutDown, BeginWindow, BeginPersist, Exit, Reset, Crash, Tick,
       PersistWithoutStore, SaveBaselineFails, SetPhaseMeta, SetPhaseMetaFails,
       PersistReturns, vars, manager, db, Up
  <1> QED
    BY <1>1, <1>2, <1>3, <1>4, <1>5 DEF Next, MainStep

\* A save never replaces stored samples by fewer, whatever was restarted, reset or
\* failed before, as long as no start failed to read the store.
THEOREM SavedSamplesSurvive == Spec => NoSavedSampleLost
  <1>1. Init => EngineExtendsStore
    BY DEF Init, EngineExtendsStore, Up
  <1>2. TypeOK /\ EngineExtendsStore /\ [Next]_vars =>
            [~blind' => Covers(dbBaseline', dbBaseline)]_vars
    <2> SUFFICES ASSUME TypeOK, EngineExtendsStore, [Next]_vars, ~blind'
                 PROVE  Covers(dbBaseline', dbBaseline)
      OBVIOUS
    <2>1. dbBaseline \in Counts
      BY DEF TypeOK, StateOK
    <2>2. CASE SaveBaseline
      BY <2>2 DEF SaveBaseline, EngineExtendsStore, Up
    <2>3. CASE ~SaveBaseline
      <3>1. dbBaseline' = dbBaseline
        BY <2>3 DEF Next, Boot, BootEmpty, BootMonitoring, BootLearning, BootWithoutStore,
           StartLearningClock, WindowTick, ShutDown, BeginWindow, MainStep, Ingest,
           ScoreAndIngest, BeginPersist, Exit, Reset, Crash, Tick, PersistWithoutStore,
           SaveBaselineFails, SetPhaseMeta, SetPhaseMetaFails, vars, db
      <3> QED
        BY <2>1, <3>1, CoversReflexive
    <2> QED
      BY <2>2, <2>3
  <1> QED
    BY TypeCorrect, EngineExtendsStoreStep, <1>1, <1>2, PTL DEF Spec, NoSavedSampleLost

-----------------------------------------------------------------------------
(* Monitoring is earned. *)

\* The runs MonitoringEarned speaks of.
Sound == LearnDur > 1 /\ ~blind /\ quiets = 0

\* A blank engine only exists before the first window of an incarnation has been
\* ingested, which the transition cannot precede.
BlankOnlyAtFirst ==
    Up /\ ~Known(engine) =>
        /\ phase = "learning"
        /\ \/ pc = "idle" /\ (learnAge = 0 \/ (learnAge = 1 /\ tickDue))
           \/ pc = "ingest" /\ win # {}

\* The marks "monitoring", in memory, in the store and on its way there, are only
\* made on a baseline whose learning ended.
MarksEarned ==
    /\ dbPhase = "monitoring" => dbEarned
    /\ dbEarned => Known(dbBaseline)
    /\ Up /\ open /\ dbEarned => earned
    /\ Up /\ phase = "monitoring" => earned
    /\ pc = "score" => earned
    /\ pc \in {"save", "meta"} /\ (name = "monitoring" \/ job = "transition") => earned
    /\ pc = "meta" => open /\ (name = "monitoring" => dbEarned)

EarnedInv == Sound => BlankOnlyAtFirst /\ MarksEarned

\* Ingesting a window in which something was counted makes a dimension known.
LEMMA IngestedKnown ==
    ASSUME engine \in Counts, NEW ds \in SUBSET Dims
    PROVE  /\ Known(engine) => Known(Ingested(ds))
           /\ ds # {} => Known(Ingested(ds))
  <1>1. ASSUME NEW d \in Dims, engine[d] > 0 \/ d \in ds PROVE Ingested(ds)[d] > 0
    <2>1. engine[d] \in 0..SampleCap
      BY DEF Counts
    <2> QED
      BY <1>1, <2>1, ConstantsAssumption DEF Ingested
  <1> QED
    BY <1>1 DEF Known

LEMMA EmptyUnknown == ~Known(Empty)
  BY DEF Known, Empty

\* A failed load and a silent window are not forgotten.
LEMMA HistoryGrows ==
    TypeOK /\ [Next]_vars => quiets' >= quiets /\ (blind => blind')
  <1> SUFFICES ASSUME TypeOK, [Next]_vars
               PROVE  quiets' >= quiets /\ (blind => blind')
    OBVIOUS
  <1>0. quiets \in Nat
    BY ConstantsAssumption DEF TypeOK, StateOK
  <1>1. ASSUME Boot PROVE quiets' = quiets /\ (blind => blind')
    <2>1. ASSUME NEW l \in BOOLEAN, NEW s \in BOOLEAN, BootEmpty(l, s)
          PROVE  quiets' = quiets /\ (blind => blind')
      BY <2>1 DEF BootEmpty, Fail
    <2>2. ASSUME BootMonitoring \/ BootWithoutStore \/ \E p, t, s \in BOOLEAN : BootLearning(p, t, s)
          PROVE  quiets' = quiets /\ blind' = blind
      BY <2>2 DEF BootMonitoring, BootLearning, BootWithoutStore, Fail, bounds
    <2> QED
      BY <1>1, <2>1, <2>2 DEF Boot
  <1>2. ASSUME WindowTick \/ ShutDown PROVE quiets' >= quiets /\ blind' = blind
    BY <1>0, <1>2 DEF WindowTick, ShutDown, BeginWindow, Num
  <1>3. ASSUME MainStep \/ Reset \/ Crash \/ Tick \/ UNCHANGED vars
        PROVE  quiets' = quiets /\ blind' = blind
    BY <1>3 DEF MainStep, Ingest, ScoreAndIngest, BeginPersist, Exit, PersistWithoutStore,
       SaveBaseline, SaveBaselineFails, SetPhaseMeta, SetPhaseMetaFails, PersistReturns, Fail,
       Reset, Crash, Tick, vars, bounds
  <1> QED
    BY <1>0, <1>1, <1>2, <1>3 DEF Next

LEMMA EarnedStep == TypeOK /\ EarnedInv /\ [Next]_vars => EarnedInv'
  <1> SUFFICES ASSUME TypeOK, EarnedInv, [Next]_vars, Sound'
               PROVE  BlankOnlyAtFirst' /\ MarksEarned'
    BY DEF EarnedInv
  <1>0. Sound /\ engine \in Counts /\ quiets' = 0 /\ ~blind'
    <2>1. quiets' >= quiets /\ quiets \in Nat /\ quiets' = 0 /\ ~blind /\ ~blind'
      BY HistoryGrows, ConstantsAssumption DEF Sound, TypeOK, StateOK
    <2> QED
      BY <2>1 DEF Sound, TypeOK, StateOK
  <1>00. BlankOnlyAtFirst /\ MarksEarned
    BY <1>0 DEF EarnedInv
  <1> USE <1>00 DEF BlankOnlyAtFirst, MarksEarned, Up
  <1>1. ASSUME Boot PROVE BlankOnlyAtFirst' /\ MarksEarned'
    <2>1. ASSUME NEW l \in BOOLEAN, NEW s \in BOOLEAN, BootEmpty(l, s)
          PROVE  BlankOnlyAtFirst' /\ MarksEarned'
      <3>1. ~Known(dbBaseline)
        BY <1>0, <2>1 DEF BootEmpty
      <3> QED
        BY <2>1, <3>1 DEF BootEmpty, Boots, BlankBaseline, StartLearningClock, Known
    <2>2. ASSUME BootMonitoring PROVE BlankOnlyAtFirst' /\ MarksEarned'
      BY <2>2 DEF BootMonitoring, Boots, RestoreBaseline, db, Known
    <2>3. ASSUME NEW p \in BOOLEAN, NEW t \in BOOLEAN, NEW s \in BOOLEAN,
                 BootLearning(p, t, s)
          PROVE  BlankOnlyAtFirst' /\ MarksEarned'
      BY <2>3 DEF BootLearning, Boots, RestoreBaseline, StartLearningClock, db, Known
    <2>4. ASSUME BootWithoutStore PROVE BlankOnlyAtFirst' /\ MarksEarned'
      BY <2>4 DEF BootWithoutStore, Boots, BlankBaseline, db, Known
    <2> QED
      BY <1>1, <2>1, <2>2, <2>3, <2>4 DEF Boot
  <1>2. ASSUME WindowTick \/ ShutDown PROVE BlankOnlyAtFirst' /\ MarksEarned'
    <2>1. PICK w \in SUBSET Dims : BeginWindow(w) /\ pc = "idle"
      BY <1>2 DEF WindowTick, ShutDown
    <2>2. w # {} /\ win' = w
      BY <1>0, <2>1 DEF BeginWindow, Num, TypeOK, StateOK
    <2>3. LearnDur > 1 /\ LearnDur \in Nat /\ learnAge \in Nat
      BY <1>0, ConstantsAssumption DEF Sound, TypeOK, StateOK
    <2> QED
      BY <2>1, <2>2, <2>3 DEF BeginWindow, db, persisting, Known
  <1>3. ASSUME Ingest \/ ScoreAndIngest PROVE BlankOnlyAtFirst' /\ MarksEarned'
    <2>1. Known(engine')
      BY <1>0, <1>3, IngestedKnown DEF Ingest, ScoreAndIngest, TypeOK, StateOK
    <2>2. CASE Ingest
      BY <2>1, <2>2 DEF Ingest, WindowDone, manager, persisting, db, Known
    <2>3. CASE ScoreAndIngest
      BY <2>1, <2>3 DEF ScoreAndIngest, WindowDone, persisting, db, Known
    <2> QED
      BY <1>3, <2>2, <2>3
  <1>4. ASSUME BeginPersist PROVE BlankOnlyAtFirst' /\ MarksEarned'
    BY <1>4 DEF BeginPersist, manager, db, Known
  <1>5. ASSUME SaveBaseline PROVE BlankOnlyAtFirst' /\ MarksEarned'
    BY <1>5 DEF SaveBaseline, manager, persisting, Known
  <1>6. ASSUME \/ PersistWithoutStore \/ SaveBaselineFails \/ SetPhaseMeta
               \/ SetPhaseMetaFails
        PROVE  BlankOnlyAtFirst' /\ MarksEarned'
    BY <1>6 DEF PersistWithoutStore, SaveBaselineFails, SetPhaseMeta, SetPhaseMetaFails,
       PersistReturns, WindowDone, persisting, Known
  <1>7. ASSUME Exit \/ Crash PROVE BlankOnlyAtFirst' /\ MarksEarned'
    BY <1>7 DEF Exit, Crash, manager, persisting, db, Known
  <1>8. ASSUME Reset PROVE BlankOnlyAtFirst' /\ MarksEarned'
    BY <1>8 DEF Reset, persisting, Known
  <1>9. ASSUME Tick PROVE BlankOnlyAtFirst' /\ MarksEarned'
    <2>1. UNCHANGED <<pc, win, phase, engine, persisting, open, dbBaseline, dbPhase,
                      dbEarned, earned>>
      BY <1>9 DEF Tick
    <2>2. Up => ~tickDue /\ tickDue'
      BY <1>9 DEF Tick
    <2>3. Up /\ learnAge = 0 => learnAge' = 1
      BY <1>9, ConstantsAssumption DEF Tick, Older
    <2>4. MarksEarned'
      BY <2>1 DEF persisting, Known
    <2>5. BlankOnlyAtFirst'
      BY <2>1, <2>2, <2>3 DEF Known
    <2> QED
      BY <2>4, <2>5
  <1>10. ASSUME UNCHANGED vars PROVE BlankOnlyAtFirst' /\ MarksEarned'
    BY <1>10 DEF vars, manager, persisting, db, Known
  <1> QED
    BY <1>1, <1>2, <1>3, <1>4, <1>5, <1>6, <1>7, <1>8, <1>9, <1>10 DEF Next, MainStep

\* EarnedInv is an invariant of every run.
LEMMA EarnedInvariant == Spec => [](TypeOK /\ EarnedInv)
  <1>1. Init => EarnedInv
    BY DEF Init, EarnedInv, BlankOnlyAtFirst, MarksEarned, Up
  <1> QED
    BY <1>1, TypeCorrect, EarnedStep, PTL DEF Spec

\* Without a failed load and a silent window, and with a duration of more than one
\* window, no sequence of crashes, restarts, resets and failed writes brings the
\* agent into monitoring on a baseline whose learning did not end.
THEOREM MonitoringIsEarned == Spec => []MonitoringEarned
  <1>1. EarnedInv => MonitoringEarned
    BY DEF EarnedInv, Sound, MarksEarned, MonitoringEarned
  <1> QED
    BY <1>1, EarnedInvariant, PTL

-----------------------------------------------------------------------------
(* The lifecycle is implemented. *)

\* The runs in which the lifecycle is promised: any number of crashes, but the store
\* works, Reset is not called, no window is silent and learning outlasts one window.
Calm == MaxFaults = 0 /\ MaxResets = 0 /\ MaxQuiet = 0 /\ LearnDur > 1

\* In a calm run the store never promises monitoring to an agent that still learns,
\* and persist writes the phase the agent is in.
CalmInv ==
    /\ ~blind
    /\ Up => open
    /\ Up /\ phase = "learning" => dbPhase # "monitoring"
    /\ pc \in {"save", "meta"} => name = phase
    /\ pc = "score" \/ (pc \in {"save", "meta"} /\ job = "transition") => phase = "monitoring"

LEMMA CalmStep ==
    ASSUME Calm
    PROVE  TypeOK /\ TypeOK' /\ EarnedInv /\ CalmInv /\ [Next]_vars => CalmInv'
  <1> SUFFICES ASSUME TypeOK, TypeOK', EarnedInv, CalmInv, [Next]_vars
               PROVE  CalmInv'
    OBVIOUS
  <1>0. /\ MarksEarned
        /\ faults = 0 /\ faults' = 0 /\ resets = 0 /\ resets' = 0
    BY DEF Calm, TypeOK, StateOK, EarnedInv, Sound, CalmInv
  <1> USE DEF CalmInv, Up
  <1>1. ASSUME Boot PROVE CalmInv'
    <2>1. ASSUME NEW l \in BOOLEAN, NEW s \in BOOLEAN, BootEmpty(l, s) PROVE CalmInv'
      <3>1. ~l
        BY <1>0, <2>1 DEF BootEmpty, Fail, Num
      <3>2. ~Known(dbBaseline) /\ dbPhase # "monitoring"
        BY <1>0, <2>1, <3>1 DEF BootEmpty, MarksEarned
      <3> QED
        BY <2>1, <3>1, <3>2 DEF BootEmpty, Boots, StartLearningClock
    <2>2. ASSUME BootMonitoring PROVE CalmInv'
      BY <2>2 DEF BootMonitoring, Boots
    <2>3. ASSUME NEW p \in BOOLEAN, NEW t \in BOOLEAN, NEW s \in BOOLEAN,
                 BootLearning(p, t, s)
          PROVE  CalmInv'
      <3>1. ~p
        BY <1>0, <2>3 DEF BootLearning, Fail, Num
      <3> QED
        BY <2>3, <3>1 DEF BootLearning, Boots, StartLearningClock, db
    <2>4. ~BootWithoutStore
      BY <1>0 DEF BootWithoutStore, Fail
    <2> QED
      BY <1>1, <2>1, <2>2, <2>3, <2>4 DEF Boot
  <1>2. ASSUME WindowTick \/ ShutDown PROVE CalmInv'
    BY <1>2 DEF WindowTick, ShutDown, BeginWindow, persisting, db
  <1>3. ASSUME Ingest \/ ScoreAndIngest \/ BeginPersist \/ Exit PROVE CalmInv'
    BY <1>3 DEF Ingest, ScoreAndIngest, BeginPersist, Exit, WindowDone, manager, persisting, db
  <1>4. ASSUME SaveBaseline \/ SetPhaseMeta \/ PersistWithoutStore PROVE CalmInv'
    BY <1>4 DEF SaveBaseline, SetPhaseMeta, PersistWithoutStore, PersistReturns, WindowDone,
       manager, persisting
  <1>5. ~(SaveBaselineFails \/ SetPhaseMetaFails \/ Reset)
    BY <1>0 DEF SaveBaselineFails, SetPhaseMetaFails, Reset, Fail
  <1>6. ASSUME Crash \/ Tick \/ UNCHANGED vars PROVE CalmInv'
    BY <1>6 DEF Crash, Tick, vars, manager, persisting, db
  <1> QED
    BY <1>1, <1>2, <1>3, <1>4, <1>5, <1>6 DEF Next, MainStep

LEMMA CalmInvariant ==
    ASSUME Calm
    PROVE  Spec => [](TypeOK /\ EarnedInv /\ EngineExtendsStore /\ CalmInv)
  <1>1. Init => CalmInv /\ EngineExtendsStore
    BY DEF Init, CalmInv, EngineExtendsStore, Up
  <1> QED
    BY <1>1, CalmStep, EngineExtendsStoreStep, TypeCorrect, EarnedInvariant, PTL DEF Spec

\* In a calm run every step of the agent is a step of the lifecycle or a stutter.
LEMMA LifecycleStep ==
    ASSUME Calm
    PROVE  TypeOK /\ EarnedInv /\ EngineExtendsStore /\ CalmInv /\ [Next]_vars =>
               [Lifecycle!Next]_(Lifecycle!vars)
  <1> SUFFICES ASSUME TypeOK, EarnedInv, EngineExtendsStore, CalmInv, [Next]_vars
               PROVE  [Lifecycle!Next]_(Lifecycle!vars)
    OBVIOUS
  <1>0. /\ BlankOnlyAtFirst /\ MarksEarned
        /\ faults = 0 /\ resets = 0
        /\ MaxFaults = 0 /\ MaxResets = 0
        /\ phase \in Phases
    BY DEF Calm, TypeOK, StateOK, EarnedInv, Sound, CalmInv
  <1> DEFINE Stage == IF pc = "down" THEN "off" ELSE phase
             Stored == IF ~Known(dbBaseline) THEN "nothing"
                       ELSE IF dbPhase = "monitoring" THEN "monitoring" ELSE "learning"
  <1> USE DEF Up
  <1>1. ASSUME Stage' = Stage, Stored' = Stored
        PROVE  [Lifecycle!Next]_(Lifecycle!vars)
    BY <1>1 DEF Lifecycle!vars
  <1>2. ASSUME UNCHANGED <<dbBaseline, dbPhase>> PROVE Stored' = Stored
    BY <1>2 DEF Known
  <1>3. CASE Boot
    <2>1. /\ Stage = "off" /\ Stored' = Stored
          /\ Stage' = IF Stored = "monitoring" THEN "monitoring" ELSE "learning"
      <3>1. pc = "down" /\ pc' = "idle"
        BY <1>3 DEF Boot, BootEmpty, BootMonitoring, BootLearning, BootWithoutStore, Boots
      <3>2. UNCHANGED <<dbBaseline, dbPhase>>
        BY <1>3 DEF Boot, BootEmpty, BootMonitoring, BootLearning, BootWithoutStore,
           StartLearningClock, db
      <3>3. ASSUME NEW l \in BOOLEAN, NEW s \in BOOLEAN, BootEmpty(l, s)
            PROVE  phase' = IF Stored = "monitoring" THEN "monitoring" ELSE "learning"
        BY <1>0, <3>3 DEF BootEmpty, Fail, Num
      <3>4. ASSUME BootMonitoring
            PROVE  phase' = IF Stored = "monitoring" THEN "monitoring" ELSE "learning"
        BY <3>4 DEF BootMonitoring
      <3>5. ASSUME NEW p \in BOOLEAN, NEW t \in BOOLEAN, NEW s \in BOOLEAN,
                   BootLearning(p, t, s)
            PROVE  phase' = IF Stored = "monitoring" THEN "monitoring" ELSE "learning"
        BY <1>0, <3>5 DEF BootLearning, Fail, Num
      <3>6. ~BootWithoutStore
        BY <1>0 DEF BootWithoutStore, Fail
      <3>7. phase' = IF Stored = "monitoring" THEN "monitoring" ELSE "learning"
        BY <1>3, <3>3, <3>4, <3>5, <3>6 DEF Boot
      <3> QED
        BY <1>2, <3>1, <3>2, <3>7
    <2> QED
      BY <2>1 DEF Lifecycle!Next, Lifecycle!Start
  <1>4. CASE WindowTick \/ ShutDown
    <2>1. Stored' = Stored
      BY <1>2, <1>4 DEF WindowTick, ShutDown, BeginWindow, db
    <2>2. Stage' = Stage \/ (Stage = "learning" /\ Stage' = "monitoring")
      BY <1>4 DEF WindowTick, ShutDown, BeginWindow
    <2> QED
      BY <1>1, <2>1, <2>2 DEF Lifecycle!Next, Lifecycle!Advance
  <1>5. CASE SaveBaseline
    <2>1. /\ pc = "save" /\ Stage' = Stage /\ Stage # "off" /\ Known(engine)
          /\ dbBaseline' = engine /\ dbPhase' = dbPhase
      BY <1>0, <1>5 DEF SaveBaseline, manager, BlankOnlyAtFirst, Phases
    <2>2. CASE Known(dbBaseline)
      BY <1>1, <2>1, <2>2 DEF Known
    <2>3. CASE ~Known(dbBaseline)
      <3>1. Stored = "nothing" /\ Stored' = "learning"
        BY <1>0, <2>1, <2>3 DEF MarksEarned, Known
      <3> QED
        BY <2>1, <3>1 DEF Lifecycle!Next, Lifecycle!Store
    <2> QED
      BY <2>2, <2>3
  <1>6. CASE SetPhaseMeta
    <2>1. /\ pc = "meta" /\ Stage' = Stage /\ Stage = phase
          /\ dbPhase' = phase /\ dbBaseline' = dbBaseline
      BY <1>6 DEF SetPhaseMeta, PersistReturns, WindowDone, CalmInv
    <2>2. CASE phase = "monitoring"
      <3>1. Stored' = "monitoring"
        BY <1>0, <2>1, <2>2 DEF MarksEarned, CalmInv, Known
      <3> QED
        BY <2>1, <2>2, <3>1 DEF Lifecycle!Next, Lifecycle!Store
    <2>3. CASE phase = "learning"
      <3>1. Stored' = Stored
        BY <2>1, <2>3 DEF CalmInv, Known
      <3> QED
        BY <1>1, <2>1, <3>1
    <2> QED
      BY <1>0, <2>2, <2>3
  <1>7. CASE Ingest \/ ScoreAndIngest \/ BeginPersist \/ PersistWithoutStore \/ Tick \/ UNCHANGED vars
    <2>1. Stage' = Stage
      BY <1>7 DEF Ingest, ScoreAndIngest, BeginPersist, PersistWithoutStore, PersistReturns,
         WindowDone, Tick, vars, manager
    <2>2. Stored' = Stored
      BY <1>2, <1>7 DEF Ingest, ScoreAndIngest, BeginPersist, PersistWithoutStore, Tick, vars, db
    <2> QED
      BY <1>1, <2>1, <2>2
  <1>8. CASE Exit \/ Crash
    <2>1. Stage # "off" /\ Stage' = "off" /\ Stored' = Stored
      BY <1>0, <1>2, <1>8 DEF Exit, Crash, db, Phases
    <2> QED
      BY <2>1 DEF Lifecycle!Next, Lifecycle!Stop
  <1>9. ~(SaveBaselineFails \/ SetPhaseMetaFails \/ Reset)
    BY <1>0 DEF SaveBaselineFails, SetPhaseMetaFails, Reset, Fail
  <1> QED
    BY <1>3, <1>4, <1>5, <1>6, <1>7, <1>8, <1>9 DEF Next, MainStep

\* PhaseManager implements Lifecycle: killed and restarted between any two of its
\* writes, the agent learns before it monitors, resumes no more than was reached and
\* never undoes what was stored, as long as the run is calm.
THEOREM LifecycleIsImplemented == Calm => (Spec => ImplementsLifecycle)
  <1> SUFFICES ASSUME Calm
               PROVE  Spec => ImplementsLifecycle
    OBVIOUS
  <1>1. Init => Lifecycle!Init
    BY EmptyUnknown DEF Init, Lifecycle!Init
  <1> QED
    BY <1>1, CalmInvariant, LifecycleStep, PTL DEF Spec, ImplementsLifecycle, Lifecycle!Spec

-----------------------------------------------------------------------------
(* What a crash can cost. *)

LEMMA FaultsGrow == TypeOK /\ [Next]_vars => faults' >= faults
  <1> SUFFICES ASSUME TypeOK, [Next]_vars
               PROVE  faults' >= faults
    OBVIOUS
  <1>0. faults \in Nat
    BY ConstantsAssumption DEF TypeOK, StateOK
  <1> DEFINE Same == faults' = faults \/ \E n \in Nat : Fail(n)
  <1>1. ASSUME Boot PROVE Same
    <2>1. \A a, b, c \in BOOLEAN : Num(a) + Num(b) \in Nat /\ Num(a) + Num(b) + Num(c) \in Nat
      BY DEF Num
    <2>2. ASSUME NEW l \in BOOLEAN, NEW s \in BOOLEAN, BootEmpty(l, s) PROVE Same
      <3>1. Fail(Num(l) + Num(s))
        BY <2>2 DEF BootEmpty
      <3> QED
        BY <2>1, <3>1
    <2>3. ASSUME NEW p \in BOOLEAN, NEW t \in BOOLEAN, NEW s \in BOOLEAN, BootLearning(p, t, s)
          PROVE  Same
      <3>1. Fail(Num(p) + Num(t) + Num(s))
        BY <2>3 DEF BootLearning
      <3> QED
        BY <2>1, <3>1
    <2>4. ASSUME BootMonitoring \/ BootWithoutStore PROVE Same
      BY <2>4 DEF BootMonitoring, BootWithoutStore, bounds
    <2> QED
      BY <1>1, <2>2, <2>3, <2>4 DEF Boot
  <1>2. ASSUME MainStep PROVE Same
    BY <1>2 DEF MainStep, Ingest, ScoreAndIngest, BeginPersist, Exit, PersistWithoutStore,
       SaveBaseline, SaveBaselineFails, SetPhaseMeta, SetPhaseMetaFails, bounds
  <1>3. ASSUME WindowTick \/ ShutDown \/ Crash \/ Tick \/ UNCHANGED vars PROVE Same
    BY <1>3 DEF WindowTick, ShutDown, BeginWindow, Crash, Tick, vars, bounds
  <1>4. ASSUME Reset PROVE faults' >= faults
    BY <1>0, <1>4 DEF Reset
  <1>5. Same => faults' >= faults
    BY <1>0 DEF Fail
  <1> QED
    BY <1>1, <1>2, <1>3, <1>4, <1>5 DEF Next

\* What makes BoundedLoss inductive. A window of monitoring may go by between the stamp of
\* lastRecalib and the save, and another may be due when the recalibration is; a persist
\* that fails leaves what it should have saved to the next.
LossInv ==
    open /\ Up =>
        /\ phase = "learning" => unsaved = 0
        /\ phase = "monitoring" =>
            /\ unsaved <= RecalibInt + 1 + Num(tickDue) + PutOff(faults)
            /\ pc \notin {"save", "meta"} /\ recalibAge < RecalibInt =>
                   unsaved <= recalibAge + 1 + PutOff(faults)
            /\ pc \in {"idle", "ingest"} =>
                   unsaved <= RecalibInt + Num(tickDue) + PutOff(faults)
            /\ pc = "meta" \/ (pc = "save" /\ job = "transition") =>
                   unsaved <= Num(tickDue) + PutOff(faults)

LEMMA LossStep == TypeOK /\ LossInv /\ [Next]_vars => LossInv'
  <1> SUFFICES ASSUME TypeOK, LossInv, [Next]_vars, open', Up'
               PROVE  LossInv'
    BY DEF LossInv
  <1>1. PICK e \in Nat, f \in Nat :
           /\ PutOff(faults) = e /\ PutOff(faults)' = f
           /\ e <= f /\ (faults' = faults => f = e)
           /\ faults' > faults => e + RecalibInt + 1 <= f
    <2>1. faults' >= faults /\ faults \in Nat /\ faults' \in Nat
      BY FaultsGrow, StateStep, ConstantsAssumption DEF TypeOK, StateOK
    <2>2. /\ PutOff(faults) \in Nat /\ PutOff(faults') \in Nat /\ PutOff(faults) <= PutOff(faults')
          /\ faults' > faults => PutOff(faults) + RecalibInt + 1 <= PutOff(faults')
      BY <2>1, PutOffGrows
    <2>3. PutOff(faults)' = PutOff(faults')
      BY DEF PutOff
    <2> QED
      BY <2>2, <2>3
  <1>2. PICK t \in 0..1, u \in 0..1 : Num(tickDue) = t /\ Num(tickDue') = u
                                     /\ (tickDue' = tickDue => u = t)
    BY DEF Num
  <1>3. /\ RecalibInt \in Nat /\ recalibAge \in Nat /\ recalibAge <= RecalibInt
        /\ recalibAge' \in Nat /\ unsaved \in Nat /\ tickDue \in BOOLEAN
        /\ phase \in Phases /\ pc \in PCs /\ phase' \in Phases
    BY StateStep, CapType, ConstantsAssumption DEF TypeOK, StateOK, FlagsOK
  \* The invariant of this state, in numbers, when it applies.
  <1> DEFINE Before ==
        /\ phase = "learning" => unsaved = 0
        /\ phase = "monitoring" =>
            /\ unsaved <= RecalibInt + 1 + t + e
            /\ pc \notin {"save", "meta"} /\ recalibAge < RecalibInt => unsaved <= recalibAge + 1 + e
            /\ pc \in {"idle", "ingest"} => unsaved <= RecalibInt + t + e
            /\ pc = "meta" \/ (pc = "save" /\ job = "transition") => unsaved <= t + e
             After ==
        /\ phase' = "learning" => unsaved' = 0
        /\ phase' = "monitoring" =>
            /\ unsaved' <= RecalibInt + 1 + u + f
            /\ pc' \notin {"save", "meta"} /\ recalibAge' < RecalibInt => unsaved' <= recalibAge' + 1 + f
            /\ pc' \in {"idle", "ingest"} => unsaved' <= RecalibInt + u + f
            /\ pc' = "meta" \/ (pc' = "save" /\ job' = "transition") => unsaved' <= u + f
  <1>4. open /\ Up => Before
    BY <1>1, <1>2 DEF LossInv
  <1>5. After => LossInv'
    BY <1>1, <1>2 DEF LossInv
  <1>6. Up => (open' <=> open) /\ ~Boot
    BY DEF Up, Next, Boot, BootEmpty, BootMonitoring, BootLearning, BootWithoutStore, Boots, WindowTick,
       ShutDown, BeginWindow, MainStep, Ingest, ScoreAndIngest, BeginPersist, PersistWithoutStore,
       PersistReturns, SaveBaseline, SaveBaselineFails, SetPhaseMeta, SetPhaseMetaFails, Exit, Reset, Crash,
       Tick, vars
  <1>7. ASSUME Boot PROVE After
    <2>1. unsaved' = 0 /\ pc' = "idle"
      BY <1>7 DEF Boot, BootEmpty, BootMonitoring, BootLearning, BootWithoutStore, Boots
    <2>2. /\ 0 <= RecalibInt + 1 + u + f /\ 0 <= RecalibInt + u + f
          /\ 0 <= recalibAge' + 1 + f
      <3>1. \A a, b, c \in Nat : 0 <= a + b + c /\ 0 <= a + 1 + b + c /\ 0 <= a + 1 + b
        OBVIOUS
      <3>2. u \in Nat /\ f \in Nat
        BY <1>1, <1>2
      <3>3. RecalibInt \in Nat /\ recalibAge' \in Nat
        BY <1>3
      <3> QED
        BY <3>1, <3>2, <3>3
    <2> QED
      BY <2>1, <2>2
  <1>8. ASSUME WindowTick \/ ShutDown PROVE After
    <2>1. pc = "idle" /\ tickDue' = FALSE /\ UNCHANGED <<recalibAge, open, unsaved, faults>>
      BY <1>8 DEF WindowTick, ShutDown, BeginWindow
    <2>2. \/ phase = "learning" /\ phase' = "monitoring" /\ job' = "transition" /\ pc' = "save"
          \/ phase = "learning" /\ phase' = "learning"
          \/ phase = "monitoring" /\ phase' = "monitoring" /\ pc' = "score"
      BY <1>8 DEF WindowTick, ShutDown, BeginWindow
    <2>3. Before
      BY <1>4, <2>1 DEF Up
    <2> QED
      BY <1>1, <1>3, <2>1, <2>2, <2>3
  <1>9. ASSUME Ingest PROVE After
    <2>1. pc = "ingest" /\ pc' \in {"idle", "persist"}
          /\ UNCHANGED <<tickDue, phase, recalibAge, open, unsaved, faults>>
      BY <1>9 DEF Ingest, WindowDone, manager, bounds
    <2>2. Before
      BY <1>4, <2>1 DEF Up
    <2> QED
      BY <1>1, <1>2, <1>3, <2>1, <2>2
  <1>10. ASSUME ScoreAndIngest PROVE After
    <2>1. pc = "score" /\ UNCHANGED <<tickDue, phase, open, unsaved, faults>>
      BY <1>10 DEF ScoreAndIngest, bounds
    <2>2. \/ job' = "recalib" /\ pc' = "save"
          \/ /\ recalibAge < RecalibInt /\ pc' \in {"idle", "persist"}
             /\ recalibAge' = recalibAge
      BY <1>10 DEF ScoreAndIngest, WindowDone
    <2>3. Before
      BY <1>4, <2>1 DEF Up
    <2>4. f = e /\ u = t
      BY <1>1, <1>2, <2>1
    <2>5. CASE job' = "recalib" /\ pc' = "save"
      BY <2>1, <2>3, <2>4, <2>5
    <2>6. CASE recalibAge < RecalibInt /\ pc' \in {"idle", "persist"} /\ recalibAge' = recalibAge
      <3>1. phase = "monitoring" => unsaved <= recalibAge + 1 + e /\ unsaved <= RecalibInt + e
        BY <1>1, <1>3, <2>1, <2>3, <2>6
      <3> QED
        BY <1>1, <1>2, <1>3, <2>1, <2>3, <2>4, <2>6, <3>1
    <2> QED
      BY <2>2, <2>5, <2>6
  <1>11. ASSUME BeginPersist PROVE After
    <2>1. /\ pc = "persist" /\ pc' = "save" /\ job' = "shutdown"
          /\ UNCHANGED <<tickDue, phase, recalibAge, open, unsaved, faults>>
      BY <1>11 DEF BeginPersist, manager, bounds
    <2>2. Before
      BY <1>4, <2>1 DEF Up
    <2> QED
      BY <1>1, <1>2, <1>3, <2>1, <2>2
  <1>12. ASSUME SaveBaseline PROVE After
    <2>1. unsaved' = 0 /\ pc' = "meta"
      BY <1>12 DEF SaveBaseline
    <2> QED
      BY <1>1, <1>2, <1>3, <2>1
  <1>13. ASSUME PersistWithoutStore PROVE FALSE
    BY <1>6, <1>13 DEF PersistWithoutStore, Up
  <1>14. ASSUME SaveBaselineFails \/ SetPhaseMeta \/ SetPhaseMetaFails PROVE After
    <2>1. /\ UNCHANGED <<tickDue, phase, open, unsaved, job>>
          /\ pc \in {"save", "meta"}
          /\ pc' = CASE job = "transition" -> "score"
                     [] job = "recalib" -> WindowDone
                     [] OTHER -> "exit"
          /\ WindowDone \in {"idle", "persist"}
          /\ recalibAge' = IF job = "transition" THEN 0 ELSE recalibAge
      BY <1>14 DEF SaveBaselineFails, SetPhaseMeta, SetPhaseMetaFails, PersistReturns, WindowDone,
         persisting
    <2>2. Before
      BY <1>4, <2>1 DEF Up
    <2>3. pc' \in {"score", "idle", "persist", "exit"} /\ (job = "transition" => pc' = "score")
      BY <2>1
    <2>4. CASE SaveBaselineFails \/ SetPhaseMetaFails
      <3>1. e + RecalibInt + 1 <= f
        <4>1. faults \in Nat /\ faults' = faults + 1
          BY <2>4, ConstantsAssumption DEF SaveBaselineFails, SetPhaseMetaFails, Fail, TypeOK, StateOK
        <4> QED
          BY <1>1, <4>1
      <3> QED
        BY <1>1, <1>2, <1>3, <2>1, <2>2, <2>3, <3>1
    <2>5. CASE SetPhaseMeta
      <3>1. pc = "meta" /\ f = e
        BY <1>1, <2>5 DEF SetPhaseMeta, bounds
      <3> QED
        BY <1>1, <1>2, <1>3, <2>1, <2>2, <2>3, <3>1
    <2> QED
      BY <1>14, <2>4, <2>5
  <1>15. ASSUME Exit \/ Crash PROVE FALSE
    BY <1>15 DEF Exit, Crash, Up
  <1>16. ASSUME Reset PROVE After
    BY <1>16 DEF Reset
  <1>17. ASSUME Tick PROVE After
    <2>1. /\ tickDue = FALSE /\ tickDue' = TRUE
          /\ UNCHANGED <<pc, phase, job, open, faults>>
          /\ recalibAge' = Older(recalibAge, RecalibInt)
          /\ unsaved' = IF phase = "monitoring" THEN Older(unsaved, UnsavedCap) ELSE unsaved
      BY <1>3, <1>17 DEF Tick, persisting, bounds, Up
    <2>2. /\ recalibAge' \in Nat
          /\ recalibAge' < RecalibInt => recalibAge < RecalibInt /\ recalibAge' = recalibAge + 1
      BY <1>3, <2>1 DEF Older
    <2>3. /\ phase = "learning" => unsaved' = unsaved
          /\ unsaved' \in Nat /\ unsaved' <= unsaved + 1
      BY <1>3, <2>1 DEF Older, Phases
    <2>4. t = 0 /\ u = 1
      BY <1>2, <2>1 DEF Num
    <2>5. Before
      BY <1>4, <2>1 DEF Up
    <2> QED
      BY <1>1, <1>3, <2>1, <2>2, <2>3, <2>4, <2>5
  <1>18. ASSUME UNCHANGED vars PROVE After
    <2>1. UNCHANGED <<pc, phase, job, open, faults, tickDue, recalibAge, unsaved>>
      BY <1>18 DEF vars, manager, persisting, bounds
    <2>2. Before
      BY <1>4, <2>1 DEF Up
    <2> QED
      BY <1>1, <1>2, <2>1, <2>2
  <1> QED
    BY <1>5, <1>7, <1>8, <1>9, <1>10, <1>11, <1>12, <1>13, <1>14, <1>15, <1>16, <1>17, <1>18
    DEF Next, MainStep

\* BoundedLoss, for every recalibration interval: a crash costs no more than RecalibInt + 2
\* windows of monitoring, and RecalibInt + 1 more for each store operation that failed.
THEOREM LossIsBounded == Spec => []BoundedLoss
  <1>1. Init => LossInv
    BY DEF Init, LossInv, Up
  <1>2. TypeOK /\ LossInv => BoundedLoss
    BY ConstantsAssumption, CapType DEF TypeOK, StateOK, LossInv, LossBound, BoundedLoss, Num
  <1> QED
    BY <1>1, <1>2, LossStep, TypeCorrect, PTL DEF Spec

-----------------------------------------------------------------------------
(* A graceful restart. *)

\* What a shutdown leaves behind is what the agent had, from the moment Persist has read the
\* phase, and the stored start of learning is never younger than the one in memory.
GracefulInv ==
    /\ faults = 0 /\ Up => open
    /\ pc \in {"save", "meta"} => job # "none"
    /\ faults = 0 /\ ~resetOpen =>
        /\ (Up \/ clean) /\ phase = "learning" => dbAge # NoRow /\ dbAge >= learnAge
        /\ pc \in {"save", "meta"} /\ job = "shutdown" => name = phase
        /\ pc = "meta" /\ job = "shutdown" => dbBaseline = engine
        /\ pc = "exit" \/ (pc = "down" /\ clean) => dbBaseline = engine /\ dbPhase = phase

LEMMA GracefulStep == TypeOK /\ GracefulInv /\ [Next]_vars => GracefulInv'
  <1> SUFFICES ASSUME TypeOK, GracefulInv, [Next]_vars
               PROVE  GracefulInv'
    OBVIOUS
  <1>0. /\ LearnDur \in Nat \ {0} /\ learnAge \in 0..LearnDur /\ dbAge \in 0..NoRow
        /\ faults \in Nat /\ phase \in Phases /\ pc \in PCs
        /\ faults' = 0 => faults = 0
        /\ job \in {"none", "transition", "recalib", "shutdown"} /\ clean \in BOOLEAN
    <2>1. faults' >= faults /\ faults \in Nat
      BY FaultsGrow, ConstantsAssumption DEF TypeOK, StateOK
    <2> QED
      BY <2>1, ConstantsAssumption DEF TypeOK, StateOK, FlagsOK
  <1> USE <1>0 DEF GracefulInv, Up, NoRow
  <1>1. ASSUME Boot PROVE GracefulInv'
    <2>1. pc' = "idle" /\ clean' = FALSE /\ UNCHANGED <<persisting, resetOpen>>
      BY <1>1 DEF Boot, BootEmpty, BootMonitoring, BootLearning, BootWithoutStore, Boots
    <2>2. ASSUME faults' = 0 PROVE open'
      <3>1. ~BootWithoutStore
        BY <2>2 DEF BootWithoutStore, Fail
      <3> QED
        BY <1>1, <3>1 DEF Boot, BootEmpty, BootMonitoring, BootLearning
    <2>3. ASSUME faults' = 0, phase' = "learning" PROVE dbAge' # NoRow /\ dbAge' >= learnAge'
      <3>1. ASSUME NEW l \in BOOLEAN, NEW s \in BOOLEAN, BootEmpty(l, s)
            PROVE  dbAge' # NoRow /\ dbAge' >= learnAge'
        BY <2>3, <3>1 DEF BootEmpty, StartLearningClock, Fail, Num
      <3>2. ASSUME NEW p \in BOOLEAN, NEW t \in BOOLEAN, NEW s \in BOOLEAN,
                   BootLearning(p, t, s)
            PROVE  dbAge' # NoRow /\ dbAge' >= learnAge'
        <4>1. ~p /\ ~t /\ ~s
          BY <2>3, <3>2 DEF BootLearning, Fail, Num
        <4> QED
          BY <3>2, <4>1 DEF BootLearning, StartLearningClock, db
      <3>3. ~BootMonitoring /\ ~BootWithoutStore
        BY <2>3 DEF BootMonitoring, BootWithoutStore, Fail
      <3> QED
        BY <1>1, <3>1, <3>2, <3>3 DEF Boot
    <2> QED
      BY <2>1, <2>2, <2>3 DEF persisting
  <1>2. ASSUME WindowTick \/ ShutDown PROVE GracefulInv'
    <2>1. /\ pc = "idle" /\ UNCHANGED <<open, learnAge, dbAge, faults, clean>>
      BY <1>2 DEF WindowTick, ShutDown, BeginWindow, db
    <2>2. \/ phase' = "monitoring" /\ job' = "transition" /\ pc' = "save"
          \/ UNCHANGED <<phase, resetOpen>> /\ pc' \in {"ingest", "score"}
      BY <1>2 DEF WindowTick, ShutDown, BeginWindow
    <2> QED
      BY <2>1, <2>2
  <1>3. ASSUME Ingest PROVE GracefulInv'
    BY <1>3 DEF Ingest, WindowDone, manager, persisting, db, bounds
  <1>4. ASSUME ScoreAndIngest PROVE GracefulInv'
    BY <1>4 DEF ScoreAndIngest, WindowDone, persisting, db, bounds
  <1>5. ASSUME BeginPersist PROVE GracefulInv'
    BY <1>5 DEF BeginPersist, manager, db, bounds
  <1>6. ASSUME SaveBaseline PROVE GracefulInv'
    BY <1>6 DEF SaveBaseline, manager, persisting, bounds
  <1>7. ASSUME SetPhaseMeta PROVE GracefulInv'
    BY <1>7 DEF SetPhaseMeta, PersistReturns, WindowDone, persisting, bounds
  <1>8. ASSUME PersistWithoutStore PROVE GracefulInv'
    BY <1>8 DEF PersistWithoutStore, PersistReturns, WindowDone, persisting, bounds
  <1>9. ASSUME SaveBaselineFails \/ SetPhaseMetaFails PROVE GracefulInv'
    <2>1. faults' # 0 /\ pc' \notin {"save", "meta"}
      BY <1>9 DEF SaveBaselineFails, SetPhaseMetaFails, PersistReturns, WindowDone, Fail
    <2> QED
      BY <2>1
  <1>10. ASSUME Exit \/ Crash PROVE GracefulInv'
    BY <1>10 DEF Exit, Crash, manager, persisting, db, bounds
  <1>11. ASSUME Reset PROVE GracefulInv'
    BY <1>11 DEF Reset, persisting
  <1>12. ASSUME Tick PROVE GracefulInv'
    <2>1. /\ UNCHANGED <<pc, phase, engine, persisting, open, dbBaseline, dbPhase, faults,
                         clean, resetOpen>>
          /\ dbAge' = IF dbAge = NoRow THEN NoRow ELSE Older(dbAge, LearnDur)
          /\ learnAge' = learnAge \/ (Up /\ learnAge' = Older(learnAge, LearnDur))
      BY <1>12 DEF Tick, bounds
    <2>2. dbAge # NoRow /\ dbAge >= learnAge => dbAge' # NoRow /\ dbAge' >= learnAge'
      BY <2>1 DEF Older
    <2> QED
      BY <2>1, <2>2 DEF persisting
  <1>13. ASSUME UNCHANGED vars PROVE GracefulInv'
    BY <1>13 DEF vars, manager, persisting, db, bounds
  <1> QED
    BY <1>1, <1>2, <1>3, <1>4, <1>5, <1>6, <1>7, <1>8, <1>9, <1>10, <1>11, <1>12, <1>13
    DEF Next, MainStep

\* GracefulRestart: what a shutdown saved is what the next start finds.
THEOREM GracefulRestartLosesNothing == Spec => GracefulRestart
  <1>1. Init => GracefulInv
    BY DEF Init, GracefulInv, Up
  <1>2. ASSUME TypeOK, GracefulInv, [Next]_vars,
               pc = "down", Up', clean, Known(engine), faults' = 0, ~resetOpen
        PROVE  /\ engine' = engine /\ phase' = phase
               /\ phase = "learning" => learnAge' >= learnAge
    <2>1. Boot
      BY <1>2 DEF Next, WindowTick, ShutDown, MainStep, Ingest, ScoreAndIngest, BeginPersist,
         Exit, PersistWithoutStore, SaveBaseline, SaveBaselineFails, SetPhaseMeta,
         SetPhaseMetaFails, Reset, Crash, Tick, vars, Up
    <2>2. /\ faults = 0 /\ dbBaseline = engine /\ dbPhase = phase
          /\ phase = "learning" => dbAge # NoRow /\ dbAge >= learnAge
      <3>1. faults' >= faults /\ faults \in Nat
        BY <1>2, FaultsGrow, ConstantsAssumption DEF TypeOK, StateOK
      <3> QED
        BY <1>2, <3>1 DEF GracefulInv
    <2>3. ASSUME NEW l \in BOOLEAN, NEW s \in BOOLEAN, BootEmpty(l, s) PROVE FALSE
      <3>1. ~l
        BY <1>2, <2>2, <2>3 DEF BootEmpty, Fail, Num
      <3> QED
        BY <1>2, <2>2, <2>3, <3>1 DEF BootEmpty
    <2>4. CASE BootMonitoring
      BY <2>2, <2>4 DEF BootMonitoring, RestoreBaseline
    <2>5. ASSUME NEW p \in BOOLEAN, NEW t \in BOOLEAN, NEW s \in BOOLEAN, BootLearning(p, t, s)
          PROVE  /\ engine' = engine /\ phase' = phase
                 /\ phase = "learning" => learnAge' >= learnAge
      <3>1. ~p /\ ~t /\ ~s
        BY <1>2, <2>2, <2>5 DEF BootLearning, Fail, Num
      <3>2. phase = "learning"
        BY <1>2, <2>2, <2>5, <3>1 DEF BootLearning, TypeOK, StateOK
      <3> QED
        BY <2>2, <2>5, <3>1, <3>2 DEF BootLearning, RestoreBaseline
    <2>6. ~BootWithoutStore
      BY <1>2, <2>2 DEF BootWithoutStore, Fail
    <2> QED
      BY <2>1, <2>3, <2>4, <2>5, <2>6 DEF Boot
  <1>3. TypeOK /\ GracefulInv /\ [Next]_vars =>
          [pc = "down" /\ Up' /\ clean /\ Known(engine) /\ faults' = 0 /\ ~resetOpen =>
             /\ engine' = engine /\ phase' = phase
             /\ phase = "learning" => learnAge' >= learnAge]_vars
    BY <1>2
  <1> QED
    BY <1>1, <1>3, GracefulStep, TypeCorrect, PTL DEF Spec, GracefulRestart
=============================================================================
