--------------------------- MODULE ColdStartProofs ---------------------------
(***************************************************************************)
(* Theorems about ColdStart for every set of keys, every choice of         *)
(* high-severity and ceilinged metrics, every minimum_samples and every    *)
(* length of the fast-track window.                                        *)
(***************************************************************************)
EXTENDS ColdStart, TLAPS

USE DEF Ages, NotStarted, consumer, window, verdicts, tables

-----------------------------------------------------------------------------
(* Type correctness. *)

\* A key that has a fast-track start keeps one as it ages, a key that has none gets none.
LEMMA OlderType ==
    ASSUME NEW age \in Ages \cup {NotStarted}
    PROVE  /\ Older(age) \in Ages \cup {NotStarted}
           /\ Older(age) = NotStarted <=> age = NotStarted
  BY ConstantsAssumption DEF Older

StateStrong ==
    /\ StateOK
    /\ cpc = "add" => ev \in Dims
    /\ pc # "gate" => wild = {} /\ cold = {} /\ todo = {}

LEMMA StateInit == Init => StateStrong
  <1>1. Init => engine \in [Dims -> 0..SampleCap] /\ db \in [Dims -> 0..SampleCap]
    BY ConstantsAssumption DEF Init
  <1> QED
    BY <1>1, ConstantsAssumption DEF Init, StateStrong, StateOK

LEMMA StateStep == StateStrong /\ [Next]_vars => StateStrong'
  <1> SUFFICES ASSUME StateStrong, [Next]_vars
               PROVE  StateStrong'
    OBVIOUS
  <1> USE ConstantsAssumption DEF StateStrong, StateOK
  <1>1. ASSUME NEW d \in Dims, Match(d) PROVE StateStrong'
    BY <1>1 DEF Match
  <1>2. CASE Add
    BY <1>2 DEF Add
  <1>3. CASE Rotate
    <2>1. ftAge' \in [Dims -> Ages \cup {NotStarted}]
      <3>1. ftAge' = [d \in Dims |-> Older(ftAge[d])]
        BY <1>3, Zenon DEF Rotate
      <3> QED
        BY <3>1, OlderType
    <2>2. /\ pc = "idle" /\ pc' = "score" /\ win' = current /\ current' = {}
          /\ UNCHANGED <<cpc, ev, wild, cold, todo, skip, engine, held, db, alerts>>
      BY <1>3, Zenon DEF Rotate
    <2> QED
      BY <2>1, <2>2
  <1>4. CASE Score
    <2>1. ftAge' \in [Dims -> Ages \cup {NotStarted}] /\ alerts' \in [Dims -> 0..2]
      BY <1>4 DEF Score, StartFastTrack
    <2>2. /\ skip' \subseteq Dims /\ cold' \subseteq Dims /\ todo' = cold'
          /\ wild' \subseteq win /\ win' = win
      BY <1>4 DEF Score
    <2> QED
      BY <1>4, <2>1, <2>2 DEF Score
  <1>5. ASSUME NEW d \in Dims, Gate(d) PROVE StateStrong'
    BY <1>5 DEF Gate
  <1>6. CASE IngestFiltered
    <2>1. engine' \in [Dims -> 0..SampleCap] /\ db' \in [Dims -> 0..SampleCap]
      BY <1>6 DEF IngestFiltered
    <2> QED
      BY <1>6, <2>1 DEF IngestFiltered
  <1>7. CASE Restart
    BY <1>7 DEF Restart
  <1>8. CASE UNCHANGED vars
    BY <1>8 DEF vars
  <1> QED
    BY <1>1, <1>2, <1>3, <1>4, <1>5, <1>6, <1>7, <1>8 DEF Next, Main

LEMMA FlagStep == FlagOK /\ [Next]_vars => FlagOK'
  BY DEF FlagOK, Next, Main, Match, Add, Rotate, Score, Gate, IngestFiltered, Restart, vars

\* Every variable keeps its type in every behaviour.
THEOREM TypeCorrect == Spec => []TypeOK
  <1>1. Init => FlagOK
    BY DEF Init, FlagOK
  <1>2. StateStrong /\ FlagOK => TypeOK
    BY DEF StateStrong, TypeOK
  <1> QED
    BY <1>1, <1>2, StateInit, StateStep, FlagStep, PTL DEF Spec

-----------------------------------------------------------------------------
(* The hold of high-severity keys. *)

Marked(d) == MetricOf[d] \in HighSeverity => Held(d)

\* The mark runs ahead of the event it belongs to: it is set for the event in the
\* consumer's hand, for every key counted and for every key being rated; so a cold start
\* that has passed the gate with a high-severity metric is left out.
MarksLead ==
    /\ cpc = "add" => Marked(ev)
    /\ \A d \in current \cup win : Marked(d)
    /\ cold \subseteq win
    /\ pc = "gate" => \A d \in cold \ todo : MetricOf[d] \in HighSeverity => d \in skip

LEMMA MarksStep == StateStrong /\ MarksLead /\ [Next]_vars => MarksLead'
  <1> SUFFICES ASSUME StateStrong, MarksLead, [Next]_vars
               PROVE  MarksLead'
    OBVIOUS
  <1> USE DEF StateStrong, StateOK, MarksLead, Marked, Held
  <1>1. ASSUME NEW d \in Dims, Match(d) PROVE MarksLead'
    BY <1>1 DEF Match
  <1>2. CASE Add
    BY <1>2, ConstantsAssumption DEF Add
  <1>3. CASE Rotate
    BY <1>3 DEF Rotate
  <1>4. CASE Score
    BY <1>4 DEF Score
  <1>5. ASSUME NEW d \in Dims, Gate(d) PROVE MarksLead'
    BY <1>5 DEF Gate, ShouldIngestColdStart
  <1>6. CASE IngestFiltered
    BY <1>6 DEF IngestFiltered
  <1>7. CASE Restart
    BY <1>7 DEF Restart
  <1>8. CASE UNCHANGED vars
    BY <1>8 DEF vars
  <1> QED
    BY <1>1, <1>2, <1>3, <1>4, <1>5, <1>6, <1>7, <1>8 DEF Next, Main

\* A high-severity event is held back in the window that brings its dimension up.
THEOREM HighSeverityIsHeld == Spec => []HeldAtFirstSight
  <1>1. Init => MarksLead
    BY DEF Init, MarksLead
  <1>2. MarksLead => HeldAtFirstSight
    BY DEF MarksLead, HeldAtFirstSight
  <1> QED
    BY <1>1, <1>2, StateInit, StateStep, MarksStep, PTL DEF Spec

-----------------------------------------------------------------------------
(* What becomes of a cold start. *)

Unsettled(d) == ftAge[d] # NotStarted /\ ~Known(d) /\ ~Held(d)

\* A key that fast-track was started on, that is not held and not yet known, is on its way
\* into the baseline: it is a cold start of the window at the gate and will not be left out.
SettleInv ==
    \A d \in Dims : Unsettled(d) =>
        pc = "gate" /\ d \in cold /\ d \in win /\ d \notin skip /\ InFastTrack(d)

LEMMA SettleStep == StateStrong /\ SettleInv /\ [Next]_vars => SettleInv'
  <1> SUFFICES ASSUME StateStrong, SettleInv, [Next]_vars,
                      NEW k \in Dims, Unsettled(k)'
               PROVE  (/\ pc = "gate" /\ k \in cold /\ k \in win /\ k \notin skip
                       /\ InFastTrack(k))'
    BY DEF SettleInv
  <1> USE ConstantsAssumption
          DEF StateStrong, StateOK, SettleInv, Unsettled, Held, Known, InFastTrack
  <1>1. ASSUME NEW d \in Dims, Match(d)
        PROVE  (pc = "gate" /\ k \in cold /\ k \in win /\ k \notin skip /\ InFastTrack(k))'
    BY <1>1 DEF Match
  <1>2. CASE Add
    BY <1>2 DEF Add
  <1>3. CASE Rotate
    <2>1. ftAge' = [d \in Dims |-> Older(ftAge[d])] /\ pc = "idle"
      BY <1>3, Zenon DEF Rotate
    <2>2. engine' = engine /\ held' = held
      BY <1>3, Zenon DEF Rotate
    <2>3. ftAge[k] # NotStarted
      BY <2>1, OlderType
    <2> QED
      BY <2>1, <2>2, <2>3
  <1>4. CASE Score
    <2>1. /\ pc' = "gate" /\ engine' = engine /\ held' = held /\ win' = win
          /\ pc = "score" /\ ftAge' = StartFastTrack(cold')
      BY <1>4, Zenon DEF Score
    <2>2. cold' \subseteq win' /\ cold' \cap skip' = {}
      BY <1>4 DEF Score
    <2>3. ftAge[k] = NotStarted
      BY <2>1
    <2>4. k \in cold' /\ ftAge'[k] = 0
      BY <2>1, <2>3 DEF StartFastTrack
    <2> QED
      BY <2>1, <2>2, <2>4
  <1>5. ASSUME NEW d \in Dims, Gate(d)
        PROVE  (pc = "gate" /\ k \in cold /\ k \in win /\ k \notin skip /\ InFastTrack(k))'
    BY <1>5 DEF Gate, ShouldIngestColdStart
  <1>6. CASE IngestFiltered
    BY <1>6 DEF IngestFiltered
  <1>7. CASE Restart
    BY <1>7 DEF Restart
  <1>8. CASE UNCHANGED vars
    BY <1>8 DEF vars
  <1> QED
    BY <1>1, <1>2, <1>3, <1>4, <1>5, <1>6, <1>7, <1>8 DEF Next, Main

LEMMA SettleInit == Init => SettleInv
  BY DEF Init, SettleInv, Unsettled

\* A dimension on which fast-track was started is learned in the same window, or held.
THEOREM ColdStartsSettle == Spec => []ColdStartSettles
  <1>1. SettleInv => ColdStartSettles
    BY DEF SettleInv, Unsettled, ColdStartSettles
  <1> QED
    BY <1>1, SettleInit, SettleStep, StateInit, StateStep, PTL DEF Spec

\* An alert leaves a fast-track start behind, which rules out a second alert as long as
\* the key settles.
AlertsInv ==
    /\ \A d \in Dims : alerts[d] > 0 => ftAge[d] # NotStarted
    /\ OneColdStart

LEMMA AlertsStep == StateStrong /\ SettleInv /\ AlertsInv /\ [Next]_vars => AlertsInv'
  <1> SUFFICES ASSUME StateStrong, SettleInv, AlertsInv, [Next]_vars
               PROVE  AlertsInv'
    OBVIOUS
  <1> USE ConstantsAssumption DEF StateStrong, StateOK, AlertsInv, OneColdStart, Held
  <1>1. ASSUME NEW d \in Dims, Match(d) PROVE AlertsInv'
    BY <1>1 DEF Match
  <1>2. CASE Add
    BY <1>2 DEF Add
  <1>3. CASE Rotate
    <2>1. ftAge' = [d \in Dims |-> Older(ftAge[d])] /\ held' = held /\ alerts' = alerts
      BY <1>3, Zenon DEF Rotate
    <2> QED
      BY <2>1, OlderType
  <1>4. CASE Score
    <2>1. /\ pc = "score" /\ held' = held /\ ftAge' = StartFastTrack(cold')
          /\ alerts' = [d \in Dims |-> IF d \in cold' /\ alerts[d] < 2
                                         THEN alerts[d] + 1 ELSE alerts[d]]
      BY <1>4, Zenon DEF Score
    <2>2. \A d \in cold' : ~Known(d)
      BY <1>4 DEF Score
    <2>3. \A d \in Dims : alerts'[d] > 0 => ftAge'[d] # NotStarted
      BY <2>1 DEF StartFastTrack
    <2>4. ASSUME NEW d \in Dims, ~Held(d)', d \in cold' PROVE alerts[d] = 0
      BY <2>1, <2>2, <2>4 DEF SettleInv, Unsettled
    <2>5. \A d \in Dims : ~Held(d)' => alerts'[d] <= 1
      BY <2>1, <2>4
    <2> QED
      BY <2>3, <2>5
  <1>5. ASSUME NEW d \in Dims, Gate(d) PROVE AlertsInv'
    BY <1>5 DEF Gate
  <1>6. CASE IngestFiltered
    BY <1>6 DEF IngestFiltered
  <1>7. CASE Restart
    BY <1>7 DEF Restart
  <1>8. CASE UNCHANGED vars
    BY <1>8 DEF vars
  <1> QED
    BY <1>1, <1>2, <1>3, <1>4, <1>5, <1>6, <1>7, <1>8 DEF Next, Main

\* A dimension whose metric is not held alerts as a cold start at most once.
THEOREM ColdStartsOnce == Spec => []OneColdStart
  <1>1. Init => AlertsInv
    BY DEF Init, AlertsInv, OneColdStart
  <1>2. AlertsInv => OneColdStart
    BY DEF AlertsInv
  <1> QED
    BY <1>1, <1>2, SettleInit, SettleStep, AlertsStep, StateInit, StateStep, PTL DEF Spec

-----------------------------------------------------------------------------
(* Outliers. *)

Caught(d) == Ready(d) /\ ~InFastTrack(d) => d \in skip

\* What Score found out of range is still in the set of keys to leave out when the gate
\* is through with the cold starts.
CaughtInv == pc = "gate" /\ ~maint => \A d \in wild : Caught(d)

LEMMA CaughtStep == StateStrong /\ CaughtInv /\ [Next]_vars => CaughtInv'
  <1> SUFFICES ASSUME StateStrong, CaughtInv, [Next]_vars
               PROVE  CaughtInv'
    OBVIOUS
  <1>1. CASE Score
    <2> SUFFICES ASSUME ~maint', NEW d \in wild', Ready(d)', ~InFastTrack(d)'
                 PROVE  d \in skip'
      BY <1>1 DEF CaughtInv, Caught
    <2>1. /\ skip' = {k \in wild' : Scorable(k)} /\ engine' = engine
          /\ ftAge' = StartFastTrack(cold') /\ wild' \subseteq win
      BY <1>1 DEF Score
    <2>2. \A k \in cold' : ~Known(k)
      BY <1>1 DEF Score
    <2>3. d \in Dims /\ Ready(d) /\ Known(d)
      BY <2>1, ConstantsAssumption DEF Ready, Known, StateStrong, StateOK
    <2>4. ~InFastTrack(d)
      BY <2>1, <2>2, <2>3 DEF InFastTrack, StartFastTrack
    <2> QED
      BY <2>1, <2>3, <2>4 DEF Scorable
  <1>2. ASSUME NEW d \in Dims, Gate(d) PROVE CaughtInv'
    BY <1>2 DEF Gate, CaughtInv, Caught, Ready, InFastTrack, window, tables
  <1>3. ASSUME NEW d \in Dims, Match(d) PROVE CaughtInv'
    BY <1>3 DEF Match, CaughtInv, Caught, Ready, InFastTrack, window, verdicts
  <1>4. CASE Add
    BY <1>4 DEF Add, CaughtInv, Caught, Ready, InFastTrack, window, tables, verdicts
  <1>5. CASE Rotate \/ IngestFiltered \/ Restart
    BY <1>5 DEF Rotate, IngestFiltered, Restart, CaughtInv
  <1>6. CASE UNCHANGED vars
    BY <1>6 DEF vars, CaughtInv, Caught, Ready, InFastTrack, window, tables, verdicts
  <1> QED
    BY <1>1, <1>2, <1>3, <1>4, <1>5, <1>6 DEF Next, Main

\* Scored windows never move the baseline of a key they found out of range.
THEOREM OutliersStayOut == Spec => OutliersLeftOut
  <1>1. Init => CaughtInv
    BY DEF Init, CaughtInv
  <1>2. StateStrong /\ CaughtInv /\ [Next]_vars =>
            (~Restart /\ pc = "gate" /\ ~maint =>
                \A d \in wild : Ready(d) /\ ~InFastTrack(d) => engine'[d] = engine[d])
    <2> SUFFICES ASSUME StateStrong, CaughtInv, [Next]_vars, ~Restart, pc = "gate", ~maint,
                        NEW d \in wild, Ready(d), ~InFastTrack(d)
                 PROVE  engine'[d] = engine[d]
      OBVIOUS
    <2>1. d \in skip /\ d \in Dims
      BY DEF CaughtInv, Caught, StateStrong, StateOK
    <2>2. CASE IngestFiltered
      BY <2>1, <2>2 DEF IngestFiltered
    <2>3. CASE engine' = engine
      BY <2>3
    <2> QED
      BY <2>2, <2>3 DEF Next, Main, Match, Add, Rotate, Score, Gate, vars, tables
  <1> QED
    BY <1>1, <1>2, StateInit, StateStep, CaughtStep, PTL DEF Spec, OutliersLeftOut
=============================================================================
