------------------------------ MODULE Novelty --------------------------------
(***************************************************************************)
(* First sightings of outbound connections: reported while monitoring, and *)
(* remembered in memory and in the store, over crashes and restarts.       *)
(*                                                                         *)
(* Abstractions.  A key stands for a process, an address and a port; only  *)
(* connects with an address are sightings.  The phase is the phase         *)
(* manager's; here it may change at any time.  Beacon is the other half of *)
(* Observe.                                                                *)
(***************************************************************************)
EXTENDS Naturals, Sequences

CONSTANTS
    Keys,
    MaxStarts,   \* bound: incarnations of the process
    MaxFaults    \* bound: store operations that fail

ASSUME ConstantsAssumption == MaxStarts \in Nat \ {0} /\ MaxFaults \in Nat

VARIABLES
    starts,      \* incarnations so far
    hasStore,    \* the store could be opened
    monitoring,  \* phaseFn() = PhaseMonitoring
    pc, key,     \* the consumer goroutine in Observe: what it does next, the key in hand
    memSeen,     \* Tracker.memSeen
    db,          \* rows of novelty_seen
    faults,      \* store operations that failed
    blind,       \* history: there is no store, or the row of the key in hand was not read
    reports,     \* history: the reports of each key
    skipped,     \* history: keys that were sighted and not reported
    cut          \* history: keys whose report was cut off by a crash

process == <<starts, hasStore, monitoring>>
history == <<blind, reports, skipped, cut>>
vars == <<process, pc, key, memSeen, db, faults, history>>

None == "none"

Init ==
    /\ starts = 1 /\ hasStore \in BOOLEAN /\ monitoring = FALSE
    /\ pc = "idle" /\ key = None
    /\ memSeen = {} /\ db = {} /\ faults = 0
    /\ blind = FALSE /\ reports = [k \in Keys |-> <<>>]
    /\ skipped = {} /\ cut = {}

-----------------------------------------------------------------------------
(* Observe, while monitoring: markSeen, then the report. *)

AfterSight == IF hasStore THEN "check" ELSE "mark"

Sight(k) ==
    /\ pc = "idle" /\ monitoring
    /\ \/ /\ k \in memSeen
          /\ skipped' = skipped \cup {k}
          /\ UNCHANGED <<pc, key, blind>>
       \/ /\ k \notin memSeen
          /\ key' = k /\ pc' = AfterSight /\ blind' = ~hasStore
          /\ UNCHANGED skipped
    /\ UNCHANGED <<process, memSeen, db, faults, reports, cut>>

\* HasNovelty: a query that fails is taken for a key that is not there.
HasNovelty ==
    /\ pc = "check"
    /\ \/ /\ key \in db
          /\ pc' = "idle" /\ key' = None /\ skipped' = skipped \cup {key}
          /\ UNCHANGED <<faults, blind>>
       \/ /\ key \notin db
          /\ pc' = "record"
          /\ UNCHANGED <<key, faults, blind, skipped>>
       \/ /\ faults < MaxFaults
          /\ faults' = faults + 1 /\ pc' = "record" /\ blind' = TRUE
          /\ UNCHANGED <<key, skipped>>
    /\ UNCHANGED <<process, memSeen, db, reports, cut>>

\* RecordNovelty, whose error is ignored.
RecordNovelty ==
    /\ pc = "record"
    /\ \/ /\ db' = db \cup {key}
          /\ UNCHANGED faults
       \/ /\ faults < MaxFaults
          /\ faults' = faults + 1
          /\ UNCHANGED db
    /\ pc' = "mark"
    /\ UNCHANGED <<process, key, memSeen, history>>

MarkNot ==                                \* mutant: the memory is not kept
    /\ pc = "mark"
    /\ pc' = "report"
    /\ UNCHANGED <<process, key, memSeen, db, faults, history>>

\* The key is seen from now on, and the signal returned.
Mark ==
    /\ pc = "mark"
    /\ memSeen' = memSeen \cup {key}
    /\ pc' = "report"
    /\ UNCHANGED <<process, key, db, faults, history>>

ReportNot ==                              \* mutant: the signal is dropped
    /\ pc = "report"
    /\ pc' = "idle" /\ key' = None
    /\ UNCHANGED <<process, memSeen, db, faults, history>>

\* main logs and exports the signal.
Report ==
    /\ pc = "report"
    /\ reports' = [reports EXCEPT ![key] =
                     Append(@, [start |-> starts, row |-> key \in db, blind |-> blind])]
    /\ pc' = "idle" /\ key' = None
    /\ UNCHANGED <<process, memSeen, db, faults, blind, skipped, cut>>

-----------------------------------------------------------------------------
(* The phase, and the process. *)

ChangePhase ==
    /\ monitoring' = ~monitoring
    /\ UNCHANGED <<starts, hasStore, pc, key, memSeen, db, faults, history>>

\* The process ends, wherever its consumer is, and is started again.
Restart ==
    /\ starts < MaxStarts
    /\ starts' = starts + 1
    /\ hasStore' \in BOOLEAN /\ monitoring' \in BOOLEAN
    /\ memSeen' = {}
    /\ cut' = IF pc \in {"mark", "report"} THEN cut \cup {key} ELSE cut
    /\ pc' = "idle" /\ key' = None
    /\ UNCHANGED <<db, faults, blind, reports, skipped>>

Next ==
    \/ \E k \in Keys : Sight(k)
    \/ HasNovelty \/ RecordNovelty \/ Mark \/ Report
    \/ ChangePhase \/ Restart

Spec == Init /\ [][Next]_vars

-----------------------------------------------------------------------------
(* Properties. *)

Reports == [start : 1..MaxStarts, row : BOOLEAN, blind : BOOLEAN]

TypeOK ==
    /\ starts \in 1..MaxStarts /\ hasStore \in BOOLEAN /\ monitoring \in BOOLEAN
    /\ pc \in {"idle", "check", "record", "mark", "report"}
    /\ key \in Keys \cup {None} /\ (key = None <=> pc = "idle")
    /\ memSeen \subseteq Keys /\ db \subseteq Keys /\ faults \in 0..MaxFaults
    /\ reports \in [Keys -> Seq(Reports)] /\ blind \in BOOLEAN
    /\ pc \in {"check", "record"} => hasStore

\* A first sighting is reported once: never twice by one incarnation, whatever fails, and
\* by a later one only if an earlier report left no row or the row was not read.
ReportedOnce ==
    \A k \in Keys : \A i, j \in DOMAIN reports[k] : i < j =>
        /\ reports[k][i].start < reports[k][j].start
        /\ reports[k][i].row => reports[k][j].blind

\* No first sighting is lost: a key that is passed over in silence has been reported, in
\* this incarnation or an earlier one, unless a crash cut its report off.
SkippedWereReported == \A k \in skipped : reports[k] # <<>> \/ k \in cut
=============================================================================
