# Verification of the eBPF adaptive security agent

TLA+ models of the agent in `src/host/ebpf-agent`, the TLC runs that check them
on small instances, and TLAPS proofs for every value of their constants.
`PROJECT.json` lists components, runs, mutants, the map from definitions to
source lines, findings, hazards and theorems.

## 1. The system

The agent is one Linux process. BPF programs on tracepoints put events into a
ring buffer; the process reads, enriches, matches and counts them, rates each
one-minute window against a learned baseline, and keeps that baseline in SQLite.

```
 tracepoints --> ring buffer --> reader goroutine --> channel(4096) --> consumer goroutine
 (exec.bpf.c)    (or drop++)     Consumer.Run         (or drop++)       enrich, rules -> hold mark,
                                                                        novelty, composite, chain,
                                                                        aggregator.Add
 main goroutine:  select { signal | health tick | prune tick | window tick }
    window tick:  Aggregator.Rotate -> phase.Manager.ProcessWindow -> [Scorer.Score, onScore,
                  Engine.IngestFiltered] -> persist -> Store
    signal:       close reader, wait for both goroutines, Rotate, ProcessWindow, Persist, return
 HTTP goroutine:  metrics; a serving error ends the process (log.Fatalf)
```

| Component | State | Operations | What makes it correct |
|---|---|---|---|
| Phase manager (`internal/phase`) | phase, learning start, last recalibration | NewManager, ProcessWindow, Reset, Persist | monitoring only after learning; learning ends; a restart resumes what was reached |
| State store (`internal/store`) | rows of `baselines`, `metadata`, `novelty_seen` | Save/LoadBaseline, Set/GetMeta, Has/RecordNovelty | stored progress is not lost by crashes, failures or restarts |
| Baseline engine (`internal/baseline`) | buckets per dimension, fast-track starts, holds | IngestFiltered, lookups, fast-track, marks, Snapshot, Restore | anomalous counts stay out; new dimensions get in once; holds hold |
| Scorer (`internal/scorer`) | none but the engine's | Score | each key is rated by the rule that applies to it; severity follows the confidence |
| Aggregator (`internal/aggregator`) | current window, exec times, forks, destinations | Add, Rotate | every event in exactly one window; what is derived agrees with the window's events |
| Ring buffer consumer (`internal/ringbuf`) | channel, reader | Run, Close | order kept, overload drops and never blocks, shutdown ends |
| Main (`cmd/agent`) | tickers, signal, wait group | select loop, shutdown | nothing counted behind the last window; the last state stored |
| BPF programs (`bpf`) | maps: ring buffer, drops, pid_parents, rate limits | one program per tracepoint | every event accounted for; limits hold; order kept per CPU and per task |
| Enricher (`internal/enricher`) | PID cache (TTL, LRU), users, containers | Enrich | a stale entry is given no longer than its time to live |
| Process table | entries by pid, start times | Observe, Lineage (no caller), Prune | one identity per process although pids are reused |
| Composite rules | steps by pid | Observe | a match exactly when the sequence occurred within the window |
| Kill chains | steps by pid, emitted keys | Observe | same, once per chain |
| Novelty | seen keys, connect times | Observe | a first sighting is reported once, over restarts too; a beacon is a steady pace |
| Rules, MITRE map, OTel export, configuration, keys, sensitive paths | (nearly) none | look-ups, I/O | tables |

Shared state: the consumer goroutine and the main goroutine meet in the
aggregator's current window (mutex), in the engine's hold tables (RWMutex) and
in the manager's phase; the goroutines of the pipeline meet in the ring buffer
and the channel; the programs of all CPUs meet in the ring buffer and in
`pid_parents`. Hard behaviour: crashes between two writes of the store, failed
store operations, restarts during learning, the order mark/count/rotate/score/
gate, records reserved and submitted in different orders, per-CPU limits at the
edge of a window, overflow of both buffers, a cache read before a lookup that
other processes overtake, and the shutdown handshake. Every such point is listed
under `hazards`.

## 2. Modules

| Module | What it is |
|---|---|
| `Tracepoints`, `MCTracepoints` | the BPF programs on several CPUs: what each reports, the limits on opens and writes, the ring buffer |
| `TracepointsProofs` | its theorems |
| `Pipeline`, `MCPipeline` | an event's way through ring buffer, reader, channel, consumer, window; ticker, signal, shutdown, kill |
| `Delivery` | abstract specification: each event lost or rated at most once, windows in order |
| `PipelineProofs` | theorems about `Pipeline` |
| `EventLoop`, `MCEventLoop` | an event in the consumer goroutine: its binary looked up while processes go on, then counted; composes the two below |
| `PidCache` | the enricher's cache of binaries by pid |
| `Aggregator` | the counts of a window and the tables they are derived from |
| `EventLoopProofs` | theorems about `EventLoop`: the cache and the window's counts |
| `EventStream` | the events the consumer goroutine hands to the detectors, and time |
| `Composite` | composite rules: the greedy matcher over the steps kept for a pid |
| `Chain` | kill chains: capped and pruned steps, the chains remembered |
| `Detectors`, `MCDetectors` | both detectors on one stream; composes the three above |
| `ProcTable`, `MCProcTable` | process table over the kernel's tasks, `pid_parents` and lost events |
| `ProcTableProofs` | its theorems |
| `Novelty` | first sightings in memory and in the store, over faults and restarts |
| `Beacon` | connects at steady gaps |
| `Tracker`, `MCNovelty` | both halves of the novelty tracker |
| `DetectionProofs` | theorems about `Detectors` and `Tracker` |
| `Scoring`, `MCScoring` | which buckets a verdict rests on, its confidence and severity, and the ingest gate of one dimension |
| `ScoringProofs` | its theorems |
| `ColdStart`, `MCColdStart` | how a dimension enters the baseline: scorer verdicts, fast-track, hold, ingest gate; consumer against main goroutine |
| `ColdStartProofs` | its theorems |
| `PhaseManager`, `MCPhaseManager` | lifecycle over incarnations of the process: NewManager, ProcessWindow, Reset, Persist, the store, failures, crashes |
| `Lifecycle` | abstract specification: learn, then monitor; a start resumes what is stored |
| `PhaseManagerProofs` | theorems about `PhaseManager` |

### Tracepoints

One action per BPF program, on a CPU and for the task it runs. The kernel runs
the programs of a CPU one after another; those of different CPUs interleave at
the points where they meet, the ring buffer: `Reserve`, `Submit`, `Drop`. An
exec's or an open's record is built on the stack, header and all, and copied in
one step (`bpf_ringbuf_output`); any other is reserved first and gets its header,
and with it its time, when it is filled. A task goes on only when its program
has ended (`Held`). `log` is every record ever reserved, `taken` how far user
space has read; a record that is not submitted stops the reader.

`rl` are the two limiters, each a window and a count per CPU; the three open
programs share one. A path is its length, whether it is under /tmp and where
"/sudo" stands in it: that is all the programs look at, apart from copying it,
and `ReadUserStr`, `EndsInSudo` and `PathLen` do the arithmetic on lengths that
the code does. An address is its family, its port, whether `addrlen` allows for
the family, and how far it can be read. `SetParent` fails for a new key when
`pid_parents` is full. `mark_victim` bears the task that runs. Which programs
are attached is a constant, as main goes on without those that it cannot attach.

### Pipeline

Events are numbered by emission. `Emit` is `emit_event`: reserve or count a
drop. The reader goroutine is `Read`, `Push` (the send with a `default`) and
`ReadClosed` (return, deferred `close(c.out)`); the consumer is `Receive`,
`Observe`, `Add`, `ConsumerDone`; main is the select and, on a signal, the steps
of the shutdown in their order. The reader library is external: `Close` makes
every later `Read` return `ErrClosed`, whatever is left in the buffer. `Kill`
stands for SIGKILL and for the `log.Fatalf` of the HTTP goroutine.

### EventLoop, PidCache, Aggregator

`Enrich` takes the head of the queue and, unless the event names its file, asks
the cache: `AskCache` is `resolveBinary` up to the release of the lock,
`ReadLink` the read of `/proc/<pid>/exe`, `Insert` the rest, under the lock again.
In between processes fork, exec and exit, single threads exit with an event like
that of their process, and time passes; `slow` sums up the
time lookups had to wait between reading and inserting. The pid that asks may be
gone or another's. An exec that names its file leaves the cache as it is.
`Count` is `Add` in full: the event's own dimension and the host's, fork scores,
short lives, unique destinations. `RotateWindow`, of the main goroutine, comes
between any two of them; the mutex makes each one step. `seen` keeps the events
counted, and the properties recompute the window from it (`Recount`).
Lost events never enter the queue, any event can be lost.

### EventStream, Composite, Chain, Detectors

Both detectors run in the consumer goroutine and keep steps by pid; `Detectors`
hands each event to the one, then to the other, as the loop in main does, in one
step. `TimePasses` advances a counter between events, so that several events can
fall on one instant and limits are met exactly. `hist` keeps every event, and the
properties define on it, without the matcher, what should have been found
(`Completed`, `ConnectAfterExec`). A pid stands for whatever processes have it
one after another: neither detector is told of an exit.

`Since` is the loop with which both prune: what is kept of a list after each of
its rounds. `Composite`: `Kept` is that loop with 60 s, `Advance` one round of the
loop of `matchRule`, and `MatchRule` the whole of it. Loops are functions of the
number of rounds, so that they can be reasoned about. `FreshSequencesFire` is the promise the
greedy matcher keeps: it misses a sequence only while an earlier start is kept
whose window has run out.

`Chain`: `Latest` is the cap of 16 steps, `PruneSteps` and `PruneEmitted` are
`pruneLocked`, `IsChain` and `Key` are `detectLocked`. Detection looks at the
steps as they were before the pruning, as in the code; `StaleSpansFollowSilence`
bounds what that can do. A second is the unit of time, that of the key. In main
the detector exists only with an OTel client; the model has one.

`Detectors` states what the two promise together: alerts are of sequences that
occurred (`AlertsAreReal`), and sequences that occur are reported
(`SequencesReported`), each up to what the matcher forgets.

### ProcTable

Kernel and table together. Threads and processes take ids from one pool, and the
tracepoints bear what they bear in the kernel: the fork event the pid of the
process that forks, the exit event, of every thread, the pid of its process. A
leader may exit before its threads (`left`): its id stays taken, as in the kernel,
until the process ends or a thread's exec takes the id over.
`Fire` delivers the event to the table or loses it (`Lossy`); delivery in order
is the subject of `Tracepoints` and `Pipeline`. `UpdateParents` fails for a new
key when `pid_parents` is full. `clock` numbers the events and stands for
`timestamp_ns`; `idle` is the time since `LastSeen`. `forks`, `creator`, `owner`,
`named`, `threadGone` and `wrongly` are history.

### Novelty, Beacon, Tracker

`Novelty`: `markSeen` and the report step by step, so that a failure or a restart
can come between any two: memory, `HasNovelty` (an error reads as absent),
`RecordNovelty` (its error is dropped), mark, report. The phase may change at any
time. `reports` notes for each report whether it left a row and whether the
store could be read.

`Beacon`: `checkBeacon` for one key: the last eight connect times, three gaps at
least, the first of them the measure of the others. A fifth of a gap is compared
in whole numbers. Only connects that are observed while monitoring count, and a
restart is a new start.

`Tracker`: `Observe` runs both halves on the same connects. They share no state,
so the runs follow one half at a time (`half`).

### ColdStart

Opens the box that `PhaseManager` leaves closed. The consumer evaluates the
rules (`Match` marks the metric of a high-severity event as held) and then counts
(`Add`). The main goroutine rotates, scores, gates one cold start at a time
(`ShouldIngestColdStart`, between whose calls the consumer may mark) and
ingests. Whether a count is out of range is a bit of the input (`wild`);
whether it can be *seen* as out of range (`Scorable`) follows the order of the
tests in `Score`. The results that `Score` adds for known keys missing from the
window change nothing in the ingest and are left out. `Restart` keeps the stored
baseline and loses the fast-track and hold tables, as the code does. Only
`heldFastTrackMetrics` is kept: `MarkHighSeverityDimension` and
`ClearFastTrackHold` have no caller, so the other tables stay empty, and
`fast_track_hold_high_severity`, which only they consult, has no effect.

### Scoring

One dimension. A bucket is its number of samples; how far a count is off
(`usual`, `off`, `far`; `rare` for a dimension that is not missed, its mean being
below one) is an input, and so are ceilings, maintenance and holds.
`Lookup` is `lookupWithFallback`: the bucket itself, its neighbours in the table,
the whole week; its confidence is a fraction, so the thresholds 0.35 and 0.6 are
compared exactly. `Score` follows the order of the tests in the code, and the
gate and the update of the bucket are `IngestFiltered`: what is an alert today
decides which buckets are ready tomorrow.
`ColdStart` has several dimensions and the concurrency, `Scoring` has the buckets.

### PhaseManager

`pc` is what the main goroutine does next (`down` between incarnations).
`phase`, `learnAge`, `recalibAge` are `Manager.phase`, the time since
`learningStart` and since `lastRecalib`; `engine` is the in-memory baseline as
samples per dimension; `dbBaseline`, `dbPhase`, `dbAge` are the stored baseline
and the metadata rows `phase` and `learning_started_at`. Time advances by `Tick`
in windows, ages saturate where the code compares them. A start is one action
per branch of `NewManager` (`BootEmpty`, `BootMonitoring`, `BootLearning`,
`BootWithoutStore`), each with the store operations that may fail in it. The
lock section of `ProcessWindow` is `BeginWindow`; the transition persists inside
it (`LockHeld` keeps `Reset` out). `persist` is two writes, `SaveBaseline` and
`SetPhaseMeta`, with a crash possible between them and each able to fail. What
the scorer skips is any subset of the window. `earned`, `blind`, `clean`,
`unsaved` and `resetOpen` are history variables for the properties only.

`Reset` has no caller in the agent today, but it is exported and takes the lock;
it is modelled as callable from another goroutine.

## 3. Runs

| Run | Checks | Bounds and why they are enough |
|---|---|---|
| `tracepoints` | `SampledWithinRate`, `InOrder`, `Accounted`, `FlagsExact`, `SuppressedAtLimit`, and `RecordsRead` | 2 CPUs, 3 tasks of which 2 run at first, limits of 1 open and 2 writes per window of 1, ring buffer of 2, `pid_parents` of 1; eight sets of attached programs, 2 to 4 events: 4 writes, twice the limit, can be admitted in a row, 3 opens likewise; a ring buffer full with records half filled, two CPUs between reserve and submit, paths at 126 bytes, empty, unreadable, and with more behind "/sudo", addresses too short or readable in part |
| `pipeline` | `Conservation`, `GracefulDelivery`, `ImplementsDelivery`, and `ShutdownCompletes`, `EventsRated` under `FairSpec` | 6 events, ring buffer and channel of 2: either overflows while every goroutine behind it holds an event; one malformed record, one excluded event |
| `event_loop` | `TypeOK`, `AnswerIsRecent`, `WindowIsRecount`, `StartsAreOpen` | 4 pids, 2 binaries, a cache of 2 entries and 2 units of life, a queue of 2. Four workloads, each with the settings that matter to it: execs and exits over 3 units of time (expiry, reuse and eviction meet, short lives at the limit), forks and exits (4 events, a score from 2 forks), connects (to 2 addresses or an unreadable one), opens and writes |
| `detectors` | `DetectorsOK`, `AlertsAreReal`, `SequencesReported`, `SpansApart`, `StaleSpansFollowSilence` | 4 events of four types on 2 symmetric pids, 4 units of time; rules of two and three steps and one that repeats a step, windows below and above the limit of 2; a cap of 3 and a chain window of 2: a start can be kept, too old for its window, or pruned, the cap overflows, a step and a remembered chain both expire |
| `proc_table` | `StartsMatchEntries`, `PpidIsForker`, `PrunedHadExit`, and `ExitedArePruned` under `FairSpec` | 3 ids, 2 processes in a row under each, 5 events, any of them lost, `pid_parents` of 2 rows: it fills up while an id is still without a row |
| `proc_reuse` | a documented claim that the code violates | 2 ids, 6 events, none lost |
| `novelty` | `ReportedOnce`, `SkippedWereReported`, `BeaconMeansRegular` | 2 symmetric keys, 3 incarnations, 2 failing store operations: a failed write and a failed read can meet in successive incarnations. 10 connects at gaps of 1, 10, 11 or 13, the range being 2 to 12: an odd gap enters the eight times and leaves them, first gaps are out of range on either side, and others within a fifth of the first or not |
| `scoring` | `CriticalHasGrounds`, `SilentOnlyUnready` | a week of 3 days of 2 hours: buckets with two, three and four neighbours; 2 samples make one ready, 4 are enough for a critical alert |
| `cold_start` | `HeldAtFirstSight`, `ColdStartSettles`, `OneColdStart`, `OutliersLeftOut` | one high-severity metric with a host-wide and a per-process key, one routine metric with a ceiling; fast-track of 1 window, baseline ready after 1 sample, counts to 2; any number of windows and restarts |
| `cold_start_hold` | a documented claim that the code violates | as `cold_start` |
| `phase_faults` | `TypeOK`, `MonitoringEarned`, `BoundedLoss`, `NoSavedSampleLost`, `GracefulRestart`, and `LearningCompletes` under `FairSpec` | 2 dimensions, learning of 2 windows, recalibration every window, 2 crashes, 1 fault, 1 reset, 1 silent window: a crash can hit between the two writes of two successive persists, a failure any of the store operations, the recalibration's save among them |
| `phase_lifecycle` | `ImplementsLifecycle` | 2 dimensions, 2 crashes, no faults, resets or silent windows |

Deadlock is checked in the phase, cold-start and scoring runs. The pipeline
really stops (`exited`, `killed`), so its run does not check it;
`ShutdownCompletes` is the stronger statement. The handlers of `Detectors`,
`ProcTable` and `EventLoop`, the BPF programs and `Beacon` never wait for one
another: their models stop only when the bounds on events, connects and time are
used up, so their runs do not check it either. `RecordsRead` says for the ring
buffer that no order of reserving and submitting blocks it for good. Every
property has a mutant of the code in `PROJECT.json` that violates it; the mutants
stand beside the definitions they replace.

`MonitoringEarned` and the refinement state their conditions. A silent window at
the transition, or a learning duration of at most one window, stores the phase
"monitoring" beside an empty baseline, which the next start takes for a fresh
one; a failed load does the same. `GracefulRestart` excludes an open reset.

### Findings

Two documented claims fail in a run of their own, which shows the shortest way:
the fast-track hold lasts for one window only; a pid reused before its old entry
is pruned keeps the old identity and parent.

Other differences between code and documents show in the models as conditions of
the properties or as the way an action is written.

What the baseline learns and rates:

* Learning does not survive a crash: nothing is stored before the transition
  (DESIGN.md:451); `LearningCompletes` says only that it ends all the same. A reset does not survive one either: the row `phase` is not
  written (the open reset in `GracefulRestart`). `Reset` has no caller yet.
* A failed load at the start ends in overwriting the stored baseline (`blind` in
  `NoSavedSampleLost`). A failed recalibration is tried again only an interval
  later (`PutOff` in `BoundedLoss`).
* Maintenance windows suppress the scoring that keeps outliers out of the
  baseline (`maint` in `OutliersLeftOut`).
* A held key that returns after its fast-track window alerts as a cold start for
  ever, without entering fast-track again (DESIGN.md:265-267).
* The median and deviation of a thin bucket's own samples can be used together
  with a confidence borrowed from its neighbours, so that a bucket with little of
  its own gives a critical alert (`Surrounded` in `CriticalHasGrounds`;
  DESIGN.md:257). Confidence is not monotone: four neighbours give 0.75, and the
  sample that makes the bucket ready takes it down to 1/3. Buckets of the first
  and the last day have no four neighbours and never borrow enough.
* A bucket whose windows are all alerts, rated by its neighbours, is never ready.

What an event tells:

* Sensitive files are matched in user space, after the kernel's limit on opens:
  a sensitive open can be held back like any other, and nothing counts what is
  held back (`suppressed` in `Accounted`; DESIGN.md:206-207).
* A limit is per CPU, and up to twice the limit, less one, can pass within a second,
  around the end of a window (`SampledWithinRate`).
* Exec paths are read up to 126 bytes, not 128: one that is longer is cut, and
  its flag for sudo tells of the cut (`FlagsExact`).
* Records of different CPUs need not be in the order of their times (`InOrder`).
* `ppid` is the thread that forked, as `pid_parents` has it, and 0 for processes
  older than the agent or when the map is full. The fork event bears the parent
  of the process that forks: fork bombs are scored by the grandparent of the
  children, and not at all without one.
* The event of an OOM kill bears the task that runs, not the victim.
* The switches `MONITOR_*` of exec.bpf.c:9 cannot be turned off with `-U`: each
  is defined again if it is not defined.
* An exec event names its file although execve may fail after it, and does not
  reach the cache: later events of the pid can be given the old binary until its
  entry expires. Failed lookups are kept as "" likewise (`AnswerIsRecent`).
* Events of one process are labelled by binary or by comm, depending on whether
  the lookup succeeded: two dimensions. Without `per_process` all parents write
  the one fork bomb score of the host.
* Without the scheduling metrics no exit is counted, and times of execs are kept
  for ever (`StartsAreOpen`); the exit of a thread counts as that of its process.

What the detectors pair:

* Steps are kept by pid, so a match can join two processes; the default
  composite rule fires for the exec of any binary, a shell or not; kill chains
  never pair a connect with an exec of the parent (`Table.Lineage` has no caller).
* An exec that is still kept but out of its rule's window hides a later exec and
  connect (`FreshSequencesFire`; DESIGN.md:139-140).
* Each fork gives the process that forks a new start time in the process table;
  the exit of a thread marks its process as exited, and it may be pruned while it
  runs (`threadGone` in `PrunedHadExit`). An exec after it brings a new start time
  and keeps that of the entry: `StartsMatchEntries` is about existence.
* A first sighting whose row could not be written is reported again after a
  restart (`row` in `ReportedOnce`); one whose row was written and whose report a
  crash cut off is never reported (`cut` in `SkippedWereReported`).
* A composite match repeats with every later event that completes it; a chain does
  not (`SpansApart`).
* What is in the ring buffer when main closes the reader is neither processed nor
  counted as dropped (`Range(ring)` in `GracefulDelivery`).

### Fairness

`PhaseManager!Fairness`: systemd restarts the service (`Boot`), the main
goroutine runs (`WindowTick`, `MainStep`), and time passes (`Tick`, strong
because restarts keep suspending the model's clock). Crashes, faults, resets and
silent windows are bounded by constants and never fair. `Pipeline!Fairness`: the
scheduler runs each goroutine, the ticker ticks; `select` picks at random among
ready cases, hence strong fairness for each of its two cases. No fairness for
events, the signal or a kill. `ProcTable!Fairness`: time passes and the prune
ticker of main ticks; nothing is assumed of the tracepoints.
`Tracepoints!Fairness`: a program that runs goes on to its end, since the kernel
runs it with preemption off, and the reader goroutine reads; tracepoints need
not fire.

## 4. Proofs

All checked by TLAPS for every value of the constants that meets each module's
assumptions.

* `PhaseManagerProofs`. `TypeCorrect`. `SavedSamplesSurvive` from the invariant
  `EngineExtendsStore`: unless a load failed, the engine has at least the samples
  of the store, so a save cannot shrink it. `MonitoringIsEarned` from `EarnedInv`:
  `MonitoringEarned` is not inductive, since what a start will do depends on rows
  written by different steps; the invariant ties the stored phase, the stored
  baseline, the phase name a persist carries and the step it is at to the history
  of learning. `LifecycleIsImplemented` from `CalmInv`, by mapping the initial
  state and every action to an action of `Lifecycle` or a stutter, for no faults,
  resets and silent windows and a learning duration above one window.
  `LossIsBounded` from `LossInv`, which says at each point of the main goroutine
  how many windows may have gone by since the last save: one between the stamp of
  `lastRecalib` and the save, another while a tick is due. That is where the
  `+ 2` comes from; a persist that fails leaves what it should have saved to the
  next, an interval and a window later (`PutOff`). `GracefulRestartLosesNothing`, an action property, from
  `GracefulInv`: from the read of the phase in `Persist` on, what a shutdown has
  written is what the agent has, and the stored start of learning is never
  younger than the one in memory.
* `ColdStartProofs`. `TypeCorrect`. `HighSeverityIsHeld` from `MarksLead`: the
  mark is set for the event in the consumer's hand and for every key counted or
  being rated. `ColdStartsSettle` from `SettleInv`: a key that was started, is
  unknown and not held is a cold start of the very window at the gate and will
  not be skipped; between windows there is no such key. `ColdStartsOnce` from
  `AlertsInv`, which leans on `SettleInv`. `OutliersStayOut`, an action property,
  from `CaughtInv`.
* `PipelineProofs`. `LastWindowIsLast` from `ShutdownInv`: reader before channel,
  channel before consumer, both before the last rotation. `EventsInOrder`,
  `EventsConserved`, `ShutdownDelivers` and `TypeCorrect` from `PipelineInv`,
  which adds `HandInv` (a goroutine holds an event exactly at the points where
  the code has one in a local variable) and `FlowInv` (the seven places, downstream
  first, are each above all before them, and with the four ways to be lost they
  partition the events emitted). Order and conservation need each other: an event
  cannot be in two places because it would be above itself. The buffers enter
  through two lemmas on sequences, `AppendFacts` and `HeadTailFacts`.
  `PipelineDelivers`, the refinement, maps emission, the three later ways to lose
  an event and the rating of a window to `Delivery`; all else stutters.
* `TracepointsProofs`. `RateIsKept` and `SuppressionIsJustified` from `LimiterOK`,
  which ties window and count to the whole history of a limiter: the last `count`
  admissions lie in the current window, those before it began earlier, and those
  that are a limit further back more than a window before it. `RecordsInOrder`
  and `TypeCorrect` from `RingOK`: what a program fills or is about to reserve is
  the last there is of its CPU and of its task, because it holds both.
  `FlagsAreExact`: whatever a program can report bears the right flags
  (`EventsExact`, by arithmetic on the lengths that `bpf_probe_read_user_str`
  leaves), and the records hold such events only. `NothingLostUncounted` from
  `AccountsOK`: a tracepoint that fires has one of three ends (`FireEnds`), and
  every later step moves it from one of the counted places to another. A sum of
  counters over the CPUs is stated as the number of members of the unfolded
  counters, a set that grows by one member at a time.
* `EventLoopProofs`. `AnswersAreRecent`: `AnswerIsRecent` speaks of the answer
  only; the invariant says the same of the link just read (`ReadRecent`) and of
  every entry of the cache from its expiry backwards (`EntriesRecent`). That a hit
  moves the entry without touching its expiry is what makes it inductive.
  `LoopTypes` adds `CacheInv`: while a lookup is between its two locks its pid has
  no entry, so that the insertion does not make two. `StartsStayOpen` comes
  with `TimesKept`: the time kept for a pid is that of an exec which no counted
  exec or exit of the pid has followed, over all that was ever counted, since
  `Rotate` does not clear the exec times. `WindowsAreRecounts` from it and from
  `WindowInv`: the window is the bag that a recount of its events gives, and so
  are the tables behind the derived metrics, forks by parent (`ForksExact`) and
  destinations (`DestinationsExact`). Add writes up to four dimensions; the lemmas
  show that they are apart (`MetricsApart`) and that the recount of each grows by
  as much (`RecountIs`).
* `ScoringProofs`. `CriticalsAreGrounded`, `SilenceIsUnready` and `TypeCorrect`
  from `SInv`, by arithmetic on the confidence: 0.6 takes 9/5 of the samples that
  make a bucket ready, or four neighbours, and the whole week gives 1/2 at most.
* `DetectionProofs`, about `Novelty`. `ReportsAreOnce` from `OnceInv`: memory knows
  what this incarnation has reported, the store what left a row, so a key on its
  way to a report is new to both, or was not looked up. `NoneIsLost` from
  `LossInv`, the converse: what memory or store know was reported, is about to be,
  or was cut off. `TrackerSights`: the tracker implements `Novelty`, so both hold
  of it. `BeaconsAreRegular` from `BeaconInv`: the kept times are those of the
  last eight connects; the rest is arithmetic on fifths and elevenths.
* `DetectionProofs`, about `Detectors`. `DetectorTypes`, `AlertsTellTruth`,
  `SequencesAreReported`, `SpansStayApart` and `StaleSpansAreFirst`, from one
  invariant, `DetectorsInv`. `CompositeInv`: a list holds every recorded event of
  its pid that is recent, in the order of the history. `StepsInv`: a list of steps
  is the end of its history, it has what is within the window among the last
  `Cap` events, and none of it was out of the window at any event of any pid; so
  an exec can be stale only if nothing was looked at since. `SpansInv`: a chain is
  remembered for exactly the window after its span, hence two spans of one chain
  are apart. That an alert is real needs an upper bound of what the matcher has
  matched after n rounds (`Partial`: an occurrence, in order, within the window);
  that a sequence is reported needs a lower bound (`Caught`: at least as many steps
  as those of the sequence that lie among the first n). The lower bound
  holds only while no start in the list has run out of its window (`NoneStale`),
  and that is exactly the condition in `FreshSequencesFire`.
* `ProcTableProofs`. `MapsAgree` and `ParentsAreForkers` from `Inv`: a process
  leads its own group while any thread of it runs (`Grouped`), the row of a
  running process is its last fork (`RowsOfRunning`), and no entry is without a
  start time. `PrunedEntriesHadExit` from `ExitInvariant`: an exited entry of a
  process that runs owes its mark to a thread (`ExitedEnded`), and that outlives
  the reuse of the pid because a fork or an exec that is observed takes the mark
  away, and one that is lost leaves an entry of another process.

Every safety property of every passing run, invariant or action property, and
both refinements are theorems. Some hold for a module's specification without
fairness, which the specification with fairness implies.

The assumptions are those of the modules: durations, limits and caps are natural
numbers, and positive where the code has a positive constant, refuses others or
replaces them; `Tracepoints` and `EventLoop` also say of which kind the members
of their sets of inputs are (a path has a length, an event a type that the ring
buffer knows). How many pids, tasks, CPUs, keys or dimensions there are is left
open. The bounds on events, time, crashes and faults are constants too, so a
theorem holds for runs of any length.

Induction over a number of rounds is done with a least counterexample
(`LeastNatural`, `UpTo`, from the library's theorem on well-founded relations),
since the library's induction theorems take an operator as a parameter, which no
installed prover can instantiate. That is how the loops `Since` and `MatchRule`
are unfolded. The folds of the community modules cannot be unfolded; the one left
(`EventCount`) stands in a guard on a bound and no proof looks into it.

Model-checked only: liveness, which is out of the prover's reach, as is `ENABLED`:
`LearningCompletes`, `ShutdownCompletes`, `EventsRated`, `ExitedArePruned` and
`RecordsRead`.

## 5. Not modelled

* The arithmetic of the statistics: means, deviations, skewness and MAD are
  floating point; how far out a count lies is an input, a bucket its number of
  samples.
* Of the enricher, users (a table read at the start and refreshed) and containers
  (a second read of `/proc`, of the same kind as the one modelled).
* Sensitive paths: the matcher and the inodes it resolves once, at the start.
* OTel export: I/O through an SDK, with a sampling table. Metrics over HTTP.
* Configuration, rules, the technique map, keys: tables, parsing and formatting.
* `vmlinux.h` (150,327 generated lines of kernel types) and `bpf_helpers.h`
  declare what the kernel offers and hold no logic of the agent, so no definition
  stands for any of their lines; of the C that is the agent's own, `exec.bpf.c`,
  every program is modelled. Build and deployment files.

## 6. Plan

Done: `PhaseManager` with `Lifecycle`, `ColdStart`, `Pipeline` with `Delivery`,
`ProcTable`, `Composite` and `Chain` as `Detectors`, `Novelty` with `Beacon` as
`Tracker`, `Tracepoints`, `PidCache` and `Aggregator` as `EventLoop`, `Scoring`,
and theorems that state all their safety properties.

What is left, in the order of importance:

1. The safety half of the liveness properties as theorems: a measure that each
   fair step decreases and no other step increases, for the shutdown of
   `Pipeline`, the end of learning, and the pruning of exited entries.
2. Composition of `Pipeline` with `ColdStart` and `PhaseManager`, so that the
   promises for an event run from the tracepoint to the stored baseline.
3. `Chain` with `ProcTable`, so that the supervisor verdict comes from the table.
4. The sampling table of the OTel client, and the containers in `PidCache`.
