------------------------------ MODULE Pipeline ------------------------------
(***************************************************************************)
(* The way of an event through one incarnation of the agent: the BPF       *)
(* programs that put it into the ring buffer, the goroutine that reads it, *)
(* the bounded channel, the goroutine that enriches and counts it, and the *)
(* main goroutine that rotates the window, rates it and, on a signal,      *)
(* takes the pipeline down in order.                                       *)
(*                                                                         *)
(* Abstractions.  An event is its number in the order of emission.         *)
(* Enrichment, rules, novelty, composite and chain detection happen within *)
(* Observe and change nothing that is kept here; a window is the set of    *)
(* events counted in it; what ProcessWindow makes of a window is the       *)
(* subject of PhaseManager and ColdStart.                                  *)
(***************************************************************************)
EXTENDS Naturals, Sequences, FiniteSets, Functions

CONSTANTS
    NEvents,    \* bound: events the tracepoints fire
    RingCap,    \* records the BPF ring buffer holds
    ChanCap,    \* bufSize of the consumer's channel (4096 in main)
    Malformed,  \* events whose record ParseEvent rejects
    Excluded    \* events of a type the dimensions.* switches turn off

ASSUME ConstantsAssumption ==
    /\ NEvents \in Nat
    /\ RingCap \in Nat \ {0} /\ ChanCap \in Nat \ {0}
    /\ Malformed \subseteq 1..NEvents /\ Excluded \subseteq 1..NEvents

VARIABLES
    emitted,    \* events emitted so far
    ring,       \* records in the BPF ring buffer
    ringDrops,  \* events counted in the ringbuf_drops map
    closed,     \* reader.Close() was called
    rpc, rev,   \* reader goroutine (Consumer.Run): what it does next, the event in hand
    chan,       \* Consumer.out
    chanClosed, \* close(c.out) has run
    chanDrops,  \* events counted by onDrop
    rejected,   \* events whose record was thrown away by the reader
    cpc, cev,   \* consumer goroutine: what it does next, the event in hand
    skipped,    \* events that shouldInclude refused
    current,    \* events counted in Aggregator.current
    mpc, win,   \* main goroutine: what it does next, the window in hand
    tickDue,    \* a value waits in windowTicker.C
    signalled,  \* ctx.Done() is closed
    rated,      \* events in the windows handed to ProcessWindow
    stored      \* events in the baseline last written to the store

kernel == <<emitted, ring, ringDrops>>
reader == <<rpc, rev, rejected>>
channel == <<chan, chanClosed, chanDrops>>
consumer == <<cpc, cev, skipped>>
main == <<mpc, win, tickDue, signalled, rated, stored>>
vars == <<kernel, closed, reader, channel, consumer, current, main>>

None == 0
Hand(ev) == IF ev = None THEN {} ELSE {ev}
Alive == mpc \notin {"exited", "killed"}

Init ==
    /\ emitted = 0 /\ ring = <<>> /\ ringDrops = {}
    /\ closed = FALSE
    /\ rpc = "read" /\ rev = None /\ rejected = {}
    /\ chan = <<>> /\ chanClosed = FALSE /\ chanDrops = {}
    /\ cpc = "recv" /\ cev = None /\ skipped = {}
    /\ current = {}
    /\ mpc = "select" /\ win = {} /\ tickDue = FALSE /\ signalled = FALSE
    /\ rated = {} /\ stored = {}

-----------------------------------------------------------------------------
(* Kernel: emit_event reserves a record, or counts a drop. *)

Emit ==
    /\ Alive /\ emitted < NEvents
    /\ emitted' = emitted + 1
    /\ \/ /\ Len(ring) < RingCap
          /\ ring' = Append(ring, emitted + 1)
          /\ UNCHANGED ringDrops
       \/ /\ Len(ring) = RingCap
          /\ ringDrops' = ringDrops \cup {emitted + 1}
          /\ UNCHANGED ring
    /\ UNCHANGED <<closed, reader, channel, consumer, current, main>>

-----------------------------------------------------------------------------
(* Reader goroutine: Consumer.Run. *)

\* Read returns a record; one that does not parse is logged and forgotten.
Read ==
    /\ Alive /\ rpc = "read" /\ ~closed /\ ring # <<>>
    /\ ring' = Tail(ring)
    /\ \/ /\ Head(ring) \in Malformed
          /\ rejected' = rejected \cup {Head(ring)}
          /\ UNCHANGED <<rpc, rev>>
       \/ /\ Head(ring) \notin Malformed
          /\ rpc' = "push" /\ rev' = Head(ring)
          /\ UNCHANGED rejected
    /\ UNCHANGED <<emitted, ringDrops, closed, channel, consumer, current, main>>

PushRetries ==                            \* mutant: the drop is counted, then tried again
    /\ Alive /\ rpc = "push"
    /\ \/ /\ Len(chan) < ChanCap
          /\ chan' = Append(chan, rev)
          /\ rpc' = "read" /\ rev' = None
          /\ UNCHANGED chanDrops
       \/ /\ Len(chan) = ChanCap
          /\ chanDrops' = chanDrops \cup {rev}
          /\ UNCHANGED <<chan, rpc, rev>>
    /\ UNCHANGED <<kernel, closed, rejected, chanClosed, consumer, current, main>>

\* The send with a default: a full channel drops the event.
Push ==
    /\ Alive /\ rpc = "push"
    /\ \/ /\ Len(chan) < ChanCap
          /\ chan' = Append(chan, rev)
          /\ UNCHANGED chanDrops
       \/ /\ Len(chan) = ChanCap
          /\ chanDrops' = chanDrops \cup {rev}
          /\ UNCHANGED chan
    /\ rpc' = "read" /\ rev' = None
    /\ UNCHANGED <<kernel, closed, rejected, chanClosed, consumer, current, main>>

\* Read returns ErrClosed: what is left in the ring buffer stays there, and the
\* deferred close ends the consumer's range loop.
ReadClosedLeaky ==                        \* mutant: the channel is left open
    /\ Alive /\ rpc = "read" /\ closed
    /\ rpc' = "done"
    /\ UNCHANGED <<kernel, closed, rev, rejected, channel, consumer, current, main>>

ReadClosed ==
    /\ Alive /\ rpc = "read" /\ closed
    /\ rpc' = "done" /\ chanClosed' = TRUE
    /\ UNCHANGED <<kernel, closed, rev, rejected, chan, chanDrops, consumer, current, main>>

-----------------------------------------------------------------------------
(* Consumer goroutine. *)

Receive ==
    /\ Alive /\ cpc = "recv" /\ chan # <<>>
    /\ cev' = Head(chan) /\ chan' = Tail(chan)
    /\ cpc' = "observe"
    /\ UNCHANGED <<kernel, closed, reader, chanClosed, chanDrops, skipped, current, main>>

\* Enrich, evaluate and observe: everything between the receive and agg.Add.
Observe ==
    /\ Alive /\ cpc = "observe"
    /\ cpc' = "add"
    /\ UNCHANGED <<kernel, closed, reader, channel, cev, skipped, current, main>>

Add ==
    /\ Alive /\ cpc = "add"
    /\ \/ /\ cev \in Excluded
          /\ skipped' = skipped \cup {cev}
          /\ UNCHANGED current
       \/ /\ cev \notin Excluded
          /\ current' = current \cup {cev}
          /\ UNCHANGED skipped
    /\ cev' = None /\ cpc' = "recv"
    /\ UNCHANGED <<kernel, closed, reader, channel, main>>

\* The range loop ends when the channel is closed and empty.
ConsumerDone ==
    /\ Alive /\ cpc = "recv" /\ chanClosed /\ chan = <<>>
    /\ cpc' = "done"
    /\ UNCHANGED <<kernel, closed, reader, channel, cev, skipped, current, main>>

-----------------------------------------------------------------------------
(* Main goroutine. *)

\* The ticker's channel holds one value: a tick that finds it full is lost.
Tick ==
    /\ mpc \in {"select", "process"} /\ ~tickDue
    /\ tickDue' = TRUE
    /\ UNCHANGED <<kernel, closed, reader, channel, consumer, current,
                   mpc, win, signalled, rated, stored>>

Signal ==
    /\ Alive /\ ~signalled
    /\ signalled' = TRUE
    /\ UNCHANGED <<kernel, closed, reader, channel, consumer, current,
                   mpc, win, tickDue, rated, stored>>

\* Aggregator.Rotate: the finished window and a fresh one change places.
RotateCopies == win' = current /\ UNCHANGED current     \* mutant: no fresh window
Rotate == win' = current /\ current' = {}

SelectTickIdle ==                         \* mutant: the tick is taken and nothing done
    /\ mpc = "select" /\ tickDue
    /\ tickDue' = FALSE
    /\ UNCHANGED <<kernel, closed, reader, channel, consumer, current,
                   mpc, win, signalled, rated, stored>>

SelectTick ==
    /\ mpc = "select" /\ tickDue
    /\ tickDue' = FALSE
    /\ Rotate
    /\ mpc' = "process"
    /\ UNCHANGED <<kernel, closed, reader, channel, consumer, signalled, rated, stored>>

\* ProcessWindow; it persists the baseline when a recalibration is due.
ProcessWindow(next) ==
    /\ rated' = rated \cup win /\ win' = {}
    /\ stored' \in {stored, rated'}
    /\ mpc' = next
    /\ UNCHANGED <<kernel, closed, reader, channel, consumer, current, tickDue, signalled>>

ProcessTicked == mpc = "process" /\ ProcessWindow("select")

\* ctx.Done: the tickers are stopped and the ring buffer reader is closed.
SelectDone ==
    /\ mpc = "select" /\ signalled
    /\ tickDue' = FALSE
    /\ closed' = TRUE
    /\ mpc' = "wait"
    /\ UNCHANGED <<kernel, reader, channel, consumer, current, win, signalled, rated, stored>>

\* consumerWg.Wait()
Wait ==
    /\ mpc = "wait" /\ rpc = "done" /\ cpc = "done"
    /\ mpc' = "rotate"
    /\ UNCHANGED <<kernel, closed, reader, channel, consumer, current,
                   win, tickDue, signalled, rated, stored>>

RotateLast ==
    /\ mpc = "rotate"
    /\ Rotate
    /\ mpc' = "last"
    /\ UNCHANGED <<kernel, closed, reader, channel, consumer, tickDue, signalled, rated, stored>>

ProcessLast == mpc = "last" /\ ProcessWindow("persist")

PersistNothing == mpc = "persist" /\ mpc' = "exited" /\    \* mutant: Persist is forgotten
    UNCHANGED <<kernel, closed, reader, channel, consumer, current,
                win, tickDue, signalled, rated, stored>>

\* phaseMgr.Persist(); the servers are shut down and main returns.
Persist ==
    /\ mpc = "persist"
    /\ stored' = rated
    /\ mpc' = "exited"
    /\ UNCHANGED <<kernel, closed, reader, channel, consumer, current,
                   win, tickDue, signalled, rated>>

\* The process is killed, or log.Fatalf ends it from the HTTP goroutine.
Kill ==
    /\ Alive
    /\ mpc' = "killed"
    /\ UNCHANGED <<kernel, closed, reader, channel, consumer, current,
                   win, tickDue, signalled, rated, stored>>

Reader == Read \/ Push \/ ReadClosed
Consumer == Receive \/ Observe \/ Add \/ ConsumerDone
Main == SelectTick \/ ProcessTicked \/ SelectDone \/ Wait \/ RotateLast \/ ProcessLast \/ Persist

Next == Emit \/ Reader \/ Consumer \/ Main \/ Tick \/ Signal \/ Kill

\* The scheduler runs every goroutine, the ticker ticks, and select picks among the
\* cases that are ready at random, so none is passed over for ever.
Fairness ==
    /\ WF_vars(Reader) /\ WF_vars(Consumer) /\ WF_vars(Main)
    /\ WF_vars(Tick)
    /\ SF_vars(SelectTick) /\ SF_vars(SelectDone)

Spec == Init /\ [][Next]_vars
FairSpec == Spec /\ Fairness

-----------------------------------------------------------------------------
(* Properties. *)

Emitted == 1..emitted

TypeOK ==
    /\ emitted \in 0..NEvents
    /\ ring \in Seq(Emitted) /\ Len(ring) <= RingCap
    /\ ringDrops \subseteq Emitted /\ rejected \subseteq Emitted
    /\ closed \in BOOLEAN /\ chanClosed \in BOOLEAN
    /\ rpc \in {"read", "push", "done"} /\ rev \in 0..emitted /\ (rpc = "push" <=> rev # None)
    /\ chan \in Seq(Emitted) /\ Len(chan) <= ChanCap
    /\ chanDrops \subseteq Emitted
    /\ cpc \in {"recv", "observe", "add", "done"} /\ cev \in 0..emitted
    /\ cpc \in {"observe", "add"} <=> cev # None
    /\ skipped \subseteq Emitted /\ current \subseteq Emitted /\ win \subseteq Emitted
    /\ mpc \in {"select", "process", "wait", "rotate", "last", "persist", "exited", "killed"}
    /\ tickDue \in BOOLEAN /\ signalled \in BOOLEAN
    /\ rated \subseteq Emitted /\ stored \subseteq rated

\* Where an event can be, upstream first.
Places == <<Range(ring), Hand(rev), Range(chan), Hand(cev), current, win, rated>>
Gone == <<ringDrops, rejected, chanDrops, skipped>>

\* At any time an event that was emitted is in exactly one place: nothing is counted
\* twice, across the rotation in particular, and nothing disappears without a trace.
Conservation ==
    LET where == Places \o Gone IN
    /\ UNION Range(where) = Emitted
    /\ \A i, j \in DOMAIN where : i # j => where[i] \cap where[j] = {}

\* No event overtakes another: whatever is further downstream was emitted earlier. The
\* detectors that pair an exec with its exit, or the steps of a chain, rely on it.
InOrder ==
    /\ \A i, j \in DOMAIN Places : i < j => \A e \in Places[i], f \in Places[j] : f < e
    /\ \A i, j \in DOMAIN ring : i < j => ring[i] < ring[j]
    /\ \A i, j \in DOMAIN chan : i < j => chan[i] < chan[j]

\* The last window is the last one: from its rotation on no goroutine is left that could
\* count an event into the window behind it, and no event is on its way there.
NothingBehind ==
    mpc \in {"last", "persist", "exited"} =>
        /\ rpc = "done" /\ cpc = "done"
        /\ chan = <<>> /\ current = {}

\* A graceful shutdown stores every event the reader took from the ring buffer, except
\* those a counter or the log accounts for.
GracefulDelivery ==
    mpc = "exited" => Emitted = stored \cup Range(ring) \cup UNION Range(Gone)

D == INSTANCE Delivery WITH
        seen <- emitted,
        lost <- ringDrops \cup rejected \cup chanDrops \cup skipped

\* The pipeline is a Delivery.
ImplementsDelivery == D!Spec

\* A signal ends the process: no goroutine waits for another for ever, however full the
\* channel is and however many events keep coming.
ShutdownCompletes == signalled ~> ~Alive

\* An event that entered the channel is rated in some window, unless its type is
\* switched off or the process is killed.
EventsRated ==
    \A e \in 1..NEvents : e \in Range(chan) ~> e \in rated \cup skipped \/ mpc = "killed"
=============================================================================
