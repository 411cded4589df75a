---------------------------- MODULE EventStream ------------------------------
(***************************************************************************)
(* The enriched events as the consumer goroutine hands them to the         *)
(* detectors one by one, and the time that passes between them.            *)
(*                                                                         *)
(* Abstractions.  Time is a number; events of one instant are in the order *)
(* of their arrival.  A pid stands for the processes that have it one      *)
(* after another: no detector is told of an exit.  "other" is any type     *)
(* with a technique of its own that no composite rule can name.            *)
(***************************************************************************)
EXTENDS Naturals, Sequences, SequencesExt, Functions, FiniteSets

CONSTANTS
    Pids,
    EventTypes,  \* among exec, connect, setuid, setgid, other
    MaxEvents,   \* bound: events observed
    MaxTime      \* bound: time

ASSUME StreamAssumption ==
    /\ EventTypes \subseteq {"exec", "connect", "setuid", "setgid", "other"}
    /\ MaxEvents \in Nat /\ MaxTime \in Nat

VARIABLES
    now,         \* time.Now()
    hist,        \* history: all events of every pid
    newest       \* the pid of the last event, or NoPid if time has passed since

stream == <<now, hist, newest>>

NoPid == "none"

\* An event, as the detectors record it; nr is history.
Step(pid, type) == [at |-> now, type |-> type, nr |-> Len(hist[pid]) + 1]

Steps == [at : 0..MaxTime, type : EventTypes, nr : Nat \ {0}]

\* A loop that keeps of a list the steps that are no older than limit.
Since(seq, limit) ==
    LET kept[i \in 0..Len(seq)] ==
            IF i = 0 THEN <<>>
            ELSE IF now - seq[i].at <= limit THEN Append(kept[i - 1], seq[i]) ELSE kept[i - 1]
    IN kept[Len(seq)]

StreamInit ==
    /\ now = 0 /\ newest = NoPid
    /\ hist = [p \in Pids |-> <<>>]

EventCount == FoldFunction(LAMBDA h, n : Len(h) + n, 0, hist)

Arrive(pid, type) ==
    /\ EventCount < MaxEvents
    /\ hist' = [hist EXCEPT ![pid] = Append(@, Step(pid, type))]
    /\ newest' = pid
    /\ UNCHANGED now

TimePasses ==
    /\ now < MaxTime
    /\ now' = now + 1 /\ newest' = NoPid
    /\ UNCHANGED hist

StreamOK ==
    /\ now \in 0..MaxTime /\ newest \in Pids \cup {NoPid}
    /\ \A p \in Pids : hist[p] \in Seq(Steps)
=============================================================================
