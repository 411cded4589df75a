------------------------------- MODULE Chain ---------------------------------
(***************************************************************************)
(* The kill-chain detector: per pid the latest steps, a chain when a       *)
(* connect follows an exec, one span per chain as long as it is remembered.*)
(*                                                                         *)
(* Abstractions.  The unit of time is a second, the grain of the chain's   *)
(* key.  Fork, exit and what maps to no technique return early and are not *)
(* in the stream.  Whether the process table takes the pid for a           *)
(* supervisor is an input.                                                 *)
(***************************************************************************)
EXTENDS EventStream

CONSTANTS
    Window,      \* chainWindow (5 min)
    Cap          \* steps kept per pid (16)

ASSUME ChainAssumption == Window \in Nat /\ Cap \in Nat \ {0}

VARIABLES
    chainSteps,  \* ChainDetector.steps
    emitted,     \* ChainDetector.emitted: the key of a chain and when its span was emitted
    root,        \* the table's verdict on the pid of the last event
    spans        \* history: the spans emitted

ChainInit ==
    /\ chainSteps = [p \in Pids |-> <<>>]
    /\ emitted = {} /\ root = FALSE /\ spans = {}

-----------------------------------------------------------------------------

LatestOfAll(seq) == seq                                     \* mutant: no limit
LatestTooFew(seq) ==                      \* mutant: off by one
    IF Len(seq) >= Cap THEN SubSeq(seq, Len(seq) - (Cap - 2), Len(seq)) ELSE seq

\* The last Cap steps of a sequence that may be one longer.
Latest(seq) == IF Len(seq) > Cap THEN SubSeq(seq, Len(seq) - (Cap - 1), Len(seq)) ELSE seq

PruneStepsNot(all) == all                                   \* mutant: nothing expires

\* pruneLocked, for the steps and for the chains.
PruneSteps(all) == [p \in Pids |-> Since(all[p], Window)]

PruneEmittedSoon(chains) == {c \in chains : now = c.at}     \* mutant: forgotten at once
PruneEmitted(chains) == {c \in chains : now - c.at <= Window}

Indices(seq, type) == {i \in DOMAIN seq : seq[i].type = type}

IsChainUnordered(seq) ==                      \* mutant: any exec with any connect
    Indices(seq, "exec") # {} /\ Indices(seq, "connect") # {}

\* detectLocked: there is an exec, and the last connect comes after the first exec.
IsChain(seq) ==
    /\ Indices(seq, "exec") # {} /\ Indices(seq, "connect") # {}
    /\ Min(Indices(seq, "exec")) < Max(Indices(seq, "connect"))

Chain(pid, seq) ==
    [pid |-> pid, exec |-> seq[Min(Indices(seq, "exec"))],
     connect |-> seq[Max(Indices(seq, "connect"))], at |-> now]

\* The chain's key: the pid and the seconds of the two steps.
Key(chain) == <<chain.pid, chain.exec.at, chain.connect.at>>

\* ChainDetector.Observe. What detectLocked looks at is the pid's sequence as it was
\* before the pruning.
ObserveChain(pid, type, supervisor) ==
    LET seq == Latest(Append(chainSteps[pid], Step(pid, type)))
        remembered == PruneEmitted(emitted)
        new == IF ~supervisor /\ IsChain(seq)
                  /\ \A c \in remembered : c.key # Key(Chain(pid, seq))
               THEN {Chain(pid, seq)} ELSE {}
    IN
    /\ chainSteps' = PruneSteps([chainSteps EXCEPT ![pid] = seq])
    /\ emitted' = remembered \cup {[key |-> Key(c), at |-> now] : c \in new}
    /\ spans' = spans \cup new
    /\ root' = supervisor

ChainPass == root' = FALSE /\ UNCHANGED <<chainSteps, emitted, spans>>

-----------------------------------------------------------------------------
(* Properties. *)

ChainOK ==
    /\ \A p \in Pids : chainSteps[p] \in Seq(Steps) /\ Len(chainSteps[p]) <= Cap
    /\ \A c \in emitted : c.at \in 0..now
    /\ root \in BOOLEAN

\* Memory does not grow with the pids that were ever seen: after any event nothing older
\* than the window is kept, neither steps, those of silent pids included, nor chains.
MemoryBounded ==
    newest # NoPid =>
        /\ \A p \in Pids : \A i \in DOMAIN chainSteps[p] : now - chainSteps[p][i].at <= Window
        /\ \A c \in emitted : now - c.at <= Window

\* A span tells what happened: an exec and a later connect of its pid.
SpanIsChain ==
    \A s \in spans :
        /\ s.exec.type = "exec" /\ s.connect.type = "connect"
        /\ hist[s.pid][s.exec.nr] = s.exec /\ hist[s.pid][s.connect.nr] = s.connect
        /\ s.exec.nr < s.connect.nr

\* The newest event is a connect of a pid that exec'ed at most Window ago, and Cap has
\* room for the exec, the connect and the steps between them.
ConnectAfterExec ==
    LET h == hist[newest] IN
    /\ h # <<>> /\ Last(h).type = "connect"
    /\ \E i \in DOMAIN h :
        h[i].type = "exec" /\ now - h[i].at <= Window /\ i < Len(h) /\ Len(h) - i < Cap

Reported ==
    \E s \in spans : s.pid = newest /\ s.connect.at = now /\ now - s.at <= Window

\* A connect after an exec is reported, one span for all that fall into the same second,
\* unless the table calls the pid a supervisor or Cap steps have come after the exec.
CloseChainsReported == newest # NoPid /\ ~root /\ ConnectAfterExec => Reported

\* A chain is not reported twice within the window.
SpansApart ==
    \A s, t \in spans : s # t /\ Key(s) = Key(t) =>
        s.at - t.at > Window \/ t.at - s.at > Window

\* A chain whose exec is older than the window is reported only out of silence: between
\* the end of the exec's window and the span no event of any pid has been looked at.
StaleSpansFollowSilence ==
    \A s \in spans : \A p \in Pids : \A i \in DOMAIN hist[p] :
        LET t == hist[p][i].at IN ~(s.exec.at + Window < t /\ t < s.at)
=============================================================================
