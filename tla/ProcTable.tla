----------------------------- MODULE ProcTable -------------------------------
(***************************************************************************)
(* The process table and what it is built from: the kernel's tasks, the    *)
(* fork, exec and exit tracepoints with the pid_parents map, events that   *)
(* may be lost on their way, and the table with its pruning.               *)
(*                                                                         *)
(* Abstractions.  Tasks take their ids from one pool, as in the kernel: a  *)
(* process is named by the id of its first task, the leader, which it      *)
(* keeps when the leader exits before others.  A timestamp is the number   *)
(* of the event.  The way of an event is Pipeline's subject; it     *)
(* keeps the order, so an event is observed when it occurs, or lost.       *)
(* Names and binaries are left out.  The table sees each event twice, from *)
(* main and from the kill-chain detector; the second time changes nothing. *)
(***************************************************************************)
EXTENDS Naturals, FiniteSets

CONSTANTS
    Tasks,       \* ids of tasks: numbers above 0
    First,       \* the process that runs when the agent starts
    MapCap,      \* entries of pid_parents (16384)
    PruneAge,    \* ticks after which an exited entry is pruned (10 min)
    Lossy,       \* events may be lost
    MaxEvents,   \* bound: tracepoints fired
    MaxLives     \* bound: processes that follow each other under one pid

ASSUME ConstantsAssumption ==
    /\ Tasks \subseteq Nat \ {0} /\ First \in Tasks
    /\ MapCap \in Nat /\ PruneAge \in Nat /\ Lossy \in BOOLEAN
    /\ MaxEvents \in Nat /\ MaxLives \in Nat \ {0}

VARIABLES
    group,       \* kernel: the process each task belongs to, or None
    left,        \* kernel: leaders that have exited, with other tasks of theirs still there
    pidParents,  \* kernel: the map pid_parents, None where it has no entry
    clock,       \* the timestamp of the last event
    startNS,     \* Table.startNS, None where there is none
    byPID,       \* Table.byPID, NoEntry where there is none
    idle,        \* ticks since LastSeen, up to PruneAge + 1
    life,        \* history: how many processes have had the pid
    forks,       \* history: who forked the n-th process of a pid
    named,       \* history: identities an entry had, with the process they stood for
    owner,       \* history: the process an entry was last told of by a fork or an exec
    creator,     \* history: the process an entry was created for
    threadGone,  \* history: whether an entry's process lost a thread
    wrongly      \* history: entries pruned while their process ran, and whether it had
                 \* lost a thread

kernel == <<group, left, pidParents, life, forks>>
table == <<startNS, byPID, idle, named, owner, creator, threadGone>>
vars == <<kernel, clock, table, wrongly>>

None == 0
NoEntry == [start |-> 0, ppid |-> None, exited |-> FALSE]
Has(pid) == byPID[pid] # NoEntry

Init ==
    /\ group = [t \in Tasks |-> IF t = First THEN First ELSE None]
    /\ left = {} /\ pidParents = [t \in Tasks |-> None]
    /\ clock = 0
    /\ startNS = [t \in Tasks |-> 0] /\ byPID = [t \in Tasks |-> NoEntry]
    /\ idle = [t \in Tasks |-> 0]
    /\ life = [t \in Tasks |-> IF t = First THEN 1 ELSE 0]
    /\ forks = {} /\ named = {} /\ wrongly = {}
    /\ owner = [t \in Tasks |-> 0] /\ creator = [t \in Tasks |-> 0]
    /\ threadGone = [t \in Tasks |-> FALSE]

-----------------------------------------------------------------------------
(* The table: Table.Observe, by the type of the event. The time is clock + 1. *)

Seen(pid) == idle' = [idle EXCEPT ![pid] = 0]

\* History: what the entry says of the process that runs under the pid.
Note(pid, maker) ==
    /\ named' = named \cup {<<pid, byPID'[pid].start, life[pid]>>}
    /\ owner' = [owner EXCEPT ![pid] = life[pid]]
    /\ creator' = [creator EXCEPT ![pid] = maker]

ObserveFork(pid) ==
    /\ startNS' = [startNS EXCEPT ![pid] = clock + 1]
    /\ byPID' = [byPID EXCEPT ![pid] =
                    [start |-> clock + 1, ppid |-> pidParents'[pid], exited |-> FALSE]]
    /\ Seen(pid) /\ Note(pid, life[pid])
    /\ threadGone' = [threadGone EXCEPT ![pid] = FALSE]

ObserveExecStale(pid) ==                  \* mutant: the start time is not set again
    /\ byPID' = [byPID EXCEPT ![pid] =
                    IF Has(pid) THEN [@ EXCEPT !.exited = FALSE]
                    ELSE [start |-> clock + 1, ppid |-> pidParents[pid], exited |-> FALSE]]
    /\ Seen(pid) /\ Note(pid, IF Has(pid) THEN creator[pid] ELSE life[pid])
    /\ threadGone' = [threadGone EXCEPT ![pid] = FALSE]
    /\ UNCHANGED startNS

ObserveExec(pid) ==
    LET start == IF startNS[pid] = 0 THEN clock + 1 ELSE startNS[pid] IN
    /\ startNS' = [startNS EXCEPT ![pid] = start]
    /\ byPID' = [byPID EXCEPT ![pid] =
                    IF Has(pid) THEN [@ EXCEPT !.exited = FALSE]
                    ELSE [start |-> start, ppid |-> pidParents[pid], exited |-> FALSE]]
    /\ Seen(pid) /\ Note(pid, IF Has(pid) THEN creator[pid] ELSE life[pid])
    /\ threadGone' = [threadGone EXCEPT ![pid] = FALSE]

ObserveExit(pid, thread) ==
    /\ startNS' = [startNS EXCEPT ![pid] = 0]
    /\ byPID' = [byPID EXCEPT ![pid] = IF Has(pid) THEN [@ EXCEPT !.exited = TRUE] ELSE @]
    /\ Seen(pid)
    /\ threadGone' = [threadGone EXCEPT ![pid] = thread \/ @]
    /\ UNCHANGED <<named, owner, creator>>

ObserveOther(pid) ==
    /\ Seen(pid)
    /\ UNCHANGED <<startNS, byPID, named, owner, creator, threadGone>>

\* The tracepoint fires; its event reaches the table or is lost.
Fire(observation) ==
    /\ clock < MaxEvents
    /\ clock' = clock + 1
    /\ \/ observation
       \/ Lossy /\ UNCHANGED table
    /\ UNCHANGED wrongly

-----------------------------------------------------------------------------
(* The kernel. *)

UpdateParentsOnce(child, parent) ==       \* mutant: BPF_NOEXIST
    pidParents' = IF pidParents[child] = None
                  THEN [pidParents EXCEPT ![child] = parent] ELSE pidParents

\* bpf_map_update_elem fails for a new key when the map is full; nothing is ever deleted.
UpdateParents(child, parent) ==
    pidParents' =
        IF \/ pidParents[child] # None
           \/ Cardinality({t \in Tasks : pidParents[t] # None}) < MapCap
        THEN [pidParents EXCEPT ![child] = parent] ELSE pidParents

Alive(task) == group[task] # None /\ task \notin left

\* A task forks a process or clones a thread. The tracepoint runs in the task that forks:
\* the event bears the pid of its process, and the parent in the map is the task itself.
ForkProcess(task, child) ==
    /\ Alive(task) /\ group[child] = None /\ life[child] < MaxLives
    /\ group' = [group EXCEPT ![child] = child]
    /\ life' = [life EXCEPT ![child] = @ + 1]
    /\ forks' = forks \cup {<<task, child, life[child] + 1>>}
    /\ UpdateParents(child, task)
    /\ Fire(ObserveFork(group[task]))
    /\ UNCHANGED left

CloneThread(task, child) ==
    /\ Alive(task) /\ group[child] = None
    /\ group' = [group EXCEPT ![child] = group[task]]
    /\ UpdateParents(child, task)
    /\ Fire(ObserveFork(group[task]))
    /\ UNCHANGED <<left, life, forks>>

\* sys_enter_execve, whether it will succeed or not. If it does, the other threads exit; one
\* that is not the leader becomes the leader, here if there is none left.
Exec(task) ==
    /\ Alive(task)
    /\ Fire(ObserveExec(group[task]))
    /\ \/ UNCHANGED <<group, left>>
       \/ /\ group[task] \in left
          /\ group' = [group EXCEPT ![task] = None] /\ left' = left \ {group[task]}
    /\ UNCHANGED <<pidParents, life, forks>>

\* sched_process_exit fires for every task and bears the pid of its process, which goes on
\* without this one.
ExitThread(task) ==
    /\ Alive(task) /\ \E t \in Tasks \ {task} : group[t] = group[task] /\ Alive(t)
    /\ IF group[task] = task
       THEN left' = left \cup {task} /\ UNCHANGED group
       ELSE group' = [group EXCEPT ![task] = None] /\ UNCHANGED left
    /\ Fire(ObserveExit(group[task], TRUE))
    /\ UNCHANGED <<pidParents, life, forks>>

ExitProcess(pid) ==
    /\ group[pid] = pid
    /\ group' = [t \in Tasks |-> IF group[t] = pid THEN None ELSE group[t]]
    /\ left' = left \ {pid}
    /\ Fire(ObserveExit(pid, FALSE))
    /\ UNCHANGED <<pidParents, life, forks>>

\* Any other tracepoint.
Other(pid) ==
    /\ group[pid] = pid
    /\ Fire(ObserveOther(pid))
    /\ UNCHANGED kernel

-----------------------------------------------------------------------------
(* Time and the prune ticker of main. *)

Tick ==
    /\ \E t \in Tasks : Has(t) /\ idle[t] <= PruneAge
    /\ idle' = [t \in Tasks |-> IF idle[t] <= PruneAge THEN idle[t] + 1 ELSE idle[t]]
    /\ UNCHANGED <<kernel, clock, startNS, byPID, named, owner, creator, threadGone, wrongly>>

OldAnyhow(pid) == Has(pid) /\ idle[pid] > PruneAge          \* mutant: exited or not
OldNever(pid) == Has(pid) /\ byPID[pid].exited /\ idle[pid] > PruneAge + 1   \* mutant: never
Old(pid) == Has(pid) /\ byPID[pid].exited /\ idle[pid] > PruneAge

Runs(pid) == group[pid] = pid /\ owner[pid] = life[pid]

Prune ==
    LET gone == {t \in Tasks : Old(t)} IN
    /\ gone # {}
    /\ byPID' = [t \in Tasks |-> IF t \in gone THEN NoEntry ELSE byPID[t]]
    /\ wrongly' = wrongly \cup {<<t, threadGone[t]>> : t \in {u \in gone : Runs(u)}}
    /\ UNCHANGED <<kernel, clock, startNS, idle, named, owner, creator, threadGone>>

Next ==
    \/ \E t, c \in Tasks : ForkProcess(t, c) \/ CloneThread(t, c)
    \/ \E t \in Tasks : Exec(t) \/ ExitThread(t) \/ ExitProcess(t) \/ Other(t)
    \/ Tick \/ Prune

\* Time passes, and the prune ticker ticks.
Fairness == WF_vars(Tick) /\ WF_vars(Prune)

Spec == Init /\ [][Next]_vars
FairSpec == Spec /\ Fairness

-----------------------------------------------------------------------------
(* Properties. *)

TypeOK ==
    /\ group \in [Tasks -> Tasks \cup {None}] /\ pidParents \in [Tasks -> Tasks \cup {None}]
    /\ \A t \in left : group[t] = t
    /\ clock \in 0..MaxEvents
    /\ startNS \in [Tasks -> 0..clock] /\ idle \in [Tasks -> 0..PruneAge + 1]
    /\ byPID \in [Tasks -> [start : 0..clock, ppid : Tasks \cup {None}, exited : BOOLEAN]]
    /\ Cardinality({t \in Tasks : pidParents[t] # None}) <= MapCap

\* The two maps of the table agree: there is a start time exactly for the entries that
\* have not exited, so pruning one map leaves nothing behind in the other.
StartsMatchEntries ==
    \A pid \in Tasks : startNS[pid] # 0 <=> Has(pid) /\ ~byPID[pid].exited

\* The parent an entry names is the task that forked the process for which the entry was
\* created: rows of pid_parents outlive processes but are never read for a later one.
PpidIsForker ==
    \A pid \in Tasks :
        byPID[pid].ppid # None => <<byPID[pid].ppid, pid, creator[pid]>> \in forks

\* Pruned are only entries whose process has ended or has lost a thread.
PrunedHadExit == \A w \in wrongly : w[2]

\* An exited entry is pruned in the end, once its pid is no longer heard of.
ExitedArePruned == \A pid \in Tasks : byPID[pid].exited ~> ~byPID[pid].exited

\* proctable.go: "Identity is a reuse-safe process identity (pid + start time)."
IdentityIsSafe ==
    \A a, b \in named : a[1] = b[1] /\ a[2] = b[2] => a[3] = b[3]
=============================================================================
