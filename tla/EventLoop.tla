------------------------------ MODULE EventLoop ------------------------------
(***************************************************************************)
(* An event's way through the consumer goroutine: its binary is looked up  *)
(* while processes go on to run, fork, exec and exit, then it is counted;  *)
(* the main goroutine rotates the window at any time.                      *)
(*                                                                         *)
(* Abstractions.  Lost events, in ring buffer or channel, never enter the  *)
(* queue.  Users and containers are looked up like binaries, and left out; *)
(* the detectors between Enrich and Add neither read nor change this state.*)
(***************************************************************************)
EXTENDS PidCache, Aggregator

CONSTANTS
    Pids,       \* of user processes: 0 is the idle task, and says that a parent is not known
    Addresses,
    QueueMax,   \* events that wait for the consumer at most
    Workloads,  \* sets of kinds of events that may come: types with their flags
    Started,    \* the processes that run at first, in each workload
    Options,    \* settings of the aggregator, to be checked with each workload
    MaxEvents,  \* bound: events of each workload
    MaxTime     \* bound: time in each workload

ASSUME ConstantsAssumption ==
    /\ CacheConstantsOK /\ ForkBomb \in Nat \ {0} /\ ShortLived \in Nat
    /\ MaxEvents \in [Workloads -> Nat] /\ MaxTime \in [Workloads -> Nat \ {0}]
    /\ QueueMax \in Nat \ {0}
    /\ Started \in [Workloads -> SUBSET Pids] /\ Binaries # {} /\ 0 \notin Pids
    /\ \A kinds \in Workloads : \A kind \in kinds : kind[1] \in EventTypes

VARIABLES
    workload,
    exe,      \* kernel: the binary each pid runs, or "none"
    parent,   \* pid_parents: who forked a pid, 0 where it has no entry
    queue,    \* events on their way to the consumer
    emitted,  \* how many there were
    lastRan,  \* history: when each pid last stopped running each binary, 0 for never
    slow,     \* history: how long lookups had to wait between reading and inserting
    seen,     \* history: the events counted, each with its binary
    rotated   \* history: how many of them were counted before the current window

kernel == <<exe, parent, lastRan>>
history == <<slow, seen, rotated>>
vars == <<now, pidOrder, lookup, options, tables, workload, kernel, queue, emitted, history>>

Init ==
    /\ now = 1 /\ CacheInit
    /\ workload \in Workloads
    /\ options \in Options[workload] /\ AggregatorInit
    /\ exe \in [Pids -> Binaries \cup {"none"}]
    /\ \A pid \in Pids : exe[pid] = IF pid \in Started[workload] THEN CHOOSE b \in Binaries : TRUE ELSE "none"
    /\ parent = [pid \in Pids |-> 0]
    /\ lastRan = [pid \in Pids |-> [b \in Binaries \cup {"none"} |-> 0]]
    /\ queue = <<>> /\ emitted = 0
    /\ slow = 0 /\ seen = <<>> /\ rotated = 0

-----------------------------------------------------------------------------
(* The kernel and its events. *)

Runs(pid, binary) ==
    /\ exe' = [exe EXCEPT ![pid] = binary]
    /\ lastRan' = [lastRan EXCEPT ![pid][exe[pid]] = now]

\* The event of a tracepoint reaches the queue or is lost.
Emit(type, pid, flags, file, ip) ==
    /\ <<type, flags>> \in workload /\ emitted < MaxEvents[workload] /\ exe[pid] # "none"
    /\ emitted' = emitted + 1
    /\ \/ /\ Len(queue) < QueueMax
          /\ queue' = Append(queue, [type |-> type, pid |-> pid, ppid |-> parent[pid], at |-> now,
                                     comm |-> exe[pid], flags |-> flags, file |-> file, ip |-> ip,
                                     binary |-> "none"])
       \/ queue' = queue
    /\ UNCHANGED <<now, pidOrder, lookup, options, tables, workload, history>>

\* The event is sent on entry to execve, with the file if it could be read. It may then fail.
Exec(pid, binary, readable, flags) ==
    /\ Emit("exec", pid, flags, IF readable THEN binary ELSE "none", "none")
    /\ Runs(pid, binary) \/ UNCHANGED <<exe, lastRan>>
    /\ UNCHANGED parent

Fork(pid, child) ==
    /\ Emit("fork", pid, {}, "none", "none")
    /\ exe[child] = "none"
    /\ Runs(child, exe[pid])
    /\ parent' = [parent EXCEPT ![child] = pid]

\* The process ends, or one of its threads, which looks the same to the consumer.
Exit(pid) ==
    /\ Emit("exit", pid, {}, "none", "none")
    /\ Runs(pid, "none") \/ UNCHANGED <<exe, lastRan>>
    /\ UNCHANGED parent

Other(type, pid, flags, ip) == Emit(type, pid, flags, "none", ip) /\ UNCHANGED kernel

Tick ==
    /\ now < MaxTime[workload] /\ now' = now + 1
    /\ slow' = IF lookup.stage = "read" THEN slow + 1 ELSE slow
    /\ UNCHANGED <<pidOrder, lookup, options, tables, workload, kernel, queue, emitted, seen,
                   rotated>>

-----------------------------------------------------------------------------
(* The consumer goroutine and the rotation. *)

\* Enrich: an exec that names its file needs no lookup, and leaves the cache as it is.
Enrich ==
    /\ queue # <<>> /\ lookup = NoLookup
    /\ LET ev == Head(queue) IN
       IF ev.file # "none"
       THEN /\ lookup' = [stage |-> "named", pid |-> ev.pid, binary |-> ev.file]
            /\ UNCHANGED pidOrder
       ELSE AskCache(ev.pid)
    /\ UNCHANGED <<now, options, tables, workload, kernel, queue, emitted, history>>

Resolve ==
    /\ ReadLink(exe[lookup.pid])
    /\ UNCHANGED <<now, options, tables, workload, kernel, queue, emitted, history>>

Remember ==
    /\ Insert
    /\ UNCHANGED <<now, options, tables, workload, kernel, queue, emitted, history>>

Count ==
    /\ lookup.stage \in {"named", "answered"}
    /\ LET ev == [Head(queue) EXCEPT !.binary = lookup.binary] IN
       Add(ev) /\ seen' = Append(seen, ev)
    /\ queue' = Tail(queue) /\ lookup' = NoLookup
    /\ UNCHANGED <<now, pidOrder, options, workload, kernel, emitted, slow, rotated>>

RotateWindow ==
    /\ rotated < Len(seen)              \* bound: empty windows are not told apart
    /\ Rotate /\ rotated' = Len(seen)
    /\ UNCHANGED <<now, pidOrder, lookup, options, workload, kernel, queue, emitted, slow, seen>>

Next ==
    \/ \E kind \in workload, pid \in Pids :
        \/ /\ kind[1] = "exec"
           /\ \E binary \in Binaries, readable \in BOOLEAN : Exec(pid, binary, readable, kind[2])
        \/ kind[1] = "fork" /\ \E child \in Pids : Fork(pid, child)
        \/ kind[1] = "exit" /\ Exit(pid)
        \/ /\ kind[1] \in {"connect", "bind", "dns"}
           /\ \E ip \in Addresses : Other(kind[1], pid, kind[2], ip)
        \/ /\ kind[1] \notin {"exec", "fork", "exit", "connect", "bind", "dns"}
           /\ Other(kind[1], pid, kind[2], "none")
    \/ Tick \/ Enrich \/ Resolve \/ Remember \/ Count \/ RotateWindow

Spec == Init /\ [][Next]_vars

-----------------------------------------------------------------------------
(* Properties. *)

\* One entry of the cache for each pid, within its size; the consumer has the head of the
\* queue in hand; every dimension counted has its host-wide twin.
TypeOK ==
    /\ now \in 1..MaxTime[workload] /\ Len(queue) <= QueueMax /\ CacheOK
    /\ lookup.stage \in {"none", "named", "asked", "read", "answered"}
    /\ lookup # NoLookup => queue # <<>> /\ Head(queue).pid = lookup.pid
    /\ IsABag(counts) /\ IsABag(ppidForks)
    /\ \A k \in DOMAIN counts : k.metric # "fork_bomb_score" =>
          Key(k.metric, Host) \in DOMAIN counts /\ counts[k] <= counts[Key(k.metric, Host)]
    /\ rotated \in 0..Len(seen)

\* The binary that the cache gives for a pid is one that the pid did run, or "none" if it
\* ran nothing, less than the time to live before: what a reused pid or an exec makes stale
\* is given for that long and no longer, however often the entry is used.
AnswerIsRecent ==
    lookup.stage = "answered" =>
        \/ exe[lookup.pid] = lookup.binary
        \/ lastRan[lookup.pid][lookup.binary] + TTL + slow > lookup.at

InWindow == rotated + 1 .. Len(seen)
Latest(S) == CHOOSE i \in S : \A j \in S : j <= i

Counted(i) == ShouldInclude(seen[i])

\* The last exec or exit of the process of event i before it, if it is an exec.
StartOf(i) ==
    LET own == {j \in 1..i - 1 : /\ seen[j].pid = seen[i].pid /\ Counted(j)
                                 /\ seen[j].type \in {"exec", "exit"}}
    IN  {j \in own : j = Latest(own) /\ seen[j].type = "exec"}

ShortLivedAt(i) ==
    /\ seen[i].type = "exit"
    /\ \E j \in StartOf(i) : seen[i].at - seen[j].at \in 1..ShortLived - 1

\* How many forks of the children of p there were in the window up to event i.
ForksUpTo(i, p) ==
    Cardinality({j \in InWindow :
                    j <= i /\ seen[j].type = "fork" /\ Counted(j) /\ seen[j].ppid = p})

\* The forks of the window that made a score.
Bombs(parents) ==
    {i \in InWindow : /\ seen[i].type = "fork" /\ Counted(i) /\ seen[i].ppid \in parents
                      /\ ForksUpTo(i, seen[i].ppid) >= ForkBomb}

\* How often a dimension must have been counted, told from the events of the window alone
\* and, for short lives, the execs of earlier ones.
Recount(k) ==
    LET own == {i \in InWindow : /\ Counted(i)
                                 /\ k \in {DimensionKey(k.metric, seen[i]), Key(k.metric, Host)}}
        bombs == Bombs(IF options.perProcess THEN {p \in Pids : k.label = <<"ppid", p>>}
                       ELSE {p \in Pids : k.label = Host})
    IN  CASE k.metric = "short_lived_process" -> Cardinality({i \in own : ShortLivedAt(i)})
          [] k.metric = "unique_dest_ips" ->
                Cardinality({seen[i].ip : i \in {j \in own : seen[j].ip # "none"
                                                   /\ EventTypeToMetric(seen[j]) = "connect"}})
          [] k.metric = "fork_bomb_score" ->
                IF bombs = {} THEN 0 ELSE ForksUpTo(Latest(bombs), seen[Latest(bombs)].ppid)
          [] OTHER -> Cardinality({i \in own : EventTypeToMetric(seen[i]) = k.metric})

Metrics == {EventTypeToMetric(seen[i]) : i \in InWindow}
             \cup {"short_lived_process", "unique_dest_ips", "fork_bomb_score"}

Labels == {Host} \cup {<<"ppid", p>> : p \in Pids}
            \cup {DimensionKey("exec", seen[i]).label : i \in InWindow}

\* The counts of the window, kept by one event after another in four tables, are what a
\* recount of its events gives: no more, no less, and nothing of an earlier window but the
\* times of execs.
WindowIsRecount ==
    /\ \A metric \in Metrics, label \in Labels :
          Copies(counts, Key(metric, label)) = Recount(Key(metric, label))
    /\ DOMAIN counts \subseteq {Key(metric, label) : metric \in Metrics, label \in Labels}

\* Times of execs are kept for the pids whose exec was the last of their execs and exits to be
\* counted: a lost exit leaves one entry for its pid until the pid is used again, but without
\* the group of scheduling metrics no exit is counted, and no entry ever goes.
StartsAreOpen ==
    DOMAIN pidExecNs =
        {pid \in Pids : \E i \in 1..Len(seen) :
            /\ seen[i].type = "exec" /\ seen[i].pid = pid
            /\ \A j \in i + 1 .. Len(seen) :
                  seen[j].pid = pid /\ seen[j].type = "exit" => ~options.scheduling}
=============================================================================
