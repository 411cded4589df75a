---------------------------- MODULE Tracepoints ------------------------------
(***************************************************************************)
(* The BPF programs: what each tracepoint looks at, the per-CPU limits on  *)
(* opens and writes, and the way a record takes into the ring buffer that  *)
(* all CPUs share.                                                         *)
(*                                                                         *)
(* Abstractions.  The kernel runs the programs of one CPU one after        *)
(* another; those of different CPUs interleave between reserving a record  *)
(* and submitting it.  A path is whether it can be read, its length,       *)
(* whether it is under /tmp, and where "/sudo" stands in it; an address is *)
(* what can be read of it.  The ring buffer is counted in records.  uid,   *)
(* cgroup, comm and the bytes of paths and addresses are left out.         *)
(***************************************************************************)
EXTENDS Naturals, Sequences, FiniteSets

CONSTANTS
    Cpus, Tasks,
    Started,     \* tasks that run when the programs are attached
    Attachments, \* the sets of tracepoints main may have attached
    Paths,       \* paths given to exec and open, Unreadable possibly among them
    Addrs,       \* addresses given to connect, bind and sendto
    Suspicious,  \* keys of suspicious_ports, written before the first attachment
    Limit,       \* max_per_sec of each limiter: 100 opens, 50 writes
    Window,      \* win_ns: one second
    RingCap,     \* records the ring buffer holds
    MapCap,      \* entries of pid_parents (16384)
    MaxFired,    \* bound: tracepoints fired, for each set of Attachments
    MaxTime      \* bound: time, likewise

Limiters == {"open", "write"}

\* A path that cannot be read. The empty path can: its NUL is what is read.
Unreadable == [readable |-> FALSE, length |-> 0, tmp |-> FALSE, sudo |-> {}]

ASSUME ConstantsAssumption ==
    /\ Limit \in [Limiters -> Nat \ {0}] /\ Window \in Nat
    /\ RingCap \in Nat \ {0} /\ MapCap \in Nat
    /\ MaxFired \in [Attachments -> Nat] /\ MaxTime \in [Attachments -> Nat]
    /\ Started \subseteq Tasks
    /\ \A path \in Paths :
        /\ path.length \in Nat /\ path.tmp \in BOOLEAN /\ path.sudo \subseteq Nat
        /\ path.readable \in BOOLEAN /\ (path.readable \/ path = Unreadable)

VARIABLES
    attached,    \* the tracepoints that have a program
    now,         \* bpf_ktime_get_ns(), never 0
    group,       \* kernel: the process each task belongs to, or None
    pidParents,  \* pid_parents, None where it has no entry
    rl,          \* openat_rate_limit and write_rate_limit: a window and a count per CPU
    cpu,         \* the program each CPU runs
    log,         \* the ring buffer: every record ever reserved, in that order
    taken,       \* how many of them user space has read
    drops,       \* ringbuf_drops, per CPU
    fired,       \* history: programs started
    silent,      \* history: programs that had nothing to report
    admitted,    \* history: when each limiter let an event pass
    suppressed   \* history: how many it held back

limits == <<rl, admitted, suppressed>>
ring == <<log, taken, drops>>
tasks == <<group, pidParents>>
vars == <<attached, now, tasks, limits, cpu, ring, fired, silent>>

None == "none"
Idle == [stage |-> "idle", holds |-> {}]

Init ==
    /\ attached \in Attachments /\ now = 1
    /\ group = [t \in Tasks |-> IF t \in Started THEN t ELSE None]
    /\ pidParents = [t \in Tasks |-> None]
    /\ rl = [l \in Limiters |-> [c \in Cpus |-> [window |-> 0, count |-> 0]]]
    /\ cpu = [c \in Cpus |-> Idle]
    /\ log = <<>> /\ taken = 0 /\ drops = [c \in Cpus |-> 0]
    /\ fired = 0 /\ silent = 0
    /\ admitted = [l \in Limiters |-> [c \in Cpus |-> <<>>]]
    /\ suppressed = [l \in Limiters |-> [c \in Cpus |-> 0]]

-----------------------------------------------------------------------------
(* What a program makes of its arguments. *)

MaxExecPath == 128

\* bpf_probe_read_user_str: the bytes read, the NUL included, at most size.
ReadUserStr(path, size) == IF path.length < size THEN path.length + 1 ELSE size

\* The exec program reads 127 bytes, the open programs 63: sizeof(buffer) - 1.
PathLen(ret) == IF ret - 1 > MaxExecPath THEN MaxExecPath ELSE ret - 1

EndsInSudoLate(path, ret) ==              \* mutant: the NUL is not allowed for
    ret >= 5 /\ (ret - 5) \in path.sudo

\* ends_with(filename, ret, ..., "/sudo", 5): the suffix starts at ret - 5 - 1.
EndsInSudo(path, ret) == ret >= 6 /\ (ret - 6) \in path.sudo

Event(type, version, port, flags, tail, arg) ==
    [type |-> type, version |-> version, port |-> port, flags |-> flags, path |-> tail,
     arg |-> arg]                         \* arg is history: what the program was given

ExecEvent(path) ==
    LET ret == ReadUserStr(path, 127) IN
    IF ~path.readable THEN Event("exec", 0, 0, {}, 0, path)
    ELSE Event("exec", 0, 0, IF EndsInSudo(path, ret) THEN {"sudo"} ELSE {}, PathLen(ret), path)

ClassifyPathFlags(path) == IF path.tmp THEN {"tmp"} ELSE {}

OpenEvent(path) ==
    Event("openat", 0, 0, ClassifyPathFlags(path), PathLen(ReadUserStr(path, 63)), path)

PlainEvent(type) == Event(type, 0, 0, {}, 0, None)

\* A sockaddr is read twice: its family, then as much as IPv4 or IPv6 calls for. `long`
\* says that addrlen allows for that much.
Parsed(addr) == addr.readable = "all" /\ addr.long /\ addr.family \in {4, 6}

IsSuspiciousPort(port) == port \in Suspicious

PortFlags(addr) == IF Parsed(addr) /\ IsSuspiciousPort(addr.port) THEN {"port"} ELSE {}

AddrEvent(type, addr, flags) ==
    IF Parsed(addr) THEN Event(type, addr.family, addr.port, flags, 0, addr)
                    ELSE Event(type, 0, 0, flags, 0, addr)

-----------------------------------------------------------------------------
(* Emitting a record. *)

LookupPpid(pid) == pidParents[pid]

\* mutant: the header takes the time at which the limiter's window began.
HeaderOfWindow(rec) ==
    [rec EXCEPT !.ppid = LookupPpid(rec.pid),
                !.at = IF rec.event.type = "write" THEN rl["write"][rec.cpu].window ELSE now]

\* fill_event_header, in the state in which it runs.
Header(rec) == [rec EXCEPT !.at = now, !.ppid = LookupPpid(rec.pid)]

\* An exec's or an open's record, with its path, is built on the stack, header and all; any
\* other is filled in once it is reserved.
OnStack(event) == event.type \in {"exec", "openat"}

Record(c, t, event) ==
    LET rec == [event |-> event, cpu |-> c, task |-> t, pid |-> group[t], nr |-> fired + 1,
                at |-> 0, ppid |-> None, ready |-> FALSE]
    IN  IF OnStack(event) THEN [Header(rec) EXCEPT !.ready = TRUE] ELSE rec

\* A program on its way to the ring buffer. It holds its task, which goes on only when the
\* program has ended, and so does the child of a fork.
EmitWith(c, t, event, child) ==
    cpu' = [cpu EXCEPT ![c] =
              [stage |-> "emit", holds |-> {t} \cup child, rec |-> Record(c, t, event)]]

Emit(c, t, event) == EmitWith(c, t, event, {})

\* bpf_ringbuf_reserve and bpf_ringbuf_output.
Room == Len(log) - taken < RingCap

\* emit_event up to the reservation; emit_path_event to its end.
Reserve(c) ==
    /\ cpu[c].stage = "emit" /\ Room
    /\ log' = Append(log, cpu[c].rec)
    /\ cpu' = [cpu EXCEPT ![c] =
                 IF cpu[c].rec.ready THEN Idle
                 ELSE [stage |-> "fill", holds |-> @.holds, slot |-> Len(log) + 1]]
    /\ UNCHANGED <<attached, now, tasks, limits, taken, drops, fired, silent>>

DropUncounted(c) ==                       \* mutant: the drop is not counted
    /\ cpu[c].stage = "emit" /\ ~Room
    /\ cpu' = [cpu EXCEPT ![c] = Idle]
    /\ UNCHANGED <<attached, now, tasks, limits, ring, fired, silent>>

\* No room: inc_ringbuf_drop.
Drop(c) ==
    /\ cpu[c].stage = "emit" /\ ~Room
    /\ drops' = [drops EXCEPT ![c] = @ + 1]
    /\ cpu' = [cpu EXCEPT ![c] = Idle]
    /\ UNCHANGED <<attached, now, tasks, limits, log, taken, fired, silent>>

SubmitNot(c) ==                           \* mutant: reserved and never submitted
    /\ cpu[c].stage = "fill"
    /\ cpu' = [cpu EXCEPT ![c] = Idle]
    /\ UNCHANGED <<attached, now, tasks, limits, ring, fired, silent>>

\* The rest of emit_event: the header, then bpf_ringbuf_submit.
Submit(c) ==
    /\ cpu[c].stage = "fill"
    /\ log' = [log EXCEPT ![cpu[c].slot] = [Header(@) EXCEPT !.ready = TRUE]]
    /\ cpu' = [cpu EXCEPT ![c] = Idle]
    /\ UNCHANGED <<attached, now, tasks, limits, taken, drops, fired, silent>>

-----------------------------------------------------------------------------
(* The tracepoints. *)

Held == UNION {cpu[c].holds : c \in Cpus}

\* Tracepoint `name` fires on CPU c, which runs task t.
Fire(name, c, t) ==
    /\ name \in attached /\ fired < MaxFired[attached]
    /\ cpu[c] = Idle /\ group[t] # None /\ t \notin Held
    /\ fired' = fired + 1
    /\ UNCHANGED <<attached, now, ring>>

Report(c, t, event) == Emit(c, t, event) /\ UNCHANGED silent

Quiet == silent' = silent + 1 /\ UNCHANGED cpu

Always(name, c, t, event) == Fire(name, c, t) /\ Report(c, t, event) /\ UNCHANGED <<tasks, limits>>

FreshKeepsCount(v) ==                     \* mutant: the count of the last window is kept
    IF v.window = 0 \/ now - v.window > Window THEN [window |-> now, count |-> v.count] ELSE v

Fresh(v) == IF v.window = 0 \/ now - v.window > Window THEN [window |-> now, count |-> 0] ELSE v

AtLimitLate(l, v) == v.count > Limit[l]   \* mutant: one more than the limit passes

AtLimit(l, v) == v.count >= Limit[l]

\* try_emit_file_open_sampled and try_emit_write_sampled. An event that passes is charged
\* to the window whether or not the ring buffer has room for it.
Sampled(l, c, t, event) ==
    LET v == Fresh(rl[l][c]) IN
    IF AtLimit(l, v)
    THEN /\ rl' = [rl EXCEPT ![l][c] = v]
         /\ suppressed' = [suppressed EXCEPT ![l][c] = @ + 1]
         /\ UNCHANGED <<admitted, cpu, silent>>
    ELSE /\ rl' = [rl EXCEPT ![l][c] = [v EXCEPT !.count = @ + 1]]
         /\ admitted' = [admitted EXCEPT ![l][c] = Append(@, now)]
         /\ Report(c, t, event)
         /\ UNCHANGED suppressed

TraceExec(c, t, path) == Always("exec", c, t, ExecEvent(path))

TraceConnect(c, t, addr) == Always("connect", c, t, AddrEvent("connect", addr, PortFlags(addr)))

TraceBind(c, t, addr) == Always("bind", c, t, AddrEvent("bind", addr, {}))

TracePtrace(c, t) == Always("ptrace", c, t, PlainEvent("ptrace"))

TraceSetuid(c, t) == Always("setuid", c, t, PlainEvent("setuid"))

TraceSetgid(c, t) == Always("setgid", c, t, PlainEvent("setgid"))

TraceCapset(c, t) == Always("capset", c, t, PlainEvent("capset"))

\* The record bears the id of the task that runs, not that of the victim.
TraceOomKill(c, t) == Always("oom_kill", c, t, PlainEvent("oom_kill"))

\* The three open programs: only a path that can be read, and unless it is under /tmp only
\* at the limited rate, which they share.
FileOpened(name, c, t, path) ==
    /\ Fire(name, c, t)
    /\ UNCHANGED tasks
    /\ IF ~path.readable THEN Quiet /\ UNCHANGED limits
       ELSE IF ClassifyPathFlags(path) # {} THEN Report(c, t, OpenEvent(path)) /\ UNCHANGED limits
       ELSE Sampled("open", c, t, OpenEvent(path))

TraceOpenat(c, t, path) == FileOpened("openat", c, t, path)

TraceOpen(c, t, path) == FileOpened("open", c, t, path)

TraceOpenat2(c, t, path) == FileOpened("openat2", c, t, path)

TraceWrite(c, t) ==
    Fire("write", c, t) /\ Sampled("write", c, t, PlainEvent("write")) /\ UNCHANGED tasks

\* Reported as a DNS query, if the address can be read and its port is 53.
TraceSendto(c, t, addr) ==
    /\ Fire("sendto", c, t)
    /\ UNCHANGED <<tasks, limits>>
    /\ IF Parsed(addr) /\ addr.port = 53 THEN Report(c, t, AddrEvent("dns", addr, {})) ELSE Quiet

\* bpf_map_update_elem(&pid_parents, &child, &parent): it fails when a new key finds no room.
SetParent(child, parent) ==
    pidParents' = IF pidParents[child] # None
                     \/ Cardinality({p \in Tasks : pidParents[p] # None}) < MapCap
                  THEN [pidParents EXCEPT ![child] = parent] ELSE pidParents

\* Task t clones itself into a process or a thread of its own process, with a free id.
TraceFork(c, t, child, thread) ==
    /\ Fire("fork", c, t)
    /\ child \notin Held /\ \A u \in Tasks : group[u] # child /\ (u = child => group[u] = None)
    /\ group' = [group EXCEPT ![child] = IF thread THEN group[t] ELSE child]
    /\ SetParent(child, t)
    /\ EmitWith(c, t, PlainEvent("fork"), {child})
    /\ UNCHANGED <<limits, silent>>

TraceExit(c, t) ==
    /\ Fire("exit", c, t)
    /\ Report(c, t, PlainEvent("exit"))
    /\ group' = [group EXCEPT ![t] = None]
    /\ UNCHANGED <<pidParents, limits>>

\* The consumer's reader takes records in order, and waits for one not yet submitted.
Read ==
    /\ taken < Len(log) /\ log[taken + 1].ready
    /\ taken' = taken + 1
    /\ UNCHANGED <<attached, now, tasks, limits, cpu, log, drops, fired, silent>>

Tick ==
    /\ now < MaxTime[attached] /\ now' = now + 1
    /\ UNCHANGED <<attached, tasks, limits, cpu, ring, fired, silent>>

Next ==
    \/ \E c \in Cpus : Reserve(c) \/ Drop(c) \/ Submit(c)
    \/ \E c \in Cpus, t \in Tasks :
        \/ TracePtrace(c, t) \/ TraceSetuid(c, t) \/ TraceSetgid(c, t) \/ TraceCapset(c, t)
        \/ TraceOomKill(c, t) \/ TraceWrite(c, t) \/ TraceExit(c, t)
        \/ \E path \in Paths :
            \/ TraceExec(c, t, path) \/ TraceOpenat(c, t, path)
            \/ TraceOpen(c, t, path) \/ TraceOpenat2(c, t, path)
        \/ \E addr \in Addrs :
            TraceConnect(c, t, addr) \/ TraceBind(c, t, addr) \/ TraceSendto(c, t, addr)
        \/ \E child \in Tasks, thread \in BOOLEAN : TraceFork(c, t, child, thread)
    \/ Read
    \/ Tick

\* A program runs to its end, with preemption off; the reader is a goroutine of its own.
Fairness ==
    /\ \A c \in Cpus : WF_vars(Reserve(c) \/ Drop(c) \/ Submit(c))
    /\ WF_vars(Read)

Spec == Init /\ [][Next]_vars /\ Fairness

-----------------------------------------------------------------------------
(* Properties. *)

Emitting == {c \in Cpus : cpu[c].stage = "emit"}
Filling == {c \in Cpus : cpu[c].stage = "fill"}

\* A CPU's window never counts more than the limit, the reader is behind the writers by no
\* more than the ring buffer holds, and a record that is not ready is one that the program
\* of its own CPU is filling.
TypeOK ==
    /\ attached \in Attachments /\ now \in Nat \ {0} /\ fired \in Nat /\ silent \in Nat
    /\ group \in [Tasks -> Tasks \cup {None}] /\ pidParents \in [Tasks -> Tasks \cup {None}]
    /\ \A l \in Limiters, c \in Cpus :
        /\ rl[l][c].window \in 0..now /\ rl[l][c].count \in 0..Limit[l]
        /\ suppressed[l][c] \in Nat
    /\ taken \in 0..Len(log) /\ Len(log) - taken <= RingCap
    /\ drops \in [Cpus -> Nat]
    /\ \A c \in Cpus : cpu[c].stage \in {"idle", "emit", "fill"}
    /\ \A i \in 1..Len(log) :
        ~log[i].ready <=> \E c \in Filling : cpu[c].slot = i /\ log[i].cpu = c

\* The rate the limiters keep. A window begins with an event that passes, so that of the
\* window before it no more than all but the first can fall within a window's length of the
\* new one's: twice the limit, less one, is what passes on a CPU within the length of a
\* window, and never more, whatever the burst. With a limit of one it is the limit.
SampledWithinRate ==
    \A l \in Limiters, c \in Cpus :
        LET most == 2 * Limit[l] - 1 IN
        \A i \in 1..Len(admitted[l][c]) - most :
            admitted[l][c][i + most] - admitted[l][c][i] > Window

\* An open or write is held back only when its CPU has let as many through as the limit
\* allows, all within the length of a window up to now: a burst that is over, or that of
\* another CPU or of the other limiter, costs nothing.
SuppressedAtLimit ==
    [][\A l \in Limiters, c \in Cpus : suppressed'[l][c] # suppressed[l][c] =>
          /\ Len(admitted[l][c]) >= Limit[l]
          /\ now - admitted[l][c][Len(admitted[l][c]) - Limit[l] + 1] <= Window]_vars

\* Although CPUs fill their records side by side, and a record's place is taken before its
\* time is read, the records of one CPU and those of one task lie in the order of their
\* tracepoints, with times that do not decrease. (Records of different CPUs need not.)
InOrder ==
    \A i, j \in 1..Len(log) :
        i < j /\ (log[i].cpu = log[j].cpu \/ log[i].task = log[j].task) =>
            /\ log[i].nr < log[j].nr
            /\ log[i].ready /\ log[j].ready => log[i].at <= log[j].at

\* A counter per CPU, unfolded: one member for each event counted.
Unfolded(count) == UNION {{c} \X (1..count[c]) : c \in Cpus}

\* Every tracepoint that fired is in the ring buffer, counted in ringbuf_drops, held back
\* by a limiter, had nothing to report or is on its way: nothing is lost uncounted, but
\* what a limiter holds back, which no counter of the agent shows.
Accounted ==
    fired = Len(log) + Cardinality(Unfolded(drops)) + silent + Cardinality(Emitting)
              + Cardinality(Unfolded(suppressed["open"]))
              + Cardinality(Unfolded(suppressed["write"]))

\* What the first 127 bytes of an exec's path and the two reads of a sockaddr leave of the
\* truth: sudo is flagged exactly when the path ends in /sudo, up to 126 bytes; a port is
\* reported only if it is the address's, and flagged exactly when it is reported and
\* suspicious; an open is flagged, and so spared the limiter, exactly when under /tmp.
FlagsExact ==
    \A i \in 1..Len(log) :
        LET e == log[i].event IN
        /\ e.type = "exec" /\ e.arg.length <= 126 =>
              ("sudo" \in e.flags <=> e.arg.length - 5 \in e.arg.sudo)
        /\ e.type = "openat" => ("tmp" \in e.flags <=> e.arg.tmp)
        /\ e.type \in {"connect", "bind", "dns"} =>
              /\ e.version # 0 => e.port = e.arg.port
              /\ "port" \in e.flags <=>
                    e.type = "connect" /\ e.version # 0 /\ e.arg.port \in Suspicious

\* Every record that is reserved is submitted and read, in spite of the records before it
\* that other CPUs are still filling: the reader never stops for good short of the last.
RecordsRead == []<>(taken = Len(log)) \/ []<><<taken' > taken>>_vars
=============================================================================
