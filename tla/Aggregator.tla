----------------------------- MODULE Aggregator ------------------------------
(* The aggregator: the counts of the current window by dimension, and the three tables from *)
(* which it derives short-lived processes, fork bombs and unique destinations. User, process *)
(* and container of a dimension are one label.                                              *)
EXTENDS Naturals, Sequences, FiniteSets, Bags

CONSTANTS
    ForkBomb,    \* 50 forks in a window
    ShortLived   \* shortLivedThresholdNs

VARIABLES
    options,       \* per_process and the groups of metrics switched on
    counts,        \* current.Counts, a bag of dimension keys
    uniqueDestIP,  \* dimension keys with the addresses that each has connected to
    ppidForks,     \* a bag of parents, one copy for each fork
    pidExecNs      \* the times of the last exec of each pid

tables == <<counts, uniqueDestIP, ppidForks, pidExecNs>>

Host == <<"host">>

EventTypes == {"exec", "connect", "ptrace", "openat", "setuid", "setgid", "fork", "exit", "bind",
               "dns", "capset", "write", "oom_kill"}

AggregatorInit ==
    counts = EmptyBag /\ uniqueDestIP = {} /\ ppidForks = EmptyBag /\ pidExecNs = <<>>

ShouldInclude(ev) ==
    /\ ev.type \in {"connect", "bind", "dns"} => options.network
    /\ ev.type \in {"openat", "write"} => options.filesystem
    /\ ev.type \in {"fork", "exit", "oom_kill"} => options.scheduling

EventTypeToMetric(ev) ==
    CASE ev.type = "exec" /\ "sudo" \in ev.flags -> "sudo"
      [] ev.type = "connect" /\ "port" \in ev.flags -> "suspicious_connect"
      [] ev.type = "openat" ->
            IF "sensitive" \in ev.flags THEN "sensitive_file"
            ELSE IF "tmp" \in ev.flags THEN "tmp_file_creation_rate" ELSE "file_open"
      [] ev.type = "write" -> "file_write_rate"
      [] OTHER -> ev.type

\* A key that is not in a Go map counts as 0.
Copies(bag, x) == IF x \in DOMAIN bag THEN bag[x] ELSE 0

Key(metric, label) == [metric |-> metric, label |-> label]

\* ProcessLabel, if there is one for each process: the binary, or comm when it is not known.
DimensionKey(metric, ev) ==
    Key(metric, IF ~options.perProcess THEN Host
                ELSE IF ev.binary # "none" THEN <<"bin", ev.binary>> ELSE <<"comm", ev.comm>>)

\* increment: the event's own dimension, and the host's unless they are the same.
Increment(bag, metric, ev) ==
    bag (+) SetToBag({DimensionKey(metric, ev), Key(metric, Host)})

ExtendWith(f, x, value) == [y \in DOMAIN f \cup {x} |-> IF y = x THEN value ELSE f[y]]

\* Forks are counted by the parent of the process that forks, if it is known.
Forks(ev) ==
    IF ev.type = "fork" /\ ev.ppid # 0 THEN ppidForks (+) SetToBag({ev.ppid}) ELSE ppidForks

ForkBombScore(bag, ev) ==
    LET n == Copies(Forks(ev), ev.ppid) IN
    IF ev.type = "fork" /\ ev.ppid # 0 /\ n >= ForkBomb
    THEN ExtendWith(bag, Key("fork_bomb_score",
                             IF options.perProcess THEN <<"ppid", ev.ppid>> ELSE Host), n)
    ELSE bag

ShortLivedProcess(bag, ev) ==
    IF /\ ev.type = "exit" /\ ev.pid \in DOMAIN pidExecNs
       /\ ev.at > pidExecNs[ev.pid] /\ ev.at - pidExecNs[ev.pid] < ShortLived
    THEN Increment(bag, "short_lived_process", ev) ELSE bag

StartsKept(ev) ==                         \* mutant: the exec is forgotten only if it was short
    CASE ev.type = "exec" -> ExtendWith(pidExecNs, ev.pid, ev.at)
      [] ev.type = "exit" /\ ShortLivedProcess(counts, ev) # counts ->
            [pid \in DOMAIN pidExecNs \ {ev.pid} |-> pidExecNs[pid]]
      [] OTHER -> pidExecNs

Starts(ev) ==
    CASE ev.type = "exec" -> ExtendWith(pidExecNs, ev.pid, ev.at)
      [] ev.type = "exit" -> [pid \in DOMAIN pidExecNs \ {ev.pid} |-> pidExecNs[pid]]
      [] OTHER -> pidExecNs

\* recordUniqueIPForConnect, for the event's own key and the host's.
Destinations(ev) ==
    IF EventTypeToMetric(ev) = "connect" /\ ev.ip # "none"
    THEN {<<DimensionKey("connect", ev), ev.ip>>, <<Key("connect", Host), ev.ip>>} ELSE {}

UniqueDestIPs(bag, ev) ==
    bag (+) SetToBag({Key("unique_dest_ips", d[1].label) : d \in Destinations(ev) \ uniqueDestIP})

Add(ev) ==
    IF ShouldInclude(ev)
    THEN /\ counts' = UniqueDestIPs(ShortLivedProcess(ForkBombScore(
                          Increment(counts, EventTypeToMetric(ev), ev), ev), ev), ev)
         /\ uniqueDestIP' = uniqueDestIP \cup Destinations(ev)
         /\ ppidForks' = Forks(ev)
         /\ pidExecNs' = Starts(ev)
    ELSE UNCHANGED tables

RotateKeepsForks ==                       \* mutant
    counts' = EmptyBag /\ uniqueDestIP' = {} /\ UNCHANGED <<ppidForks, pidExecNs>>

\* The times of execs outlive the window.
Rotate ==
    /\ counts' = EmptyBag /\ uniqueDestIP' = {} /\ ppidForks' = EmptyBag
    /\ UNCHANGED pidExecNs
=============================================================================
