--------------------------- MODULE MCTracepoints -----------------------------
EXTENDS Tracepoints, TLC

MCMaxFired ==
    {"write"} :> 4 @@ {"openat"} :> 3 @@ {"open", "openat2", "write"} :> 2
    @@ {"exec", "connect"} :> 2 @@ {"fork", "exit"} :> 3 @@ {"bind", "sendto"} :> 2
    @@ {"setuid", "setgid", "ptrace"} :> 2 @@ {"capset", "oom_kill"} :> 2

MCAttachments == DOMAIN MCMaxFired

MCMaxTime == [a \in MCAttachments |-> IF a \in {{"write"}, {"openat"}} THEN 3 ELSE 2]

MCPaths ==
    {Unreadable,
     [readable |-> TRUE, length |-> 0, tmp |-> FALSE, sudo |-> {}],       \* the empty path
     [readable |-> TRUE, length |-> 10, tmp |-> TRUE, sudo |-> {4}],      \* /tmp/sudo and one byte
     [readable |-> TRUE, length |-> 126, tmp |-> FALSE, sudo |-> {121}]}  \* read to its very end

MCAddrs ==
    {[family |-> 4, port |-> 53, long |-> TRUE, readable |-> "all"],
     [family |-> 6, port |-> 4444, long |-> TRUE, readable |-> "all"],
     [family |-> 6, port |-> 4444, long |-> TRUE, readable |-> "family"],
     [family |-> 4, port |-> 4444, long |-> FALSE, readable |-> "all"]}

MCLimit == [l \in Limiters |-> IF l = "open" THEN 1 ELSE 2]
=============================================================================
