SPECIFICATION Spec
CONSTANTS
    p1 = p1
    p2 = p2
    bash = bash
    curl = curl
    ip1 = ip1
    ip2 = ip2
    p3 = p3
    p4 = p4
    Pids = {p1, p2, p3, p4}
    Started <- MCStarted
    Binaries = {bash, curl}
    Addresses = {ip1, ip2, "none"}
    CacheMax = 2
    TTL = 2
    ForkBomb = 2
    ShortLived = 2
    Options <- MCOptions
    Workloads <- MCWorkloads
    MaxEvents <- MCMaxEvents
    MaxTime <- MCMaxTime
    QueueMax = 2
SYMMETRY Symmetry
CHECK_DEADLOCK FALSE
INVARIANTS TypeOK AnswerIsRecent WindowIsRecount StartsAreOpen
