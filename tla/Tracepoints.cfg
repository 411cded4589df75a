SPECIFICATION Spec
CONSTANTS
    Cpus = {c1, c2}
    Tasks = {t1, t2, t3}
    Started = {t1, t2}
    Attachments <- MCAttachments
    Paths <- MCPaths
    Addrs <- MCAddrs
    Suspicious = {4444}
    Limit <- MCLimit
    Window = 1
    RingCap = 2
    MapCap = 1
    MaxFired <- MCMaxFired
    MaxTime <- MCMaxTime
CHECK_DEADLOCK FALSE
INVARIANTS SampledWithinRate InOrder Accounted FlagsExact
PROPERTIES SuppressedAtLimit RecordsRead
