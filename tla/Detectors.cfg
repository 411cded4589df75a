SPECIFICATION DetectorsSpec
CONSTANTS
    Pids = {p1, p2}
    EventTypes = {"exec", "connect", "setuid", "other"}
    Rules <- MCRules
    Keep = 2
    Window = 2
    Cap = 3
    MaxEvents = 4
    MaxTime = 4
INVARIANTS
    DetectorsOK AlertsAreReal SequencesReported SpansApart StaleSpansFollowSilence
CHECK_DEADLOCK FALSE
SYMMETRY Symmetry
