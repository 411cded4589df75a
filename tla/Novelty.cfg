SPECIFICATION TrackerSpec
CONSTANTS
    Keys = {k1, k2}
    MaxStarts = 3
    MaxFaults = 2
    Shortest = 2
    Longest = 12
    Gaps = {1, 10, 11, 13}
    MaxConnects = 10
INVARIANTS ReportedOnce SkippedWereReported BeaconMeansRegular
SYMMETRY Symmetry
CHECK_DEADLOCK FALSE
