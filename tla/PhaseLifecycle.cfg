SPECIFICATION FairSpec
CONSTANTS
    Dims = {d1, d2}
    SampleCap = 1
    LearnDur = 2
    RecalibInt = 1
    MaxCrashes = 2
    MaxFaults = 0
    MaxResets = 0
    MaxQuiet = 0
PROPERTIES ImplementsLifecycle
