SPECIFICATION FairSpec
CONSTANTS
    Dims = {d1, d2}
    SampleCap = 1
    LearnDur = 2
    RecalibInt = 1
    MaxCrashes = 2
    MaxFaults = 1
    MaxResets = 1
    MaxQuiet = 1
INVARIANTS TypeOK MonitoringEarned BoundedLoss
PROPERTIES NoSavedSampleLost GracefulRestart LearningCompletes
CHECK_DEADLOCK TRUE
