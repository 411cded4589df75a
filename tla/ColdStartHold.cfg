SPECIFICATION Spec
CONSTANTS
    Dims <- MCDims
    MetricOf <- MCMetricOf
    HostOf <- MCHostOf
    HighSeverity = {"ptrace"}
    Ceilinged = {"exec"}
    MinSamples = 1
    SampleCap = 2
    FTWindow = 1
PROPERTIES HoldLastsFastTrack
