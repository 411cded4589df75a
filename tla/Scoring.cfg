SPECIFICATION Spec
CONSTANTS
    HoursPerDay = 2
    DaysPerWeek = 3
    MinSamples = 2
    SampleCap = 4
INVARIANTS CriticalHasGrounds SilentOnlyUnready
