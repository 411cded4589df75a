SPECIFICATION FairSpec
INVARIANTS StartsMatchEntries PpidIsForker PrunedHadExit
CONSTANTS
    Tasks = {2, 3, 4}
    First = 2
    MapCap = 2
    PruneAge = 1
    Lossy = TRUE
    MaxEvents = 5
    MaxLives = 2
PROPERTIES ExitedArePruned
CHECK_DEADLOCK FALSE
