SPECIFICATION Spec
CONSTANTS
    Tasks = {2, 3}
    First = 2
    MapCap = 1
    PruneAge = 1
    Lossy = FALSE
    MaxEvents = 6
    MaxLives = 2
INVARIANTS IdentityIsSafe
CHECK_DEADLOCK FALSE
