SPECIFICATION FairSpec
CONSTANTS
    NEvents = 6
    RingCap = 2
    ChanCap = 2
    Malformed <- MCMalformed
    Excluded <- MCExcluded
INVARIANTS Conservation GracefulDelivery
PROPERTIES ImplementsDelivery ShutdownCompletes EventsRated
CHECK_DEADLOCK FALSE
