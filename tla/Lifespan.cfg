SPECIFICATION FairSpec
INVARIANTS
    ReadyMeansReached
    ClosedAtExit
PROPERTIES
    ServesConnected
    Decides
CHECK_DEADLOCK FALSE
