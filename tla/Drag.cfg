SPECIFICATION FairSpec
CONSTANTS
    MaxTimers = 2
    MaxEnds = 1
    MaxUps = 1
    MaxCalls = 4
INVARIANTS
    MonitorsOwned
    DrawingEnds
    WatchdogSet
    RotationEnds
    PointerBack
PROPERTIES
    LiftedEnds
    WindowFreed
