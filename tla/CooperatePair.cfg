SPECIFICATION FairSpec
CONSTANTS
    d1 = d1
    d2 = d2
    Device = {d1, d2}
    PointerDevice = {d1}
    None = None
    NoSpeed = NoSpeed
    TimerId = {0, 1}
    MaxStarts = 2
    MaxEvents = 2
    MaxFaults = 1
INVARIANTS
    OutReaches
    SpeedRestored
    PointerShown
PROPERTIES
    OutSettles
CHECK_DEADLOCK FALSE
