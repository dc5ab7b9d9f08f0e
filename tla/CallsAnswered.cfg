SPECIFICATION Spec
CONSTANTS
    d1 = d1
    d2 = d2
    Device = {d1, d2}
    PointerDevice = {d1, d2}
    None = None
    NoSpeed = NoSpeed
    TimerId = {0}
    MaxStarts = 2
    MaxEvents = 1
    MaxFaults = 1
INVARIANTS
    EveryCallAnswered
CHECK_DEADLOCK FALSE
