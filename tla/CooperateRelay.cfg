SPECIFICATION FairSpec
CONSTANTS
    d1 = d1
    d2 = d2
    d3 = d3
    Device = {d1, d2, d3}
    PointerDevice = {d1, d2, d3}
    None = None
    NoSpeed = NoSpeed
    TimerId = {0, 1}
    MaxStarts = 2
    MaxEvents = 0
    MaxFaults = 1
INVARIANTS
    RelayOnlyWhileIn
    InputRouted
    NeverOwnPeer
    RelayTimed
PROPERTIES
    ImplementsInputRoute
    RelayEnds
CHECK_DEADLOCK FALSE
