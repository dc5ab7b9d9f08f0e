SPECIFICATION FairSpec
CONSTANTS
    absolute_still = absolute_still
    still = still
    relative_still = relative_still
    Type = {absolute_still, still, relative_still}
    AlgoType = {absolute_still}
    EnabledType <- MCEnabledType
    Callback = {cb1, cb2}
    Binder = {b1, b2}
    MockThread = mock_thread
    Free = Free
    MaxCalls = 2
CHECK_DEADLOCK FALSE
PROPERTIES
    CallsReturn
