SPECIFICATION FairSpec
CONSTANTS
    u1 = u1
    u2 = u2
    User = {u1, u2}
    AsyncUser = {u2}
    MaxTimers = 2
    MaxInterval = 2
    MaxRepeat = 2
    TasksLimit = 1
    MaxLag = 1
    MaxOps = 3
CHECK_DEADLOCK FALSE
INVARIANTS
    WakesUp
PROPERTIES
    ImplementsAlarms
    DueIsCalled
