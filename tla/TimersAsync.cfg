SPECIFICATION Spec
CONSTANTS
    u1 = u1
    u2 = u2
    User = {u1, u2}
    AsyncUser = {u2}
    MaxTimers = 2
    MaxInterval = 2
    MaxRepeat = 1
    TasksLimit = 3
    MaxLag = 2
    MaxOps = 4
CHECK_DEADLOCK FALSE
INVARIANTS
    ResultNamesTimer
