SPECIFICATION Spec
CONSTANTS
    Pid = {p1}
    SystemApp = {p1}
    Listener = {lis1}
    MaxFd = 3
    MaxSessions = 1
    MaxStarts = 2
    MaxCalls = 1
    MaxCrashes = 1
    MaxDeaths = 1
INVARIANT
    StartListenerKept
CHECK_DEADLOCK FALSE
