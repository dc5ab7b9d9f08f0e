SPECIFICATION FairSpec
CONSTANTS
    Pid = {p1, p2}
    SystemApp = {p1}
    Listener = {lis1}
    MaxFd = 4
    MaxSessions = 2
    MaxStarts = 1
    MaxCalls = 2
    MaxCrashes = 1
    MaxDeaths = 1
INVARIANTS
    NotifiedOnce
    RegisteredListens
    OutSessionKept
PROPERTIES
    EntryLeavesWithSession
    ListenerReturns
    ToldEnds
    ResultArrives
CHECK_DEADLOCK FALSE
