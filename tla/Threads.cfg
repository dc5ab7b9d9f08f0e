SPECIFICATION FairSpec
CONSTANTS
    c1 = c1
    c2 = c2
    worker_thread = worker_thread
    stopper_thread = stopper_thread
    Caller = {c1, c2}
    Worker = worker_thread
    Stopper = stopper_thread
    QueueCapacity = 1
    TasksLimit = 2
    PipeCapacity = 4
    BatchLimit = 2
    MaxCalls = 3
    MaxEvents = 1
CHECK_DEADLOCK FALSE
INVARIANTS
    NoLostWakeup
    NoStrandedTask
    AnswersMatch
    StartAnsweredOnce
PROPERTIES
    ImplementsCalls
    StartReleased
    ServiceStops
