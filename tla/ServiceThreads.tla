--------------------------- MODULE ServiceThreads ----------------------------
(***************************************************************************)
(* The threads of the service and what they wait for.                      *)
(*   - IPC threads run IntentionService: every call is a task posted to    *)
(*     the service thread (DelegateTasks::PostSyncTask), which the caller  *)
(*     waits for, three seconds at most.                                   *)
(*   - The service thread sleeps in epoll_wait, reads one record from the  *)
(*     pipe of DelegateTasks and runs a batch of tasks.  A Start call of   *)
(*     the cooperation plugin sends START to the plugin's Channel and      *)
(*     waits, for as long as it takes, for the worker to take it up.       *)
(*   - The plugin's worker takes one event after the other from the        *)
(*     Channel.  Handlers that need a timer or the device manager post a   *)
(*     task to the service thread and wait for it in turn.                 *)
(* So the service thread can wait for the worker while the worker waits    *)
(* for the service thread.                                                 *)
(***************************************************************************)
EXTENDS Naturals, Sequences

CONSTANTS
    Caller,          \* IPC threads
    Worker,          \* the plugin's worker thread
    Stopper,         \* the thread that stops the service
    QueueCapacity,   \* Channel::QUEUE_CAPACITY
    TasksLimit,      \* maxTasksLimit
    PipeCapacity,    \* records the pipe holds
    BatchLimit,      \* onceProcessTaskLimit
    MaxCalls,        \* bound on the calls of IPC threads
    MaxEvents        \* bound on the events other threads send to the Channel

ASSUME ThreadAssumption == Worker \notin Caller /\ Stopper \notin Caller \cup {Worker}

ASSUME LimitAssumption ==
    /\ QueueCapacity \in Nat /\ TasksLimit \in Nat
    /\ PipeCapacity \in Nat \ {0} /\ BatchLimit \in Nat \ {0}
    /\ MaxCalls \in Nat /\ MaxEvents \in Nat

VARIABLES
    running,   \* state_ = STATE_RUNNING
    tasks,     \* tasks_
    pipe,      \* records in the pipe
    main,      \* the service thread: pc, and the batch it is processing
    waiting,   \* waiting[p]: p is in PostSyncTask's wait_for
    channel,   \* Channel::queue_
    worker,    \* the plugin's worker: pc, and the event it is handling
    started,   \* the promise of the Start call in progress has its value
    used       \* how much of MaxCalls and MaxEvents is spent

vars == <<running, tasks, pipe, main, waiting, channel, worker, started, used>>

Poster == Caller \cup {Worker}

\* Task: its poster, what it does, and hasWaited_
Task == [by : Poster \cup {Stopper}, does : {"call", "start", "noop"}, expired : BOOLEAN]

\* What a handler still has to do: nothing, or something with a sync task.
CooperateEvent == {"START", "OTHER", "TIMED"}

Init ==
    /\ running = TRUE
    /\ tasks = <<>>
    /\ pipe = 0
    /\ main = [pc |-> "loop", batch |-> <<>>]
    /\ waiting = [p \in Poster |-> FALSE]
    /\ channel = <<>>
    /\ worker = [pc |-> "ready", event |-> "OTHER"]
    /\ started = FALSE
    /\ used = [calls |-> 0, events |-> 0]

-----------------------------------------------------------------------------
(* Channel *)

\* Seeded fault: the receiver is woken only by the event that fills the queue.
SendWithoutNotify(e) ==
    IF Len(channel) >= QueueCapacity THEN UNCHANGED <<channel, worker>>
    ELSE /\ channel' = Append(channel, e)
         /\ UNCHANGED worker

\* Seeded fault: a full queue makes room by dropping its oldest event.
SendDropsOldest(e) ==
    /\ channel' = Append(IF Len(channel) >= QueueCapacity THEN Tail(channel) ELSE channel, e)
    /\ worker' = [worker EXCEPT !.pc = IF channel = <<>> /\ @ = "waiting" THEN "ready" ELSE @]

\* Channel::Send: rejected when full; the receiver is notified when the queue
\* was empty.
Send(e) ==
    IF Len(channel) >= QueueCapacity THEN UNCHANGED <<channel, worker>>
    ELSE /\ channel' = Append(channel, e)
         /\ worker' = [worker EXCEPT !.pc = IF channel = <<>> /\ @ = "waiting" THEN "ready" ELSE @]

\* Channel::Receive: the queue is looked at under the lock, and again after
\* every wakeup.
Receive ==
    /\ worker.pc = "ready"
    /\ \/ /\ channel = <<>>
          /\ worker' = [worker EXCEPT !.pc = "waiting"]
          /\ UNCHANGED channel
       \/ /\ channel # <<>>
          /\ worker' = [pc |-> "handling", event |-> Head(channel)]
          /\ channel' = Tail(channel)
    /\ UNCHANGED <<running, tasks, pipe, main, waiting, started, used>>

SpuriousWakeup ==
    /\ worker.pc = "waiting"
    /\ worker' = [worker EXCEPT !.pc = "ready"]
    /\ UNCHANGED <<running, tasks, pipe, main, waiting, channel, started, used>>

\* Soft bus, input, device and application observers send their events.
OtherSend(e) ==
    /\ used.events < MaxEvents
    /\ used' = [used EXCEPT !.events = @ + 1]
    /\ Send(e)
    /\ UNCHANGED <<running, tasks, pipe, main, waiting, started>>

-----------------------------------------------------------------------------
(* DelegateTasks *)

\* PostTask, when it accepts the task
PostTask(p, does) ==
    /\ Len(tasks) <= TasksLimit /\ pipe < PipeCapacity
    /\ tasks' = Append(tasks, [by |-> p, does |-> does, expired |-> FALSE])
    /\ pipe' = pipe + 1

PostTaskFails == Len(tasks) > TasksLimit \/ pipe >= PipeCapacity

\* PostSyncTask up to its wait_for, and its return when nothing is posted.
PostSyncTask(p, does) ==
    \/ PostTask(p, does) /\ waiting' = [waiting EXCEPT ![p] = TRUE]
    \/ PostTaskFails /\ UNCHANGED <<tasks, pipe, waiting>>

\* Seeded fault: the task is not told that nobody waits for it any more.
ExpireForgotten(q, p) == q

\* SetWaited on the task p waits for
Expire(q, p) == [i \in DOMAIN q |-> [q[i] EXCEPT !.expired = @ \/ q[i].by = p]]

\* Seeded fault: wait instead of wait_for.
WaitForever(p) == FALSE /\ UNCHANGED vars

\* wait_for gives up; for the worker, the handler goes on with an error.
WaitTimeout(p) ==
    /\ waiting[p]
    /\ waiting' = [waiting EXCEPT ![p] = FALSE]
    /\ tasks' = Expire(tasks, p)
    /\ main' = [main EXCEPT !.batch = Expire(@, p)]
    /\ worker' = IF p = Worker THEN [worker EXCEPT !.pc = "ready"] ELSE worker
    /\ UNCHANGED <<running, pipe, channel, started, used>>

-----------------------------------------------------------------------------
(* The service thread *)

\* OnThread looks at state_ and goes to sleep in epoll_wait.
EpollWait ==
    /\ main.pc = "loop"
    /\ main' = [main EXCEPT !.pc = IF running THEN "epoll" ELSE "exited"]
    /\ UNCHANGED <<running, tasks, pipe, waiting, channel, worker, started, used>>

\* Seeded fault: all records are read, though the batch is limited.
OnDelegateTaskDrains ==
    /\ main.pc = "epoll" /\ pipe > 0
    /\ main' = [main EXCEPT !.pc = IF running THEN "pop" ELSE "exited"]
    /\ pipe' = IF running THEN 0 ELSE pipe
    /\ UNCHANGED <<running, tasks, waiting, channel, worker, started, used>>

\* epoll_wait returns; OnDelegateTask reads one record, unless state_ has
\* changed meanwhile.
OnDelegateTask ==
    /\ main.pc = "epoll" /\ pipe > 0
    /\ main' = [main EXCEPT !.pc = IF running THEN "pop" ELSE "exited"]
    /\ pipe' = IF running THEN pipe - 1 ELSE pipe
    /\ UNCHANGED <<running, tasks, waiting, channel, worker, started, used>>

\* Seeded fault: what does not fit into the batch is dropped.
PopPendingTaskListClears ==
    /\ main.pc = "pop"
    /\ main' = [pc |-> "next", batch |-> SubSeq(tasks, 1, IF Len(tasks) < BatchLimit THEN Len(tasks) ELSE BatchLimit)]
    /\ tasks' = <<>>
    /\ UNCHANGED <<running, pipe, waiting, channel, worker, started, used>>

PopPendingTaskList ==
    LET n == IF Len(tasks) < BatchLimit THEN Len(tasks) ELSE BatchLimit IN
    /\ main.pc = "pop"
    /\ main' = [pc |-> "next", batch |-> SubSeq(tasks, 1, n)]
    /\ tasks' = SubSeq(tasks, n + 1, Len(tasks))
    /\ UNCHANGED <<running, pipe, waiting, channel, worker, started, used>>

\* Task::ProcessTask up to the call of fun_
ProcessTask ==
    /\ main.pc = "next"
    /\ \/ /\ main.batch = <<>>
          /\ main' = [main EXCEPT !.pc = "loop"]
       \/ /\ main.batch # <<>> /\ Head(main.batch).expired
          /\ main' = [main EXCEPT !.batch = Tail(@)]
       \/ /\ main.batch # <<>> /\ ~Head(main.batch).expired
          /\ main' = [main EXCEPT !.pc = Head(main.batch).does]
    /\ UNCHANGED <<running, tasks, pipe, waiting, channel, worker, started, used>>

\* Cooperate::Start and StartWithOptions wait even if Send has failed.
CooperateStart ==
    /\ main.pc = "start"
    /\ main' = [main EXCEPT !.pc = IF Len(channel) < QueueCapacity THEN "get" ELSE "hung"]
    /\ started' = FALSE
    /\ Send("START")
    /\ UNCHANGED <<running, tasks, pipe, waiting, used>>

\* errCode.get() returns.
CooperateStarted ==
    /\ main.pc = "get" /\ started
    /\ main' = [main EXCEPT !.pc = "call"]
    /\ UNCHANGED <<running, tasks, pipe, waiting, channel, worker, started, used>>

\* The function is done: a result for the poster, if it still waits.
SetValue ==
    LET t == Head(main.batch) IN
    /\ main.pc \in {"call", "noop"}
    /\ main' = [pc |-> "next", batch |-> Tail(main.batch)]
    /\ \/ /\ t.expired \/ t.by \notin Poster
          /\ UNCHANGED <<waiting, worker>>
       \/ /\ ~t.expired /\ t.by \in Poster
          /\ waiting' = [waiting EXCEPT ![t.by] = FALSE]
          /\ worker' = IF t.by = Worker THEN [worker EXCEPT !.pc = "ready"] ELSE worker
    /\ UNCHANGED <<running, tasks, pipe, channel, started, used>>

-----------------------------------------------------------------------------
(* The worker, the IPC threads and the thread that stops the service *)

\* Cooperate::Loop: StateMachine::StartCooperate answers the Start call before
\* it hands the event to the state, which may need a timer then.
Handle ==
    /\ worker.pc = "handling"
    /\ \/ /\ worker.event = "START"
          /\ started' = TRUE
          /\ \E e \in {"OTHER", "TIMED"} : worker' = [worker EXCEPT !.event = e]
          /\ UNCHANGED <<tasks, pipe, waiting>>
       \/ /\ worker.event = "OTHER"
          /\ worker' = [worker EXCEPT !.pc = "ready"]
          /\ UNCHANGED <<tasks, pipe, waiting, started>>
       \/ /\ worker.event = "TIMED"
          /\ PostSyncTask(Worker, "call")
          /\ worker' = [worker EXCEPT !.pc = IF waiting'[Worker] THEN "posted" ELSE "ready"]
          /\ UNCHANGED started
    /\ UNCHANGED <<running, main, channel, used>>

\* A call of IntentionService
Call(c, does) ==
    /\ used.calls < MaxCalls
    /\ ~waiting[c]
    /\ PostSyncTask(c, does)
    /\ used' = [used EXCEPT !.calls = @ + 1]
    /\ UNCHANGED <<running, main, channel, worker, started>>

\* Seeded fault: nothing wakes the service thread.
OnStopQuietly ==
    /\ running
    /\ running' = FALSE
    /\ UNCHANGED <<tasks, pipe, main, waiting, channel, worker, started, used>>

\* DeviceStatusService::OnStop, up to the join: PostAsyncTask of a no-op.
OnStop ==
    /\ running
    /\ running' = FALSE
    /\ \/ PostTask(Stopper, "noop")
       \/ PostTaskFails /\ UNCHANGED <<tasks, pipe>>
    /\ UNCHANGED <<main, waiting, channel, worker, started, used>>

-----------------------------------------------------------------------------
Main == \/ EpollWait \/ OnDelegateTask \/ PopPendingTaskList \/ ProcessTask
        \/ CooperateStart \/ CooperateStarted \/ SetValue

Next ==
    \/ Main
    \/ Receive \/ SpuriousWakeup \/ Handle
    \/ \E p \in Poster : WaitTimeout(p)
    \/ \E e \in {"OTHER", "TIMED"} : OtherSend(e)
    \/ \E c \in Caller, does \in {"call", "start"} : Call(c, does)
    \/ OnStop

Spec == Init /\ [][Next]_vars

\* Threads that can run do, and time passes: a wait_for that nobody ends comes
\* to its end.
FairSpec ==
    /\ Spec
    /\ WF_vars(Main) /\ WF_vars(Receive) /\ WF_vars(Handle)
    /\ \A p \in Poster : WF_vars(WaitTimeout(p))

-----------------------------------------------------------------------------
(* Properties *)

\* Every variable has its type, and the queues keep to their limits.
TypeOK ==
    /\ running \in BOOLEAN
    /\ tasks \in Seq(Task) /\ Len(tasks) <= TasksLimit + 1
    /\ pipe \in 0..PipeCapacity
    /\ main \in [pc : {"loop", "epoll", "pop", "next", "call", "start", "noop", "get", "hung",
                       "exited"},
                 batch : Seq(Task)]
    /\ waiting \in [Poster -> BOOLEAN]
    /\ channel \in Seq(CooperateEvent) /\ Len(channel) <= QueueCapacity
    /\ worker \in [pc : {"ready", "waiting", "handling", "posted"}, event : CooperateEvent]
    /\ started \in BOOLEAN
    /\ used \in [calls : 0..MaxCalls, events : 0..MaxEvents]

\* Channel::Send notifies only when the queue was empty.  That is enough: the
\* worker never sleeps while there is something in the queue.
NoLostWakeup == worker.pc = "waiting" => channel = <<>>

\* OnDelegateTask reads one record a time and takes up to BatchLimit tasks, so
\* records and tasks do not correspond.  Still no task is left in the queue
\* without a record in the pipe that will wake the service thread for it.
NoStrandedTask == tasks # <<>> => pipe > 0 \/ main.pc = "pop"

\* The tasks posted and not done, the current one first.
Pending == main.batch \o tasks

\* Those of p that p can still be answered.
Awaited(p) == {i \in DOMAIN Pending : Pending[i].by = p /\ ~Pending[i].expired}

\* A thread that gave up on a task and posted the next one never takes the
\* result of the first for the result of the second: of all its tasks only the
\* one it is waiting for can still be answered.
AnswersMatch ==
    \A p \in Poster :
        IF waiting[p] THEN \E i \in DOMAIN Pending : Awaited(p) = {i} ELSE Awaited(p) = {}

\* The service thread is in a task.
InTask == main.pc \in {"call", "start", "noop", "get", "hung"}

\* However many records, batches, nested waits and timeouts lie between, tasks are
\* what SyncCalls promises: run in the order they were posted, one at a time, each
\* once, never after its poster gave up on it, and answered to nobody else
\* (PostSyncTask, PopPendingTaskList, ProcessTask).
Calls == INSTANCE SyncCalls WITH calls <- Pending, doing <- InTask
ImplementsCalls == Calls!Spec

\* errCode.get() has no timeout, so the START it waits for must never be lost,
\* whatever other events crowd the Channel; and the promise, which throws when it
\* is set again, is set once: while the service thread waits for its value just
\* one START is on its way to the worker, and at any other time none is.
StartAnsweredOnce ==
    LET taken == worker.pc = "handling" /\ worker.event = "START"
        ahead == {i \in DOMAIN channel : channel[i] = "START"}
    IN
    IF main.pc = "get" /\ ~started
    THEN IF taken THEN ahead = {} ELSE \E i \in DOMAIN channel : ahead = {i}
    ELSE ~taken /\ ahead = {}

\* The service thread in Start, and the worker in a handler that needs the
\* service thread, do not wait for each other for ever: a Start call whose
\* event was accepted gets its answer.
StartReleased == main.pc = "get" ~> main.pc # "get"

\* OnStop ignores whether its no-op was posted.  Even so the service thread does
\* not sleep through it: if the post is refused there are records in the pipe.
StopWakes == ~running /\ main.pc = "epoll" => pipe > 0

\* After OnStop the service thread leaves its loop, so that join returns,
\* unless it is stuck in a Start call whose event was rejected.
ServiceStops == ~running ~> main.pc \in {"exited", "hung"}
=============================================================================
