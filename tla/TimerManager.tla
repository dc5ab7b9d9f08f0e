---------------------------- MODULE TimerManager -----------------------------
(***************************************************************************)
(* The timers of the service: TimerManager, the timerfd that wakes the     *)
(* service thread, and the tasks through which other threads reach the     *)
(* list of timers.  Times are relative to now, so that a Tick is a         *)
(* decrement and time has no bound.                                        *)
(***************************************************************************)
EXTENDS Integers, Sequences, FiniteSets

CONSTANTS
    User,         \* those who set timers; each keeps one id
    AsyncUser,    \* those of them who call AddTimerAsync and RemoveTimerAsync
    MaxTimers,    \* MAX_TIMER_COUNT
    MaxInterval,  \* MAX_INTERVAL_MS, in ticks
    MaxRepeat,    \* largest repeatCount asked for
    TasksLimit,   \* tasks DelegateTasks holds
    MaxLag,       \* bound on how late the service thread is
    MaxOps        \* bound on the operations of the users

ASSUME UserAssumption == AsyncUser \subseteq User

ASSUME BoundAssumption ==
    /\ MaxTimers \in Nat \ {0} /\ MaxInterval \in Nat \ {0} /\ MaxRepeat \in Nat
    /\ TasksLimit \in Nat /\ MaxLag \in Nat /\ MaxOps \in Nat

VARIABLES
    timers,   \* timers_
    fd,       \* the timerfd: Off, ticks to its expiry, or 0: readable
    queue,    \* tasks posted to the service thread
    service,  \* the service thread: the epoll events it still has to handle,
              \* whether it is in ProcessTimersInternal, and since when
    held,     \* the timer id each user keeps, or NONEXISTENT_ID
    waiting,  \* users in PostSyncTask
    refused,  \* ProcessTimers could not post its task, and ArmTimer has not
              \* been called since
    ops       \* operations so far

vars == <<timers, fd, queue, service, held, waiting, refused, ops>>

NONEXISTENT_ID == -1
Off == -1

Timer == [id : 0..(MaxTimers - 1), owner : User, interval : 1..MaxInterval,
          repeat : 0..MaxRepeat, left : 0..MaxRepeat, next : (-MaxLag)..MaxInterval]

Init ==
    /\ timers = <<>>
    /\ fd = Off
    /\ queue = <<>>
    /\ service = [todo |-> {}, processing |-> FALSE, late |-> 0]
    /\ held = [u \in User |-> NONEXISTENT_ID]
    /\ waiting = {}
    /\ refused = FALSE
    /\ ops = 0

-----------------------------------------------------------------------------
(* The list of timers *)

First(S) == CHOOSE i \in S : \A j \in S : i <= j

\* The lowest id no timer has
TakeNextTimerId(ts) ==
    LET free == 0..(MaxTimers - 1) \ {ts[i].id : i \in DOMAIN ts} IN
    IF free = {} THEN NONEXISTENT_ID ELSE First(free)

\* Before the first timer that is called later than t, or at the end
InsertTimerInternal(ts, t) ==
    LET at == First({i \in DOMAIN ts : ts[i].next > t.next} \cup {Len(ts) + 1}) IN
    SubSeq(ts, 1, at - 1) \o <<t>> \o SubSeq(ts, at, Len(ts))

\* The list without its element i
Erase(ts, i) == SubSeq(ts, 1, i - 1) \o SubSeq(ts, i + 1, Len(ts))

HasTimer(ts, id) == \E i \in DOMAIN ts : ts[i].id = id
Position(ts, id) == First({i \in DOMAIN ts : ts[i].id = id})

AddTimerInternal(ts, u, interval, repeat) ==
    IF TakeNextTimerId(ts) = NONEXISTENT_ID THEN ts
    ELSE InsertTimerInternal(ts, [id |-> TakeNextTimerId(ts), owner |-> u, interval |-> interval,
                                  repeat |-> repeat, left |-> repeat, next |-> interval])

RemoveTimerInternal(ts, id) == IF HasTimer(ts, id) THEN Erase(ts, Position(ts, id)) ELSE ts

\* Seeded fault: the calls that are left are not counted anew.
ResetTimerCalled(ts, id) ==
    IF HasTimer(ts, id)
    THEN LET i == Position(ts, id) IN
         InsertTimerInternal(Erase(ts, i), [ts[i] EXCEPT !.next = ts[i].interval])
    ELSE ts

ResetTimerInternal(ts, id) ==
    IF HasTimer(ts, id)
    THEN LET i == Position(ts, id) IN
         InsertTimerInternal(Erase(ts, i), [ts[i] EXCEPT !.next = ts[i].interval, !.left = ts[i].repeat])
    ELSE ts

\* Seeded fault: a timer that is due already disarms the timerfd.
ArmTimerZero(ts) ==
    IF ts = <<>> THEN Off ELSE IF ts[1].next <= 0 THEN Off ELSE ts[1].next

\* ArmTimer and CalcNextDelayInternal: a timer that is due already gets the
\* shortest delay there is, since a delay of zero would disarm the timerfd.
ArmTimer(ts) ==
    IF ts = <<>> THEN Off ELSE IF ts[1].next <= 0 THEN 1 ELSE ts[1].next

-----------------------------------------------------------------------------
(* The users, on their own threads *)

\* PostTask
Post(task) == queue' = IF Len(queue) > TasksLimit THEN queue ELSE Append(queue, task)
Posted == queue' # queue

NoTask == [does |-> "process", by |-> NONEXISTENT_ID, id |-> NONEXISTENT_ID, interval |-> 0, repeat |-> 0]

Operate(u, task) ==
    /\ ops < MaxOps /\ ops' = ops + 1
    /\ u \notin waiting
    /\ Post(task)
    /\ waiting' = IF Posted /\ u \notin AsyncUser THEN waiting \cup {u} ELSE waiting
    /\ UNCHANGED <<timers, fd, service, refused>>

\* AddTimer, whose result comes with SetValue, and AddTimerAsync, whose result
\* is the one of PostAsyncTask: RET_OK.
AddTimer(u, interval, repeat) ==
    /\ held[u] = NONEXISTENT_ID
    /\ Operate(u, [does |-> "add", by |-> u, id |-> NONEXISTENT_ID, interval |-> interval, repeat |-> repeat])
    /\ held' = IF u \in AsyncUser /\ Posted THEN [held EXCEPT ![u] = 0] ELSE held

\* RemoveTimer or RemoveTimerAsync of the id that is kept
RemoveTimer(u) ==
    /\ held[u] # NONEXISTENT_ID
    /\ Operate(u, [NoTask EXCEPT !.does = "remove", !.by = u, !.id = held[u]])
    /\ held' = IF u \in AsyncUser \/ ~Posted THEN [held EXCEPT ![u] = NONEXISTENT_ID] ELSE held

ResetTimer(u) ==
    /\ held[u] # NONEXISTENT_ID /\ u \notin AsyncUser
    /\ Operate(u, [NoTask EXCEPT !.does = "reset", !.by = u, !.id = held[u]])
    /\ UNCHANGED held

-----------------------------------------------------------------------------
(* The service thread *)

EpollWait ==
    /\ service.todo = {} /\ ~service.processing
    /\ queue # <<>> \/ fd = 0
    /\ service' = [service EXCEPT !.todo = {e \in {"task", "timer"} :
                        IF e = "task" THEN queue # <<>> ELSE fd = 0}]
    /\ UNCHANGED <<timers, fd, queue, held, waiting, refused, ops>>

\* ProcessTimers: OnTimeout reads the timerfd, if it is still readable, and
\* posts OnProcessTimers.
OnTimeout ==
    /\ "timer" \in service.todo /\ ~service.processing
    /\ service' = [service EXCEPT !.todo = @ \ {"timer"}]
    /\ fd' = IF fd = 0 THEN Off ELSE fd
    /\ Post(NoTask)
    /\ refused' = (refused \/ ~Posted)
    /\ UNCHANGED <<timers, held, waiting, ops>>

\* One task of the batch: OnAddTimer, OnRemoveTimer, OnResetTimer and the
\* beginning of OnProcessTimers
RunTask ==
    LET t == Head(queue) IN
    /\ "task" \in service.todo /\ ~service.processing
    /\ queue # <<>>
    /\ queue' = Tail(queue)
    /\ service' = [service EXCEPT !.todo = @ \ {"task"}, !.processing = t.does = "process", !.late = 0]
    /\ timers' = CASE t.does = "add" -> AddTimerInternal(timers, t.by, t.interval, t.repeat)
                   [] t.does = "remove" -> RemoveTimerInternal(timers, t.id)
                   [] t.does = "reset" -> ResetTimerInternal(timers, t.id)
                   [] t.does = "process" -> timers
    /\ LET arms == t.does \in {"add", "reset"} \/ (t.does = "remove" /\ HasTimer(timers, t.id)) IN
       /\ fd' = IF arms THEN ArmTimer(timers') ELSE fd
       /\ refused' = (refused /\ ~arms)
    /\ held' = IF t.by \notin waiting \/ t.does = "reset" THEN held
               ELSE [held EXCEPT ![t.by] = IF t.does = "add" THEN TakeNextTimerId(timers) ELSE NONEXISTENT_ID]
    /\ waiting' = waiting \ {t.by}
    /\ UNCHANGED ops

\* The first timer was due when ProcessTimersInternal took presentTime.
Due == timers # <<>> /\ Head(timers).next <= -service.late

\* An iteration of ProcessTimersInternal.  The callback may clear the id its
\* owner keeps, or remove the timer with that id, at once since it runs on the
\* service thread.
ProcessTimer ==
    LET t == Head(timers)
        rest == Tail(timers)
        again == [t EXCEPT !.next = @ + t.interval, !.left = IF t.repeat = 0 THEN 0 ELSE @ - 1]
        kept == IF t.left = 1 THEN rest ELSE InsertTimerInternal(rest, again)
    IN
    /\ service.processing /\ Due
    /\ \/ timers' = kept /\ held' \in {held, [held EXCEPT ![t.owner] = NONEXISTENT_ID]}
       \/ /\ held[t.owner] # NONEXISTENT_ID
          /\ timers' = RemoveTimerInternal(kept, held[t.owner])
          /\ held' = [held EXCEPT ![t.owner] = NONEXISTENT_ID]
    /\ UNCHANGED <<fd, queue, service, waiting, refused, ops>>

\* Seeded fault: the timerfd is not armed for the timers that are left.
ProcessTimersUnarmed ==
    /\ service.processing /\ ~Due
    /\ service' = [service EXCEPT !.processing = FALSE]
    /\ UNCHANGED <<timers, fd, queue, held, waiting, refused, ops>>

\* The end of OnProcessTimers
ProcessTimersDone ==
    /\ service.processing /\ ~Due
    /\ service' = [service EXCEPT !.processing = FALSE]
    /\ fd' = ArmTimer(timers)
    /\ refused' = FALSE
    /\ UNCHANGED <<timers, queue, held, waiting, ops>>

\* Time passes.  A timer more than MaxLag late counts as MaxLag late.
Tick ==
    /\ timers # <<>>
    /\ service.processing => service.late < MaxLag
    /\ timers' = [i \in DOMAIN timers |-> [timers[i] EXCEPT !.next = IF @ > -MaxLag THEN @ - 1 ELSE @]]
    /\ fd' = IF fd > 0 THEN fd - 1 ELSE fd
    /\ service' = [service EXCEPT !.late = IF service.processing THEN @ + 1 ELSE @]
    /\ UNCHANGED <<queue, held, waiting, refused, ops>>

-----------------------------------------------------------------------------
Service == EpollWait \/ OnTimeout \/ RunTask \/ ProcessTimer \/ ProcessTimersDone

Next ==
    \/ \E u \in User : \/ \E interval \in 1..MaxInterval, repeat \in 0..MaxRepeat : AddTimer(u, interval, repeat)
                       \/ RemoveTimer(u)
                       \/ ResetTimer(u)
    \/ Service
    \/ Tick

Spec == Init /\ [][Next]_vars

\* The service thread runs and time passes.
FairSpec == Spec /\ WF_vars(Service) /\ WF_vars(Tick)

-----------------------------------------------------------------------------
(* Properties *)

\* Every variable has its type, and the queue keeps to its limit.
TypeOK ==
    /\ timers \in Seq(Timer)
    /\ fd \in Off..MaxInterval
    /\ Len(queue) <= TasksLimit + 1
    /\ service \in [todo : SUBSET {"task", "timer"}, processing : BOOLEAN, late : 0..MaxLag]
    /\ held \in [User -> NONEXISTENT_ID..(MaxTimers - 1)]
    /\ waiting \subseteq User \ AsyncUser
    /\ refused \in BOOLEAN

\* However timers are added, removed, reset and called, by whomever, the list
\* is ordered by the time of the next call, and no two timers share an id.
Ordered ==
    \A i, j \in DOMAIN timers :
        i < j => timers[i].next <= timers[j].next /\ timers[i].id # timers[j].id

\* While there are timers the service thread will be woken for the first one
\* when it is due, or has been and OnProcessTimers waits in the queue.  The one
\* exception: the queue was full when OnTimeout posted OnProcessTimers.
WakesUp ==
    timers # <<>> =>
        \/ fd \in 0..(IF timers[1].next <= 0 THEN 1 ELSE timers[1].next)
        \/ service.processing
        \/ \E i \in DOMAIN queue : queue[i].does = "process"
        \/ refused

\* A timer that is due for the last time is called, or removed or reset by
\* somebody, once the users leave the service thread alone, unless a full task
\* queue refuses OnProcessTimers (PostAsyncTask in OnTimeout).
DueIsCalled ==
    \A u \in User :
        LET due == \E i \in DOMAIN timers : timers[i].owner = u /\ timers[i].left = 1 /\ timers[i].next <= 0
        IN due ~> ~due \/ refused

\* Whatever the threads do and however late the service thread is, users and
\* callbacks see what Alarms promises.
alarms == {timers[i] : i \in DOMAIN timers}
Clock == INSTANCE Alarms
ImplementsAlarms == Clock!Spec

\* The result of AddTimer and AddTimerAsync names the timer that was added.
ResultNamesTimer ==
    \A u \in User : \A i \in DOMAIN timers :
        timers[i].owner = u /\ u \notin waiting /\ held[u] # NONEXISTENT_ID => timers[i].id = held[u]
=============================================================================
