------------------------ MODULE ServiceThreadsProofs -------------------------
(***************************************************************************)
(* Proofs about ServiceThreads, for any number of threads and any limits.  *)
(*                                                                         *)
(* NoStrandedTask is not inductive: it does not say how many records are   *)
(* in the pipe.  The strengthening counts them: every task in the queue    *)
(* has a record of its own, in the pipe or just read.  Records may exceed  *)
(* tasks, since a batch takes several tasks for one record, never the      *)
(* other way round.  StartAnsweredOnce counts the STARTs that are in the   *)
(* Channel or with the worker.  The refinement of SyncCalls is at the end. *)
(***************************************************************************)
EXTENDS ServiceThreads, SequenceTheorems, TLAPS

\* Records that stand for a task in the queue: those in the pipe, and the one
\* the service thread has just read.
Records == pipe + (IF main.pc = "pop" THEN 1 ELSE 0)

IInv ==
    /\ TypeOK
    /\ NoLostWakeup
    /\ Len(tasks) <= Records
    /\ InTask => main.batch # <<>>

-----------------------------------------------------------------------------
\* Expire changes no more than the expired field.
LEMMA ExpireType ==
    ASSUME NEW q \in Seq(Task), NEW p
    PROVE  Expire(q, p) \in Seq(Task) /\ Len(Expire(q, p)) = Len(q)
<1>1. ASSUME NEW i \in 1..Len(q)
      PROVE  [q[i] EXCEPT !.expired = @ \/ q[i].by = p] \in Task
  <2>1. q[i] \in Task
    OBVIOUS
  <2> DEFINE b == (q[i].expired \/ q[i].by = p)
  <2>2. b \in BOOLEAN
    OBVIOUS
  <2> HIDE DEF b
  <2>3. [q[i] EXCEPT !.expired = b] \in Task
    BY <2>1, <2>2 DEF Task
  <2> QED BY <2>3 DEF b
<1>2. DOMAIN q = 1..Len(q) /\ Len(q) \in Nat
  OBVIOUS
<1> DEFINE e(i) == [q[i] EXCEPT !.expired = @ \/ q[i].by = p]
<1>3. Expire(q, p) = [i \in 1..Len(q) |-> e(i)]
  BY <1>2 DEF Expire
<1>4. \A i \in 1..Len(q) : e(i) \in Task
  BY <1>1
<1> HIDE DEF e
<1>5. [i \in 1..Len(q) |-> e(i)] \in Seq(Task)
  BY <1>2, <1>4
<1> QED BY <1>2, <1>3, <1>5

\* A counter below its bound can be counted up.
LEMMA CountersType ==
    ASSUME IInv
    PROVE  /\ used.calls < MaxCalls =>
                 [used EXCEPT !.calls = @ + 1] \in [calls : 0..MaxCalls, events : 0..MaxEvents]
           /\ used.events < MaxEvents =>
                 [used EXCEPT !.events = @ + 1] \in [calls : 0..MaxCalls, events : 0..MaxEvents]
<1>1. used \in [calls : 0..MaxCalls, events : 0..MaxEvents]
  BY DEF IInv, TypeOK
<1>2. used.calls \in 0..MaxCalls /\ used.events \in 0..MaxEvents
  BY <1>1
<1>3. used.calls < MaxCalls => used.calls + 1 \in 0..MaxCalls
  BY <1>2, LimitAssumption DEF LimitAssumption
<1>4. used.events < MaxEvents => used.events + 1 \in 0..MaxEvents
  BY <1>2, LimitAssumption DEF LimitAssumption
<1> QED BY <1>1, <1>3, <1>4

\* A task that is accepted keeps the queue within its limit and brings a
\* record of its own.
LEMMA PostTaskType ==
    ASSUME IInv, NEW p \in Poster \cup {Stopper}, NEW does \in {"call", "start", "noop"},
           PostTask(p, does)
    PROVE  /\ tasks' \in Seq(Task) /\ Len(tasks') <= TasksLimit + 1
           /\ pipe' \in 0..PipeCapacity
           /\ Len(tasks') = Len(tasks) + 1 /\ pipe' = pipe + 1
<1> DEFINE t == [by |-> p, does |-> does, expired |-> FALSE]
<1>1. t \in Task
  BY DEF Task
<1> HIDE DEF t
<1>2. tasks' = Append(tasks, t)
  BY DEF PostTask, t
<1>3. tasks' \in Seq(Task) /\ Len(tasks') = Len(tasks) + 1
  BY <1>1, <1>2 DEF IInv, TypeOK
<1> QED BY <1>3, LimitAssumption DEF PostTask, IInv, TypeOK

\* The same for PostSyncTask, which may post nothing.
LEMMA PostSyncTaskType ==
    ASSUME IInv, NEW p \in Poster, NEW does \in {"call", "start", "noop"},
           PostSyncTask(p, does)
    PROVE  /\ tasks' \in Seq(Task) /\ Len(tasks') <= TasksLimit + 1
           /\ pipe' \in 0..PipeCapacity
           /\ waiting' \in [Poster -> BOOLEAN]
           /\ Len(tasks') - pipe' = Len(tasks) - pipe
<1>1. CASE PostTask(p, does) /\ waiting' = [waiting EXCEPT ![p] = TRUE]
  <2>1. waiting' \in [Poster -> BOOLEAN]
    BY <1>1 DEF IInv, TypeOK
  <2>2. Len(tasks) \in Nat /\ pipe \in Nat
    BY LimitAssumption DEF IInv, TypeOK
  <2> QED BY <1>1, <2>1, <2>2, PostTaskType
<1>2. CASE PostTaskFails /\ UNCHANGED <<tasks, pipe, waiting>>
  BY <1>2 DEF IInv, TypeOK
<1> QED BY <1>1, <1>2 DEF PostSyncTask

\* An accepted event finds the worker awake, or wakes it.
LEMMA SendType ==
    ASSUME IInv, NEW e \in CooperateEvent, Send(e)
    PROVE  /\ channel' \in Seq(CooperateEvent) /\ Len(channel') <= QueueCapacity
           /\ worker' \in [pc : {"ready", "waiting", "handling", "posted"}, event : CooperateEvent]
           /\ NoLostWakeup'
<1>1. CASE Len(channel) >= QueueCapacity
  BY <1>1 DEF Send, IInv, TypeOK, NoLostWakeup
<1>2. CASE ~(Len(channel) >= QueueCapacity)
  <2>1. channel' = Append(channel, e)
    BY <1>2 DEF Send
  <2>2. channel' \in Seq(CooperateEvent) /\ Len(channel') = Len(channel) + 1
    BY <2>1 DEF IInv, TypeOK
  <2>3. Len(channel') <= QueueCapacity
    BY <1>2, <2>2, LimitAssumption DEF IInv, TypeOK
  <2>4. worker.pc = "waiting" => channel = <<>>
    BY DEF IInv, NoLostWakeup
  <2>5. /\ worker' \in [pc : {"ready", "waiting", "handling", "posted"}, event : CooperateEvent]
        /\ worker'.pc # "waiting"
    BY <1>2, <2>4 DEF Send, IInv, TypeOK
  <2> QED BY <2>2, <2>3, <2>5 DEF NoLostWakeup
<1> QED BY <1>1, <1>2

-----------------------------------------------------------------------------
\* The inductive invariant holds initially.
LEMMA InitIInv == Init => IInv
<1> SUFFICES ASSUME Init PROVE IInv
  OBVIOUS
<1>1. TypeOK
  <2>1. <<>> \in Seq(Task) /\ <<>> \in Seq(CooperateEvent) /\ Len(<<>>) = 0
    OBVIOUS
  <2>2. waiting \in [Poster -> BOOLEAN]
    BY DEF Init
  <2>3. main \in [pc : {"loop", "epoll", "pop", "next", "call", "start", "noop", "get", "hung",
                        "exited"},
                  batch : Seq(Task)]
    BY <2>1 DEF Init
  <2>4. worker \in [pc : {"ready", "waiting", "handling", "posted"}, event : CooperateEvent]
    BY DEF Init, CooperateEvent
  <2>5. used \in [calls : 0..MaxCalls, events : 0..MaxEvents]
    BY LimitAssumption DEF Init
  <2>6. running = TRUE /\ started = FALSE /\ tasks = <<>> /\ channel = <<>>
    BY DEF Init
  <2>8. pipe \in 0..PipeCapacity
    BY LimitAssumption DEF Init
  <2>7. Len(tasks) <= TasksLimit + 1 /\ Len(channel) <= QueueCapacity
    BY <2>1, <2>6, LimitAssumption
  <2> QED BY <2>1, <2>2, <2>3, <2>4, <2>5, <2>6, <2>7, <2>8 DEF TypeOK
<1>2. NoLostWakeup
  BY DEF Init, NoLostWakeup
<1>3. Len(tasks) <= Records
  BY DEF Init, Records
<1>4. ~InTask
  BY DEF Init, InTask
<1> QED BY <1>1, <1>2, <1>3, <1>4 DEF IInv

\* The inductive invariant is kept by every step.
LEMMA NextIInv == IInv /\ [Next]_vars => IInv'
<1> SUFFICES ASSUME IInv, [Next]_vars PROVE IInv'
  OBVIOUS
<1> USE LimitAssumption
<1>0. CASE UNCHANGED vars
  BY <1>0 DEF vars, IInv, TypeOK, NoLostWakeup, Records, InTask
<1>1. CASE EpollWait
  <2>1. TypeOK'
    BY <1>1 DEF EpollWait, IInv, TypeOK
  <2> QED BY <1>1, <2>1 DEF EpollWait, IInv, TypeOK, NoLostWakeup, Records, InTask
<1>2. CASE OnDelegateTask
  <2>1. TypeOK'
    <3>1. pipe' \in 0..PipeCapacity
      BY <1>2 DEF OnDelegateTask, IInv, TypeOK
    <3>2. main' \in [pc : {"loop", "epoll", "pop", "next", "call", "start", "noop", "get", "hung",
                           "exited"},
                     batch : Seq(Task)]
      BY <1>2 DEF OnDelegateTask, IInv, TypeOK
    <3> QED BY <1>2, <3>1, <3>2 DEF OnDelegateTask, IInv, TypeOK
  <2> QED BY <1>2, <2>1 DEF OnDelegateTask, IInv, TypeOK, NoLostWakeup, Records, InTask
<1>3. CASE PopPendingTaskList
  <2> DEFINE n == IF Len(tasks) < BatchLimit THEN Len(tasks) ELSE BatchLimit
  <2>1. tasks \in Seq(Task) /\ Len(tasks) \in Nat /\ n \in 0..Len(tasks)
    BY DEF IInv, TypeOK
  <2>2. Len(tasks) > 0 => n > 0
    BY <2>1
  <2> HIDE DEF n
  <2>3. /\ main' = [pc |-> "next", batch |-> SubSeq(tasks, 1, n)]
        /\ tasks' = SubSeq(tasks, n + 1, Len(tasks))
        /\ main.pc = "pop"
        /\ UNCHANGED <<running, pipe, waiting, channel, worker, started, used>>
    BY <1>3 DEF PopPendingTaskList, n
  <2>4. SubSeq(tasks, 1, n) \in Seq(Task)
    BY <2>1
  <2>5. tasks' \in Seq(Task) /\ Len(tasks') = Len(tasks) - n
    BY <2>1, <2>3
  <2>6. TypeOK'
    <3>1. main' \in [pc : {"loop", "epoll", "pop", "next", "call", "start", "noop", "get", "hung",
                           "exited"},
                     batch : Seq(Task)]
      BY <2>3, <2>4
    <3>2. Len(tasks') <= TasksLimit + 1
      BY <2>1, <2>5 DEF IInv, TypeOK
    <3> QED BY <2>3, <2>5, <3>1, <3>2 DEF IInv, TypeOK
  <2>7. Len(tasks') <= Records'
    <3>1. pipe \in Nat /\ Len(tasks) <= pipe + 1
      BY <2>3 DEF IInv, TypeOK, Records
    <3>2. Records' = pipe
      BY <2>3, <3>1 DEF Records
    <3> QED BY <2>1, <2>2, <2>5, <3>1, <3>2
  <2>8. NoLostWakeup' /\ ~InTask'
    BY <2>3 DEF IInv, NoLostWakeup, InTask
  <2> QED BY <2>6, <2>7, <2>8 DEF IInv
<1>4. CASE ProcessTask
  <2>1. TypeOK' /\ main'.pc # "pop" /\ main.pc # "pop" /\ (InTask' => main'.batch # <<>>)
    <3>1. CASE main.batch = <<>>
      BY <1>4, <3>1 DEF ProcessTask, IInv, TypeOK, InTask
    <3>2. CASE main.batch # <<>> /\ Head(main.batch).expired
      <4>1. Tail(main.batch) \in Seq(Task)
        BY <3>2 DEF IInv, TypeOK
      <4> QED BY <1>4, <3>2, <4>1 DEF ProcessTask, IInv, TypeOK, InTask
    <3>3. CASE main.batch # <<>> /\ ~Head(main.batch).expired
      <4>1. Head(main.batch) \in Task
        BY <3>3 DEF IInv, TypeOK
      <4>2. Head(main.batch).does \in {"call", "start", "noop"}
        BY <4>1 DEF Task
      <4> QED BY <1>4, <3>3, <4>2 DEF ProcessTask, IInv, TypeOK, InTask
    <3> QED BY <3>1, <3>2, <3>3
  <2> QED BY <1>4, <2>1 DEF ProcessTask, IInv, NoLostWakeup, Records
<1>5. CASE CooperateStart
  <2>1. /\ channel' \in Seq(CooperateEvent) /\ Len(channel') <= QueueCapacity
        /\ worker' \in [pc : {"ready", "waiting", "handling", "posted"}, event : CooperateEvent]
        /\ NoLostWakeup'
    BY <1>5, SendType DEF CooperateStart, CooperateEvent
  <2>2. /\ TypeOK' /\ main'.batch = main.batch
        /\ main.pc = "start" /\ main'.pc \in {"get", "hung"}
    BY <1>5, <2>1 DEF CooperateStart, IInv, TypeOK
  <2> QED BY <1>5, <2>1, <2>2 DEF CooperateStart, IInv, Records, InTask
<1>6. CASE CooperateStarted
  <2>1. TypeOK'
    BY <1>6 DEF CooperateStarted, IInv, TypeOK
  <2> QED BY <1>6, <2>1 DEF CooperateStarted, IInv, TypeOK, NoLostWakeup, Records, InTask
<1>7. CASE SetValue
  <2> DEFINE t == Head(main.batch)
  <2>1. main.batch \in Seq(Task) /\ main.batch # <<>> /\ main.pc \in {"call", "noop"}
    BY <1>7 DEF SetValue, IInv, TypeOK, InTask
  <2>2. Tail(main.batch) \in Seq(Task)
    BY <2>1
  <2>3. main' = [pc |-> "next", batch |-> Tail(main.batch)]
    BY <1>7 DEF SetValue
  <2>4. /\ waiting' \in [Poster -> BOOLEAN]
        /\ worker' \in [pc : {"ready", "waiting", "handling", "posted"}, event : CooperateEvent]
        /\ worker'.pc = "waiting" => worker.pc = "waiting"
    BY <1>7 DEF SetValue, IInv, TypeOK
  <2>5. TypeOK'
    BY <1>7, <2>2, <2>3, <2>4 DEF SetValue, IInv, TypeOK
  <2> QED BY <1>7, <2>1, <2>3, <2>4, <2>5 DEF SetValue, IInv, NoLostWakeup, Records, InTask
<1>8. CASE Receive
  <2>1. CASE channel = <<>>
    <3>1. TypeOK' /\ NoLostWakeup'
      BY <1>8, <2>1 DEF Receive, IInv, TypeOK, NoLostWakeup
    <3> QED BY <1>8, <3>1 DEF Receive, IInv, Records, InTask
  <2>2. CASE channel # <<>>
    <3>1. /\ Head(channel) \in CooperateEvent
          /\ Tail(channel) \in Seq(CooperateEvent)
          /\ Len(Tail(channel)) = Len(channel) - 1
      BY <2>2 DEF IInv, TypeOK
    <3>2. TypeOK' /\ NoLostWakeup'
      <4>1. worker' = [pc |-> "handling", event |-> Head(channel)] /\ channel' = Tail(channel)
        BY <1>8, <2>2 DEF Receive
      <4>2. channel' \in Seq(CooperateEvent) /\ Len(channel') <= QueueCapacity
        BY <3>1, <4>1 DEF IInv, TypeOK
      <4>3. worker' \in [pc : {"ready", "waiting", "handling", "posted"}, event : CooperateEvent]
        BY <3>1, <4>1
      <4> QED BY <1>8, <4>1, <4>2, <4>3 DEF Receive, IInv, TypeOK, NoLostWakeup
    <3> QED BY <1>8, <3>2 DEF Receive, IInv, Records, InTask
  <2> QED BY <2>1, <2>2
<1>9. CASE SpuriousWakeup
  <2>1. TypeOK' /\ NoLostWakeup'
    BY <1>9 DEF SpuriousWakeup, IInv, TypeOK, NoLostWakeup
  <2> QED BY <1>9, <2>1 DEF SpuriousWakeup, IInv, Records, InTask
<1>10. CASE Handle
  <2>1. CASE worker.event # "TIMED"
    <3>1. TypeOK' /\ NoLostWakeup' /\ UNCHANGED <<tasks, pipe, main>>
      BY <1>10, <2>1 DEF Handle, IInv, TypeOK, NoLostWakeup, CooperateEvent
    <3> QED BY <3>1 DEF IInv, Records, InTask
  <2>2. CASE worker.event = "TIMED"
    <3>1. PostSyncTask(Worker, "call") /\ Worker \in Poster
      BY <1>10, <2>2 DEF Handle, Poster
    <3>2. /\ tasks' \in Seq(Task) /\ Len(tasks') <= TasksLimit + 1
          /\ pipe' \in 0..PipeCapacity
          /\ waiting' \in [Poster -> BOOLEAN]
          /\ Len(tasks') - pipe' = Len(tasks) - pipe
      BY <3>1, PostSyncTaskType
    <3>3. /\ worker' \in [pc : {"ready", "waiting", "handling", "posted"}, event : CooperateEvent]
          /\ worker'.pc \in {"posted", "ready"}
      BY <1>10, <2>2 DEF Handle, IInv, TypeOK
    <3>4. TypeOK' /\ NoLostWakeup'
      BY <1>10, <2>2, <3>2, <3>3 DEF Handle, IInv, TypeOK, NoLostWakeup
    <3>5. Len(tasks') <= Records'
      BY <1>10, <3>2 DEF Handle, IInv, TypeOK, Records
    <3> QED BY <1>10, <3>4, <3>5 DEF Handle, IInv, InTask
  <2> QED BY <2>1, <2>2
<1>11. ASSUME NEW p \in Poster, WaitTimeout(p) PROVE IInv'
  <2>1. /\ tasks' \in Seq(Task) /\ Len(tasks') = Len(tasks)
        /\ main'.batch \in Seq(Task) /\ Len(main'.batch) = Len(main.batch)
        /\ main'.pc = main.pc
    BY <1>11, ExpireType DEF WaitTimeout, IInv, TypeOK
  <2>2. main' \in [pc : {"loop", "epoll", "pop", "next", "call", "start", "noop", "get", "hung",
                         "exited"},
                   batch : Seq(Task)]
    BY <1>11, <2>1 DEF WaitTimeout, IInv, TypeOK
  <2>3. /\ waiting' \in [Poster -> BOOLEAN]
        /\ worker' \in [pc : {"ready", "waiting", "handling", "posted"}, event : CooperateEvent]
        /\ worker'.pc = "waiting" => worker.pc = "waiting"
    BY <1>11 DEF WaitTimeout, IInv, TypeOK
  <2>4. TypeOK'
    BY <1>11, <2>1, <2>2, <2>3 DEF WaitTimeout, IInv, TypeOK
  <2>5. main.batch # <<>> => main'.batch # <<>>
    <3>1. main.batch \in Seq(Task)
      BY DEF IInv, TypeOK
    <3> QED BY <2>1, <3>1, EmptySeq
  <2> QED BY <1>11, <2>1, <2>3, <2>4, <2>5
             DEF WaitTimeout, IInv, NoLostWakeup, Records, InTask
<1>12. ASSUME NEW e \in {"OTHER", "TIMED"}, OtherSend(e) PROVE IInv'
  <2>1. /\ channel' \in Seq(CooperateEvent) /\ Len(channel') <= QueueCapacity
        /\ worker' \in [pc : {"ready", "waiting", "handling", "posted"}, event : CooperateEvent]
        /\ NoLostWakeup'
    BY <1>12, SendType DEF OtherSend, CooperateEvent
  <2>2. TypeOK'
    <3>1. used' \in [calls : 0..MaxCalls, events : 0..MaxEvents]
      <4>1. used.events < MaxEvents /\ used' = [used EXCEPT !.events = @ + 1]
        BY <1>12 DEF OtherSend
      <4> QED BY <4>1, CountersType
    <3> QED BY <1>12, <2>1, <3>1 DEF OtherSend, IInv, TypeOK
  <2> QED BY <1>12, <2>1, <2>2 DEF OtherSend, IInv, Records, InTask
<1>13. ASSUME NEW c \in Caller, NEW does \in {"call", "start"}, Call(c, does) PROVE IInv'
  <2>1. /\ tasks' \in Seq(Task) /\ Len(tasks') <= TasksLimit + 1
        /\ pipe' \in 0..PipeCapacity
        /\ waiting' \in [Poster -> BOOLEAN]
        /\ Len(tasks') - pipe' = Len(tasks) - pipe
    BY <1>13, PostSyncTaskType DEF Call, Poster
  <2>2. TypeOK'
    <3>1. used' \in [calls : 0..MaxCalls, events : 0..MaxEvents]
      <4>1. used.calls < MaxCalls /\ used' = [used EXCEPT !.calls = @ + 1]
        BY <1>13 DEF Call
      <4> QED BY <4>1, CountersType
    <3> QED BY <1>13, <2>1, <3>1 DEF Call, IInv, TypeOK
  <2>3. Len(tasks') <= Records'
    BY <1>13, <2>1 DEF Call, IInv, TypeOK, Records
  <2> QED BY <1>13, <2>2, <2>3 DEF Call, IInv, NoLostWakeup, InTask
<1>14. CASE OnStop
  <2>1. /\ tasks' \in Seq(Task) /\ Len(tasks') <= TasksLimit + 1
        /\ pipe' \in 0..PipeCapacity
        /\ Len(tasks') - pipe' = Len(tasks) - pipe
    <3>1. Len(tasks) \in Nat /\ pipe \in Nat
      BY DEF IInv, TypeOK
    <3>2. CASE PostTask(Stopper, "noop")
      BY <3>1, <3>2, PostTaskType
    <3>3. CASE PostTaskFails /\ UNCHANGED <<tasks, pipe>>
      BY <3>3 DEF IInv, TypeOK
    <3> QED BY <1>14, <3>2, <3>3 DEF OnStop
  <2>2. TypeOK'
    BY <1>14, <2>1 DEF OnStop, IInv, TypeOK
  <2>3. Len(tasks') <= Records'
    BY <1>14, <2>1 DEF OnStop, IInv, TypeOK, Records
  <2> QED BY <1>14, <2>2, <2>3 DEF OnStop, IInv, NoLostWakeup, InTask
<1> QED BY <1>0, <1>1, <1>2, <1>3, <1>4, <1>5, <1>6, <1>7, <1>8, <1>9, <1>10, <1>11, <1>12,
           <1>13, <1>14 DEF Next, Main

\* The inductive invariant is an invariant of the specification.
THEOREM Invariance == Spec => []IInv
BY InitIInv, NextIInv, PTL DEF Spec

\* The queues stay within their limits (a pending task queue never exceeds
\* PENDING_TASKS_LIMIT, the Channel its capacity), and every thread is in a
\* place of its code, for any number of threads and any limits.
THEOREM TypeCorrect == Spec => []TypeOK
<1>1. IInv => TypeOK
  BY DEF IInv
<1> QED BY <1>1, Invariance, PTL

\* Channel::Send wakes the worker often enough: with any number of threads and
\* any capacity it never sleeps while an event is queued.
THEOREM NoLostWakeupHolds == Spec => []NoLostWakeup
<1>1. IInv => NoLostWakeup
  BY DEF IInv
<1> QED BY <1>1, Invariance, PTL

\* DelegateTasks writes and reads its pipe often enough: with any limits no
\* task stays in the queue without a record to wake the service thread.
THEOREM NoStrandedTaskHolds == Spec => []NoStrandedTask
<1>1. IInv => NoStrandedTask
  <2> SUFFICES ASSUME IInv, tasks # <<>>, main.pc # "pop" PROVE pipe > 0
    BY DEF NoStrandedTask
  <2>1. Len(tasks) \in Nat /\ Len(tasks) # 0
    BY EmptySeq DEF IInv, TypeOK
  <2> QED BY <2>1, LimitAssumption DEF IInv, TypeOK, Records
<1> QED BY <1>1, Invariance, PTL
-----------------------------------------------------------------------------
(* AnswersMatch.  Seen from a poster, the tasks of the batch and of the    *)
(* queue are one sequence: it only grows at its end and shrinks at its     *)
(* front, and moving a batch out of the queue does not change it.          *)

\* t is a task of p, and p still waits for it.
Live(t, p) == t.by = p /\ ~t.expired

\* AnswersMatch for one poster, element by element.
Match(q, w, p) ==
    /\ w => \E i \in 1..Len(q) : Live(q[i], p)
    /\ ~w => \A i \in 1..Len(q) : ~Live(q[i], p)
    /\ \A i, j \in 1..Len(q) : Live(q[i], p) /\ Live(q[j], p) => i = j

AInv ==
    /\ \A p \in Poster : Match(Pending, waiting[p], p)
    /\ waiting[Worker] => worker.pc = "posted"
    /\ main.pc \in {"loop", "epoll", "pop", "exited"} => main.batch = <<>>

\* A poster that does not wait posts a task and waits for it; the others are
\* not concerned.
LEMMA AppendMatch ==
    ASSUME NEW q \in Seq(Task), NEW t \in Task, NEW p, NEW w \in BOOLEAN, NEW v \in BOOLEAN,
           Match(q, w, p),
           Live(t, p) => ~w /\ v,
           ~Live(t, p) => v = w
    PROVE  Match(Append(q, t), v, p)
<1> DEFINE r == Append(q, t)
<1>1. /\ Len(q) \in Nat /\ Len(r) = Len(q) + 1
      /\ \A i \in 1..Len(q) : r[i] = q[i]
      /\ r[Len(q) + 1] = t
  OBVIOUS
<1> HIDE DEF r
<1>2. \A i \in 1..Len(r) : i \in 1..Len(q) \/ i = Len(q) + 1
  BY <1>1
<1>3. \A i \in 1..Len(q) : i \in 1..Len(r)
  BY <1>1
<1>4. Len(q) + 1 \in 1..Len(r)
  BY <1>1
<1>5. Match(r, v, p)
  BY <1>1, <1>2, <1>3, <1>4 DEF Match
<1> QED BY <1>5 DEF r

\* The first task is done: its poster, if it still waits, waits no more.
LEMMA TailMatch ==
    ASSUME NEW q \in Seq(Task), q # <<>>, NEW p, NEW w \in BOOLEAN, NEW v \in BOOLEAN,
           Match(q, w, p),
           Live(Head(q), p) => ~v,
           ~Live(Head(q), p) => v = w
    PROVE  Match(Tail(q), v, p)
<1> DEFINE r == Tail(q)
<1>1. /\ Len(q) \in Nat \ {0} /\ Len(r) = Len(q) - 1
      /\ \A i \in 1..Len(r) : r[i] = q[i + 1]
      /\ Head(q) = q[1]
  BY HeadTailProperties, EmptySeq
<1> HIDE DEF r
<1>2. \A i \in 1..Len(r) : i + 1 \in 1..Len(q) /\ i + 1 # 1
  BY <1>1
<1>3. \A i \in 1..Len(q) : i = 1 \/ (i - 1 \in 1..Len(r) /\ (i - 1) + 1 = i)
  BY <1>1
<1>4. 1 \in 1..Len(q)
  BY <1>1
<1>5. v => \E i \in 1..Len(r) : Live(r[i], p)
  <2> SUFFICES ASSUME v PROVE \E i \in 1..Len(r) : Live(r[i], p)
    OBVIOUS
  <2>1. ~Live(q[1], p) /\ w
    BY <1>1
  <2>2. PICK i \in 1..Len(q) : Live(q[i], p)
    BY <2>1 DEF Match
  <2>3. i - 1 \in 1..Len(r) /\ r[i - 1] = q[i]
    BY <1>1, <1>3, <2>1, <2>2
  <2> QED BY <2>2, <2>3
<1>6. ~v => \A i \in 1..Len(r) : ~Live(r[i], p)
  <2> SUFFICES ASSUME ~v, NEW i \in 1..Len(r), Live(r[i], p) PROVE FALSE
    OBVIOUS
  <2>1. Live(q[i + 1], p) /\ i + 1 \in 1..Len(q) /\ i + 1 # 1
    BY <1>1, <1>2
  <2>2. CASE Live(q[1], p)
    BY <1>4, <2>1, <2>2 DEF Match
  <2>3. CASE ~Live(q[1], p)
    BY <1>1, <2>1, <2>3 DEF Match
  <2> QED BY <2>2, <2>3
<1>7. \A i, j \in 1..Len(r) : Live(r[i], p) /\ Live(r[j], p) => i = j
  <2> SUFFICES ASSUME NEW i \in 1..Len(r), NEW j \in 1..Len(r), Live(r[i], p), Live(r[j], p)
               PROVE  i = j
    OBVIOUS
  <2>1. i + 1 = j + 1
    BY <1>1, <1>2 DEF Match
  <2> QED BY <2>1
<1>8. Match(r, v, p)
  BY <1>5, <1>6, <1>7 DEF Match
<1> QED BY <1>8 DEF r

\* What Expire does to one task.
LEMMA ExpireElement ==
    ASSUME NEW q \in Seq(Task), NEW p0, NEW p, NEW i \in 1..Len(q)
    PROVE  Live(Expire(q, p0)[i], p) <=> Live(q[i], p) /\ p # p0
<1>1. DOMAIN q = 1..Len(q) /\ q[i] \in Task
  OBVIOUS
<1>2. Expire(q, p0)[i] = [q[i] EXCEPT !.expired = @ \/ q[i].by = p0]
  BY <1>1 DEF Expire
<1> DEFINE b == (q[i].expired \/ q[i].by = p0)
<1>3. b \in BOOLEAN
  OBVIOUS
<1>4. Expire(q, p0)[i] = [q[i] EXCEPT !.expired = b]
  BY <1>2
<1>5. b <=> (q[i].expired \/ q[i].by = p0)
  OBVIOUS
<1> HIDE DEF b
<1>6. Expire(q, p0)[i].by = q[i].by /\ Expire(q, p0)[i].expired = b
  BY <1>1, <1>3, <1>4 DEF Task
<1> QED BY <1>5, <1>6 DEF Live

\* A poster that gives up is answered by no task; the others are not concerned.
LEMMA ExpireMatch ==
    ASSUME NEW q \in Seq(Task), NEW p0, NEW p, NEW w \in BOOLEAN, NEW v \in BOOLEAN,
           Match(q, w, p),
           p = p0 => ~v,
           p # p0 => v = w
    PROVE  Match(Expire(q, p0), v, p)
<1> DEFINE r == Expire(q, p0)
<1>1. Len(r) = Len(q)
  BY ExpireType
<1>2. \A i \in 1..Len(q) : Live(r[i], p) <=> Live(q[i], p) /\ p # p0
  BY ExpireElement
<1> HIDE DEF r
<1>3. Match(r, v, p)
  BY <1>1, <1>2 DEF Match
<1> QED BY <1>3 DEF r

\* Expire works on the batch and the queue as on the whole.
LEMMA ExpireConcat ==
    ASSUME NEW b \in Seq(Task), NEW q \in Seq(Task), NEW p
    PROVE  Expire(b, p) \o Expire(q, p) = Expire(b \o q, p)
<1> DEFINE l == Expire(b, p) \o Expire(q, p)
           r == Expire(b \o q, p)
<1>1. /\ Expire(b, p) \in Seq(Task) /\ Len(Expire(b, p)) = Len(b)
      /\ Expire(q, p) \in Seq(Task) /\ Len(Expire(q, p)) = Len(q)
  BY ExpireType
<1>2. /\ b \o q \in Seq(Task) /\ Len(b \o q) = Len(b) + Len(q)
      /\ \A i \in 1..Len(b) + Len(q) : (b \o q)[i] = IF i <= Len(b) THEN b[i] ELSE q[i - Len(b)]
  BY ConcatProperties
<1>3. r \in Seq(Task) /\ Len(r) = Len(b) + Len(q)
  BY <1>2, ExpireType
<1>4. l \in Seq(Task) /\ Len(l) = Len(b) + Len(q)
  <2> DEFINE eb == Expire(b, p)
             eq == Expire(q, p)
  <2>0. eb \in Seq(Task) /\ eq \in Seq(Task)
    BY <1>1
  <2>1. Len(eb) = Len(b) /\ Len(eq) = Len(q)
    BY <1>1
  <2> HIDE DEF eb, eq
  <2>2. eb \o eq \in Seq(Task)
    BY <2>0
  <2>3. Len(eb \o eq) = Len(eb) + Len(eq)
    BY <2>0
  <2> QED BY <2>1, <2>2, <2>3 DEF eb, eq
<1>5. ASSUME NEW i \in 1..Len(l) PROVE l[i] = r[i]
  <2>1. i \in 1..Len(b) + Len(q) /\ Len(b) \in Nat /\ Len(q) \in Nat
    BY <1>4
  <2>2. l[i] = IF i <= Len(b) THEN Expire(b, p)[i] ELSE Expire(q, p)[i - Len(b)]
    BY <1>1, <2>1, ConcatProperties
  <2>3. r[i] = [(b \o q)[i] EXCEPT !.expired = @ \/ (b \o q)[i].by = p]
    BY <1>2, <2>1 DEF Expire
  <2>4. CASE i <= Len(b)
    <3>1. Expire(b, p)[i] = [b[i] EXCEPT !.expired = @ \/ b[i].by = p]
      <4>1. i \in DOMAIN b
        BY <2>1, <2>4
      <4> QED BY <4>1 DEF Expire
    <3>2. (b \o q)[i] = b[i]
      BY <1>2, <2>1, <2>4
    <3> QED BY <2>2, <2>3, <2>4, <3>1, <3>2
  <2>5. CASE ~(i <= Len(b))
    <3>0. i - Len(b) \in 1..Len(q)
      BY <2>1, <2>5
    <3>1. Expire(q, p)[i - Len(b)] = [q[i - Len(b)] EXCEPT !.expired = @ \/ q[i - Len(b)].by = p]
      <4>1. i - Len(b) \in DOMAIN q
        BY <3>0
      <4> QED BY <4>1 DEF Expire
    <3>2. (b \o q)[i] = q[i - Len(b)]
      BY <1>2, <2>1, <2>5
    <3> QED BY <2>2, <2>3, <2>5, <3>1, <3>2
  <2> QED BY <2>4, <2>5
<1> HIDE DEF l, r
<1>6. l = r
  BY <1>3, <1>4, <1>5, SeqEqual
<1> QED BY <1>6 DEF l, r

\* The current task is the first of Pending.
LEMMA PendingTail ==
    ASSUME NEW b \in Seq(Task), NEW q \in Seq(Task), b # <<>>
    PROVE  /\ b \o q \in Seq(Task) /\ b \o q # <<>>
           /\ Head(b \o q) = Head(b)
           /\ Tail(b) \o q = Tail(b \o q)
<1> DEFINE c == b \o q
           l == Tail(b) \o q
<1>1. Len(b) \in Nat \ {0} /\ Len(q) \in Nat /\ Head(b) = b[1]
  BY EmptySeq
<1>2. /\ c \in Seq(Task) /\ Len(c) = Len(b) + Len(q)
      /\ \A i \in 1..Len(b) + Len(q) : c[i] = IF i <= Len(b) THEN b[i] ELSE q[i - Len(b)]
  BY ConcatProperties
<1>3. /\ Tail(b) \in Seq(Task) /\ Len(Tail(b)) = Len(b) - 1
      /\ \A i \in 1..Len(Tail(b)) : Tail(b)[i] = b[i + 1]
  BY HeadTailProperties
<1>4. /\ l \in Seq(Task) /\ Len(l) = Len(Tail(b)) + Len(q)
      /\ \A i \in 1..Len(Tail(b)) + Len(q) :
            l[i] = IF i <= Len(Tail(b)) THEN Tail(b)[i] ELSE q[i - Len(Tail(b))]
  BY <1>3, ConcatProperties
<1> HIDE DEF c, l
<1>5. c # <<>> /\ Head(c) = c[1] /\ c[1] = b[1]
  BY <1>1, <1>2
<1>6. /\ Tail(c) \in Seq(Task) /\ Len(Tail(c)) = Len(c) - 1
      /\ \A i \in 1..Len(Tail(c)) : Tail(c)[i] = c[i + 1]
  BY <1>2, <1>5, HeadTailProperties
<1>7. ASSUME NEW i \in 1..Len(l) PROVE l[i] = Tail(c)[i]
  <2>1. i \in 1..Len(Tail(c)) /\ i + 1 \in 1..Len(b) + Len(q) /\ i \in 1..Len(Tail(b)) + Len(q)
    BY <1>1, <1>2, <1>3, <1>4, <1>6
  <2>2. CASE i <= Len(b) - 1
    BY <1>1, <1>2, <1>3, <1>4, <1>6, <2>1, <2>2
  <2>3. CASE ~(i <= Len(b) - 1)
    BY <1>1, <1>2, <1>3, <1>4, <1>6, <2>1, <2>3
  <2> QED BY <2>2, <2>3
<1>8. l = Tail(c)
  BY <1>1, <1>2, <1>3, <1>4, <1>6, <1>7, SeqEqual
<1> QED BY <1>1, <1>2, <1>5, <1>8 DEF c, l

\* Pending is a sequence of tasks.
LEMMA PendingType == ASSUME IInv PROVE Pending \in Seq(Task)
<1> DEFINE b == main.batch
<1>1. b \in Seq(Task) /\ tasks \in Seq(Task)
  BY DEF IInv, TypeOK
<1> HIDE DEF b
<1>2. b \o tasks \in Seq(Task)
  BY <1>1
<1> QED BY <1>2 DEF Pending, b

\* Posting appends to Pending.
LEMMA PostAppends ==
    ASSUME IInv, main'.batch = main.batch,
           NEW p \in Poster \cup {Stopper}, NEW does \in {"call", "start", "noop"},
           PostTask(p, does)
    PROVE  \E t \in Task : /\ t.by = p /\ t.expired = FALSE
                           /\ Pending' = Append(Pending, t) /\ Pending \in Seq(Task)
<1> DEFINE t == [by |-> p, does |-> does, expired |-> FALSE]
<1>1. t \in Task /\ t.by = p /\ t.expired = FALSE
  BY DEF Task
<1> HIDE DEF t
<1>2. main.batch \in Seq(Task) /\ tasks \in Seq(Task) /\ tasks' = Append(tasks, t)
  BY DEF PostTask, t, IInv, TypeOK
<1>3. main.batch \o Append(tasks, t) = Append(main.batch \o tasks, t)
  <2> DEFINE b == main.batch
  <2>1. b \in Seq(Task)
    BY <1>2
  <2> HIDE DEF b
  <2>2. /\ Append(tasks, t) = tasks \o <<t>> /\ <<t>> \in Seq(Task)
        /\ b \o tasks \in Seq(Task)
        /\ Append(b \o tasks, t) = (b \o tasks) \o <<t>>
    BY <1>1, <1>2, <2>1, AppendIsConcat
  <2>3. (b \o tasks) \o <<t>> = b \o (tasks \o <<t>>)
    BY <1>2, <2>1, <2>2, ConcatAssociative
  <2> QED BY <2>2, <2>3 DEF b
<1>4. Pending' = Append(Pending, t) /\ Pending \in Seq(Task)
  BY <1>2, <1>3 DEF Pending
<1> QED BY <1>1, <1>4

\* Moving a batch out of the queue leaves Pending as it is.
LEMMA PopKeepsPending ==
    ASSUME IInv, AInv, PopPendingTaskList
    PROVE  Pending' = Pending
<1> DEFINE n == IF Len(tasks) < BatchLimit THEN Len(tasks) ELSE BatchLimit
<1>1. tasks \in Seq(Task) /\ Len(tasks) \in Nat /\ n \in 0..Len(tasks)
  BY LimitAssumption DEF IInv, TypeOK
<1> HIDE DEF n
<1>2. /\ main' = [pc |-> "next", batch |-> SubSeq(tasks, 1, n)]
      /\ tasks' = SubSeq(tasks, n + 1, Len(tasks))
      /\ main.pc = "pop"
  BY DEF PopPendingTaskList, n
<1>3. Pending = tasks
  <2>1. main.batch = <<>>
    BY <1>2 DEF AInv
  <2> QED BY <1>1, <2>1, ConcatEmptySeq DEF Pending
<1>4. SubSeq(tasks, 1, n) \o SubSeq(tasks, n + 1, Len(tasks)) = tasks
  <2>1. SubSeq(tasks, 1, Len(tasks)) = tasks
    BY <1>1, SubSeqFull
  <2>2. SubSeq(tasks, 1, n) \o SubSeq(tasks, n + 1, Len(tasks)) = SubSeq(tasks, 1, Len(tasks))
    <3>1. 1 \in 1..Len(tasks) + 1 /\ n \in (1 - 1)..Len(tasks) /\ Len(tasks) \in n..Len(tasks)
      BY <1>1
    <3> QED BY <1>1, <3>1, ConcatAdjacentSubSeq
  <2> QED BY <2>1, <2>2
<1>5. Pending' = tasks
  BY <1>2, <1>4 DEF Pending
<1> QED BY <1>3, <1>5

\* A poster that gives up expires its tasks, in the batch and in the queue.
LEMMA TimeoutExpires ==
    ASSUME IInv, NEW p \in Poster, WaitTimeout(p)
    PROVE  Pending' = Expire(Pending, p)
<1>1. /\ main.batch \in Seq(Task) /\ tasks \in Seq(Task)
      /\ main'.batch = Expire(main.batch, p) /\ tasks' = Expire(tasks, p)
  BY DEF WaitTimeout, IInv, TypeOK
<1>2. Expire(main.batch, p) \o Expire(tasks, p) = Expire(main.batch \o tasks, p)
  BY <1>1, ExpireConcat
<1>3. Pending' = main'.batch \o tasks'
  BY DEF Pending
<1>4. Pending' = Expire(main.batch, p) \o Expire(tasks, p)
  BY <1>1, <1>3
<1> QED BY <1>2, <1>4 DEF Pending

\* What becomes of Pending when the service thread is done with the first task.
LEMMA DoneTail ==
    ASSUME IInv, main.batch # <<>>, main'.batch = Tail(main.batch), tasks' = tasks
    PROVE  /\ Pending \in Seq(Task) /\ Pending # <<>> /\ Head(Pending) = Head(main.batch)
           /\ Pending' = Tail(Pending)
<1> DEFINE b == main.batch
<1>1. b \in Seq(Task) /\ tasks \in Seq(Task) /\ b # <<>> /\ main'.batch = Tail(b)
  BY DEF IInv, TypeOK
<1>2. Pending = b \o tasks /\ Pending' = Tail(b) \o tasks
  BY <1>1 DEF Pending
<1> HIDE DEF b
<1>3. Pending \in Seq(Task) /\ Pending # <<>> /\ Head(Pending) = Head(b) /\ Pending' = Tail(Pending)
  BY <1>1, <1>2, PendingTail
<1> QED BY <1>3 DEF b

\* PostSyncTask keeps the answers matched for a poster that was not waiting.
LEMMA PostMatch ==
    ASSUME IInv, AInv, main'.batch = main.batch,
           NEW p \in Poster \cup {Stopper}, NEW does \in {"call", "start", "noop"},
           PostTask(p, does),
           p \in Poster => ~waiting[p],
           waiting' \in [Poster -> BOOLEAN],
           p \in Poster => waiting'[p],
           \A r \in Poster : r # p => waiting'[r] = waiting[r]
    PROVE  \A r \in Poster : Match(Pending', waiting'[r], r)
<1>1. PICK t \in Task : t.by = p /\ t.expired = FALSE /\ Pending' = Append(Pending, t) /\ Pending \in Seq(Task)
  BY PostAppends
<1>2. \A r : Live(t, r) <=> r = p
  BY <1>1 DEF Live
<1> SUFFICES ASSUME NEW r \in Poster PROVE Match(Pending', waiting'[r], r)
  OBVIOUS
<1>5. Match(Pending, waiting[r], r) /\ waiting[r] \in BOOLEAN /\ waiting'[r] \in BOOLEAN
  BY DEF AInv, IInv, TypeOK
<1>6. CASE r = p
  BY <1>1, <1>2, <1>5, <1>6, AppendMatch
<1>7. CASE r # p
  BY <1>1, <1>2, <1>5, <1>7, AppendMatch
<1> QED BY <1>6, <1>7

\* Matched answers hold initially.
LEMMA InitAInv == Init => AInv
<1> SUFFICES ASSUME Init PROVE AInv
  OBVIOUS
<1>1. Pending = <<>>
  BY DEF Init, Pending
<1>2. \A p \in Poster : waiting[p] = FALSE
  BY DEF Init
<1>3. \A p \in Poster : Match(Pending, waiting[p], p)
  BY <1>1, <1>2 DEF Match
<1>4. Worker \in Poster /\ main.batch = <<>>
  BY DEF Init, Poster
<1> QED BY <1>2, <1>3, <1>4 DEF AInv

\* Matched answers are kept by every step.
LEMMA NextAInv == IInv /\ AInv /\ [Next]_vars => AInv'
<1> SUFFICES ASSUME IInv, AInv, [Next]_vars PROVE AInv'
  OBVIOUS
<1>0. ASSUME UNCHANGED <<tasks, waiting>>, main'.batch = main.batch,
             worker'.pc = worker.pc \/ worker.pc # "posted",
             main'.pc \in {"loop", "epoll", "pop", "exited"} => main'.batch = <<>>
      PROVE  AInv'
  BY <1>0 DEF AInv, Pending
<1>1. CASE UNCHANGED vars
  BY <1>1 DEF vars, AInv, Pending
<1>2. CASE EpollWait
  BY <1>0, <1>2 DEF EpollWait, AInv, IInv, TypeOK
<1>3. CASE OnDelegateTask
  BY <1>0, <1>3 DEF OnDelegateTask, AInv, IInv, TypeOK
<1>4. CASE PopPendingTaskList
  <2>1. main'.pc = "next" /\ UNCHANGED <<waiting, worker>>
    BY <1>4 DEF PopPendingTaskList
  <2> QED BY <1>4, <2>1, PopKeepsPending DEF AInv
<1>5. CASE ProcessTask
  <2>1. CASE main.batch = <<>>
    BY <1>0, <1>5, <2>1 DEF ProcessTask, AInv, IInv, TypeOK
  <2>2. CASE main.batch # <<>> /\ ~Head(main.batch).expired
    <3>1. Head(main.batch).does \in {"call", "start", "noop"}
      <4>1. Head(main.batch) \in Task
        BY <2>2 DEF IInv, TypeOK
      <4> QED BY <4>1 DEF Task
    <3> QED BY <1>0, <1>5, <2>2, <3>1 DEF ProcessTask, AInv, IInv, TypeOK
  <2>3. CASE main.batch # <<>> /\ Head(main.batch).expired
    <3>1. main'.batch = Tail(main.batch) /\ main'.pc = "next" /\ UNCHANGED <<tasks, waiting, worker>>
      BY <1>5, <2>3 DEF ProcessTask, IInv, TypeOK
    <3>2. Pending \in Seq(Task) /\ Pending # <<>> /\ Head(Pending) = Head(main.batch) /\ Pending' = Tail(Pending)
      BY <2>3, <3>1, DoneTail
    <3>3. \A p : ~Live(Head(Pending), p)
      BY <2>3, <3>2 DEF Live
    <3>4. ASSUME NEW p \in Poster PROVE Match(Pending', waiting'[p], p)
      <4>1. Match(Pending, waiting[p], p) /\ waiting[p] \in BOOLEAN /\ waiting'[p] = waiting[p]
        BY <3>1 DEF AInv, IInv, TypeOK
      <4> QED BY <3>2, <3>3, <4>1, TailMatch
    <3> QED BY <3>1, <3>4 DEF AInv
  <2> QED BY <2>1, <2>2, <2>3
<1>6. CASE CooperateStart
  <2>1. main'.batch = main.batch /\ main'.pc \in {"get", "hung"} /\ UNCHANGED <<tasks, waiting>>
    BY <1>6 DEF CooperateStart, IInv, TypeOK
  <2>2. worker'.pc = worker.pc \/ worker.pc # "posted"
    BY <1>6 DEF CooperateStart, Send, IInv, TypeOK
  <2> QED BY <1>0, <2>1, <2>2
<1>7. CASE CooperateStarted
  BY <1>0, <1>7 DEF CooperateStarted, AInv, IInv, TypeOK
<1>8. CASE SetValue
  <2>1. main.batch # <<>> /\ main'.batch = Tail(main.batch) /\ main'.pc = "next" /\ tasks' = tasks
    BY <1>8 DEF SetValue, IInv, TypeOK, InTask
  <2>2. Pending \in Seq(Task) /\ Pending # <<>> /\ Head(Pending) = Head(main.batch) /\ Pending' = Tail(Pending)
    BY <2>1, DoneTail DEF IInv
  <2>3. waiting'[Worker] => worker'.pc = "posted"
    BY <1>8 DEF SetValue, AInv, IInv, TypeOK, Poster
  <2>4. ASSUME NEW p \in Poster PROVE Match(Pending', waiting'[p], p)
    <3>1. Match(Pending, waiting[p], p) /\ waiting[p] \in BOOLEAN /\ waiting'[p] \in BOOLEAN
      BY <1>8 DEF SetValue, AInv, IInv, TypeOK
    <3>2. /\ Live(Head(main.batch), p) => ~waiting'[p]
          /\ ~Live(Head(main.batch), p) => waiting'[p] = waiting[p]
      BY <1>8 DEF SetValue, Live, IInv, TypeOK
    <3>3. Match(Tail(Pending), waiting'[p], p)
      BY <2>2, <3>1, <3>2, TailMatch
    <3> QED BY <2>2, <3>3
  <2> QED BY <2>1, <2>3, <2>4 DEF AInv
<1>9. CASE Receive
  BY <1>0, <1>9 DEF Receive, AInv, IInv, TypeOK
<1>10. CASE SpuriousWakeup
  BY <1>0, <1>10 DEF SpuriousWakeup, AInv, IInv, TypeOK
<1>11. CASE Handle
  <2>0. worker.pc = "handling" /\ UNCHANGED main /\ Worker \in Poster /\ ~waiting[Worker]
    BY <1>11 DEF Handle, AInv, Poster
  <2>1. CASE UNCHANGED <<tasks, waiting>>
    BY <1>0, <2>0, <2>1 DEF AInv
  <2>2. CASE ~UNCHANGED <<tasks, waiting>>
    <3>1. PostTask(Worker, "call") /\ waiting' = [waiting EXCEPT ![Worker] = TRUE]
      BY <1>11, <2>2 DEF Handle, PostSyncTask
    <3>2. waiting'[Worker]
      BY <2>0, <3>1 DEF IInv, TypeOK
    <3>3. worker'.pc = "posted"
      <4>1. worker.event = "TIMED"
        BY <1>11, <2>2 DEF Handle
      <4> QED BY <1>11, <3>2, <4>1 DEF Handle, IInv, TypeOK
    <3>4. /\ waiting' \in [Poster -> BOOLEAN]
          /\ \A r \in Poster : r # Worker => waiting'[r] = waiting[r]
      BY <2>0, <3>1 DEF IInv, TypeOK
    <3>5. \A r \in Poster : Match(Pending', waiting'[r], r)
      BY <2>0, <3>1, <3>2, <3>4, PostMatch
    <3> QED BY <2>0, <3>3, <3>5 DEF AInv
  <2> QED BY <2>1, <2>2
<1>12. ASSUME NEW p \in Poster, WaitTimeout(p) PROVE AInv'
  <2>1. /\ main.batch \in Seq(Task) /\ tasks \in Seq(Task)
        /\ main'.batch = Expire(main.batch, p) /\ tasks' = Expire(tasks, p)
        /\ main'.pc = main.pc
    BY <1>12 DEF WaitTimeout, IInv, TypeOK
  <2>2. Pending' = Expire(Pending, p) /\ Pending \in Seq(Task)
    BY <1>12, TimeoutExpires, PendingType
  <2>3. ASSUME NEW r \in Poster PROVE Match(Pending', waiting'[r], r)
    <3>1. Match(Pending, waiting[r], r) /\ waiting[r] \in BOOLEAN /\ waiting'[r] \in BOOLEAN
      BY <1>12 DEF WaitTimeout, AInv, IInv, TypeOK
    <3>2. (r = p => ~waiting'[r]) /\ (r # p => waiting'[r] = waiting[r])
      BY <1>12 DEF WaitTimeout, IInv, TypeOK
    <3>3. Match(Expire(Pending, p), waiting'[r], r)
      BY <2>2, <3>1, <3>2, ExpireMatch
    <3> QED BY <2>2, <3>3
  <2>4. waiting'[Worker] => worker'.pc = "posted"
    BY <1>12 DEF WaitTimeout, AInv, IInv, TypeOK, Poster
  <2>5. main.batch = <<>> => main'.batch = <<>>
    BY <2>1, ExpireType, EmptySeq
  <2> QED BY <2>1, <2>3, <2>4, <2>5 DEF AInv
<1>13. ASSUME NEW e \in {"OTHER", "TIMED"}, OtherSend(e) PROVE AInv'
  <2>1. worker'.pc = worker.pc \/ worker.pc # "posted"
    BY <1>13 DEF OtherSend, Send, IInv, TypeOK
  <2> QED BY <1>0, <1>13, <2>1 DEF OtherSend, AInv
<1>14. ASSUME NEW c \in Caller, NEW does \in {"call", "start"}, Call(c, does) PROVE AInv'
  <2>0. UNCHANGED <<main, worker>> /\ c \in Poster /\ ~waiting[c] /\ c # Worker
    BY <1>14, ThreadAssumption DEF Call, Poster
  <2>1. CASE UNCHANGED <<tasks, waiting>>
    BY <1>0, <2>0, <2>1 DEF AInv
  <2>2. CASE ~UNCHANGED <<tasks, waiting>>
    <3>1. PostTask(c, does) /\ waiting' = [waiting EXCEPT ![c] = TRUE]
      BY <1>14, <2>2 DEF Call, PostSyncTask
    <3>2. /\ waiting' \in [Poster -> BOOLEAN] /\ waiting'[c]
          /\ \A r \in Poster : r # c => waiting'[r] = waiting[r]
      BY <2>0, <3>1 DEF IInv, TypeOK
    <3>3. \A r \in Poster : Match(Pending', waiting'[r], r)
      BY <2>0, <3>1, <3>2, PostMatch
    <3>4. waiting'[Worker] = waiting[Worker]
      BY <2>0, <3>2 DEF Poster
    <3> QED BY <2>0, <3>3, <3>4 DEF AInv
  <2> QED BY <2>1, <2>2
<1>15. CASE OnStop
  <2>0. UNCHANGED <<main, waiting, worker>> /\ Stopper \notin Poster /\ waiting' \in [Poster -> BOOLEAN]
    BY <1>15, ThreadAssumption DEF OnStop, Poster, IInv, TypeOK
  <2>1. CASE PostTask(Stopper, "noop")
    <3>1. \A r \in Poster : Match(Pending', waiting'[r], r)
      BY <2>0, <2>1, PostMatch
    <3> QED BY <2>0, <3>1 DEF AInv
  <2>2. CASE UNCHANGED <<tasks, pipe>>
    BY <1>0, <2>0, <2>2 DEF AInv
  <2> QED BY <1>15, <2>1, <2>2 DEF OnStop
<1> QED BY <1>1, <1>2, <1>3, <1>4, <1>5, <1>6, <1>7, <1>8, <1>9, <1>10, <1>11, <1>12, <1>13,
           <1>14, <1>15 DEF Next, Main

\* PostSyncTask never takes the result of an earlier, expired task for that of
\* the task it waits for, and no task it gave up on is answered: for any number
\* of threads, any limits and any interleaving of timeouts and results.
THEOREM AnswersMatchHolds == Spec => []AnswersMatch
<1>1. IInv /\ AInv => AnswersMatch
  <2> SUFFICES ASSUME IInv, AInv, NEW p \in Poster
               PROVE  IF waiting[p] THEN \E i \in DOMAIN Pending : Awaited(p) = {i}
                                    ELSE Awaited(p) = {}
    BY DEF AnswersMatch
  <2>1. Match(Pending, waiting[p], p)
    BY DEF AInv
  <2>2. Pending \in Seq(Task)
    BY PendingType
  <2>3. DOMAIN Pending = 1..Len(Pending)
    BY <2>2
  <2>4. Awaited(p) = {i \in 1..Len(Pending) : Live(Pending[i], p)}
    BY <2>3 DEF Awaited, Live
  <2>5. CASE waiting[p]
    <3>1. PICK i \in 1..Len(Pending) : Live(Pending[i], p)
      BY <2>1, <2>5 DEF Match
    <3>2. Awaited(p) = {i}
      BY <2>1, <2>4, <3>1 DEF Match
    <3> QED BY <2>3, <2>5, <3>2
  <2>6. CASE ~waiting[p]
    BY <2>1, <2>4, <2>6 DEF Match
  <2> QED BY <2>5, <2>6
<1> QED BY <1>1, Invariance, InitAInv, NextAInv, PTL DEF Spec
-----------------------------------------------------------------------------
(* StartAnsweredOnce and StopWakes.                                        *)

NoStart(q) == \A i \in 1..Len(q) : q[i] # "START"
OneStart(q) == \E i \in 1..Len(q) : q[i] = "START" /\ \A j \in 1..Len(q) : q[j] = "START" => j = i

\* The worker has a START in its hands.
Taken == worker.pc = "handling" /\ worker.event = "START"

\* The service thread waits for a promise that has no value yet.
Unanswered == main.pc = "get" /\ ~started

\* StartAnsweredOnce, element by element.
SInv ==
    IF Unanswered THEN IF Taken THEN NoStart(channel) ELSE OneStart(channel)
    ELSE ~Taken /\ NoStart(channel)

\* What an event at the end of the queue changes.
LEMMA AppendStart ==
    ASSUME NEW q \in Seq(CooperateEvent), NEW e \in CooperateEvent
    PROVE  /\ e # "START" /\ NoStart(q) => NoStart(Append(q, e))
           /\ e # "START" /\ OneStart(q) => OneStart(Append(q, e))
           /\ e = "START" /\ NoStart(q) => OneStart(Append(q, e))
<1>1. /\ Len(q) \in Nat /\ Len(Append(q, e)) = Len(q) + 1 /\ Append(q, e)[Len(q) + 1] = e
      /\ \A i \in 1..Len(q) : Append(q, e)[i] = q[i]
  OBVIOUS
<1>2. \A i \in 1..(Len(q) + 1) : i \in 1..Len(q) \/ i = Len(q) + 1
  BY <1>1
<1>3. 1..Len(q) \subseteq 1..(Len(q) + 1) /\ Len(q) + 1 \in 1..(Len(q) + 1)
  BY <1>1
<1> DEFINE r == Append(q, e)
<1> HIDE DEF r
<1>4. ASSUME e # "START", NoStart(q) PROVE NoStart(r)
  BY <1>1, <1>2, <1>4 DEF NoStart, r
<1>5. ASSUME e # "START", OneStart(q) PROVE OneStart(r)
  <2>1. PICK i \in 1..Len(q) : q[i] = "START" /\ \A j \in 1..Len(q) : q[j] = "START" => j = i
    BY <1>5 DEF OneStart
  <2>2. i \in 1..Len(r) /\ r[i] = "START"
    BY <1>1, <1>3, <2>1 DEF r
  <2>3. \A j \in 1..Len(r) : r[j] = "START" => j = i
    BY <1>1, <1>2, <1>5, <2>1 DEF r
  <2> QED BY <2>2, <2>3 DEF OneStart
<1>6. ASSUME e = "START", NoStart(q) PROVE OneStart(r)
  <2>1. Len(q) + 1 \in 1..Len(r) /\ r[Len(q) + 1] = "START"
    BY <1>1, <1>3, <1>6 DEF r
  <2>2. \A j \in 1..Len(r) : r[j] = "START" => j = Len(q) + 1
    BY <1>1, <1>2, <1>6 DEF r, NoStart
  <2> QED BY <2>1, <2>2 DEF OneStart
<1> QED BY <1>4, <1>5, <1>6 DEF r

\* What taking the first event changes.
LEMMA TailStart ==
    ASSUME NEW q \in Seq(CooperateEvent), q # <<>>
    PROVE  /\ NoStart(q) => Head(q) # "START" /\ NoStart(Tail(q))
           /\ OneStart(q) /\ Head(q) = "START" => NoStart(Tail(q))
           /\ OneStart(q) /\ Head(q) # "START" => OneStart(Tail(q))
<1> DEFINE r == Tail(q)
<1>1. /\ Len(q) \in Nat \ {0} /\ Len(r) = Len(q) - 1 /\ Head(q) = q[1] /\ 1 \in 1..Len(q)
      /\ \A i \in 1..Len(r) : r[i] = q[i + 1]
  BY EmptySeq, HeadTailProperties
<1>2. \A i \in 1..Len(r) : i \in Nat /\ i + 1 \in 1..Len(q) /\ i + 1 # 1
  BY <1>1
<1> HIDE DEF r
<1>3. ASSUME NoStart(q) PROVE Head(q) # "START" /\ NoStart(r)
  BY <1>1, <1>2, <1>3 DEF NoStart
<1>4. ASSUME OneStart(q), Head(q) = "START" PROVE NoStart(r)
  <2>1. \A j \in 1..Len(q) : q[j] = "START" => j = 1
    BY <1>1, <1>4 DEF OneStart
  <2> QED BY <1>1, <1>2, <2>1 DEF NoStart
<1>5. ASSUME OneStart(q), Head(q) # "START" PROVE OneStart(r)
  <2>1. PICK i \in 1..Len(q) : q[i] = "START" /\ \A j \in 1..Len(q) : q[j] = "START" => j = i
    BY <1>5 DEF OneStart
  <2>2. i - 1 \in 1..Len(r) /\ (i - 1) + 1 = i
    BY <1>1, <1>5, <2>1
  <2>3. r[i - 1] = "START"
    BY <1>1, <2>1, <2>2
  <2>4. ASSUME NEW j \in 1..Len(r), r[j] = "START" PROVE j = i - 1
    <3>1. j + 1 = i
      BY <1>1, <1>2, <2>1, <2>4
    <3> QED BY <1>2, <3>1
  <2> QED BY <2>2, <2>3, <2>4 DEF OneStart
<1> QED BY <1>3, <1>4, <1>5 DEF r

\* An event that is no START, accepted or not, changes nothing for those that
\* are; a START that is accepted is the only one.
LEMMA SendStart ==
    ASSUME IInv, NEW e \in CooperateEvent, Send(e)
    PROVE  /\ Taken' <=> Taken
           /\ e # "START" /\ NoStart(channel) => NoStart(channel')
           /\ e # "START" /\ OneStart(channel) => OneStart(channel')
           /\ e = "START" /\ NoStart(channel) =>
                 IF Len(channel) < QueueCapacity THEN OneStart(channel') ELSE NoStart(channel')
<1>1. channel \in Seq(CooperateEvent) /\ Len(channel) \in Nat /\ QueueCapacity \in Nat
  BY LimitAssumption DEF IInv, TypeOK
<1>2. CASE Len(channel) >= QueueCapacity
  BY <1>1, <1>2 DEF Send, Taken
<1>3. CASE ~(Len(channel) >= QueueCapacity)
  <2>1. channel' = Append(channel, e)
    BY <1>3 DEF Send
  <2>2. worker'.event = worker.event /\ (worker'.pc = "handling" <=> worker.pc = "handling")
    BY <1>3 DEF Send, IInv, TypeOK
  <2> QED BY <1>1, <1>3, <2>1, <2>2, AppendStart DEF Taken
<1> QED BY <1>2, <1>3

\* A step that touches neither the Channel nor the wait nor a START.
LEMMA StartStays ==
    ASSUME SInv, channel' = channel, Taken' <=> Taken, Unanswered' <=> Unanswered
    PROVE  SInv'
BY DEF SInv

\* Only the task the worker is posted for can be answered to the worker.
LEMMA WorkerPosted ==
    ASSUME IInv, AInv, main.batch # <<>>, ~Head(main.batch).expired, Head(main.batch).by = Worker
    PROVE  worker.pc = "posted"
<1>1. main.batch \in Seq(Task) /\ tasks \in Seq(Task) /\ Pending \in Seq(Task) /\ Worker \in Poster
  BY PendingType DEF IInv, TypeOK, Poster
<1> DEFINE b == main.batch
<1>2. b \in Seq(Task) /\ b # <<>> /\ Pending = b \o tasks /\ ~Head(b).expired /\ Head(b).by = Worker
  BY <1>1 DEF Pending
<1> HIDE DEF b
<1>3. Pending # <<>> /\ Head(Pending) = Head(b)
  BY <1>1, <1>2, PendingTail
<1>4. 1 \in 1..Len(Pending) /\ Pending[1] = Head(Pending)
  BY <1>1, <1>3, EmptySeq
<1>5. Live(Pending[1], Worker)
  BY <1>2, <1>3, <1>4 DEF Live
<1>6. Match(Pending, waiting[Worker], Worker)
  BY <1>1 DEF AInv
<1>7. waiting[Worker]
  BY <1>4, <1>5, <1>6 DEF Match
<1> QED BY <1>7 DEF AInv

LEMMA InitSInv == Init => SInv
<1> SUFFICES ASSUME Init PROVE SInv
  OBVIOUS
<1>1. Len(channel) = 0 /\ 1..Len(channel) = {}
  BY DEF Init
<1> QED BY <1>1 DEF Init, SInv, Unanswered, Taken, NoStart

LEMMA NextSInv == IInv /\ AInv /\ SInv /\ [Next]_vars => SInv'
<1> SUFFICES ASSUME IInv, AInv, SInv, [Next]_vars PROVE SInv'
  OBVIOUS
<1>0. ASSUME UNCHANGED <<channel, worker, started>>, main'.pc = main.pc \/ "get" \notin {main.pc, main'.pc}
      PROVE  SInv'
  BY <1>0, StartStays DEF Taken, Unanswered
<1>1. CASE UNCHANGED vars
  BY <1>0, <1>1 DEF vars
<1>2. CASE EpollWait \/ OnDelegateTask
  BY <1>0, <1>2 DEF EpollWait, OnDelegateTask, IInv, TypeOK
<1>3. CASE PopPendingTaskList
  BY <1>0, <1>3 DEF PopPendingTaskList
<1>4. CASE ProcessTask
  <2>1. main.batch # <<>> => Head(main.batch).does \in {"call", "start", "noop"}
    <3>1. main.batch # <<>> => Head(main.batch) \in Task
      BY DEF IInv, TypeOK
    <3> QED BY <3>1 DEF Task
  <2>2. main.pc = "next" /\ main'.pc # "get"
    BY <1>4, <2>1 DEF ProcessTask, IInv, TypeOK
  <2> QED BY <1>0, <1>4, <2>2 DEF ProcessTask
<1>5. CASE CooperateStart
  <2>1. Send("START") /\ "START" \in CooperateEvent /\ ~Taken /\ NoStart(channel)
    BY <1>5 DEF CooperateStart, CooperateEvent, SInv, Unanswered
  <2>2. ~Taken' /\ IF Len(channel) < QueueCapacity THEN OneStart(channel') ELSE NoStart(channel')
    BY <2>1, SendStart
  <2>3. ~started' /\ main'.pc = IF Len(channel) < QueueCapacity THEN "get" ELSE "hung"
    BY <1>5 DEF CooperateStart, IInv, TypeOK
  <2> QED BY <2>2, <2>3 DEF SInv, Unanswered
<1>6. CASE CooperateStarted
  <2>1. UNCHANGED <<channel, worker, started>> /\ started /\ ~Unanswered /\ ~Unanswered'
    BY <1>6 DEF CooperateStarted, Unanswered
  <2> QED BY <2>1, StartStays DEF Taken
<1>7. CASE SetValue
  <2>1. UNCHANGED <<channel, started>> /\ main.pc \in {"call", "noop"} /\ main'.pc = "next"
    BY <1>7 DEF SetValue
  <2>2. main.batch # <<>>
    BY <2>1 DEF IInv, InTask
  <2>3. Taken' <=> Taken
    <3>1. CASE worker' = worker
      BY <3>1 DEF Taken
    <3>2. CASE worker' # worker
      <4>1. ~Head(main.batch).expired /\ Head(main.batch).by = Worker
            /\ worker' = [worker EXCEPT !.pc = "ready"]
        BY <1>7, <3>2 DEF SetValue
      <4>2. worker.pc = "posted" /\ worker'.pc = "ready"
        BY <2>2, <4>1, WorkerPosted DEF IInv, TypeOK
      <4> QED BY <4>2 DEF Taken
    <3> QED BY <3>1, <3>2
  <2> QED BY <2>1, <2>3, StartStays DEF Unanswered
<1>8. CASE Receive
  <2>0. worker.pc = "ready" /\ UNCHANGED <<main, started>> /\ ~Taken /\ (Unanswered' <=> Unanswered)
    BY <1>8 DEF Receive, Taken, Unanswered
  <2>1. CASE channel = <<>>
    <3>1. channel' = channel /\ ~Taken'
      BY <1>8, <2>1 DEF Receive, Taken, IInv, TypeOK
    <3> QED BY <2>0, <3>1, StartStays
  <2>2. CASE channel # <<>>
    <3>1. /\ channel' = Tail(channel) /\ channel \in Seq(CooperateEvent)
          /\ Taken' <=> Head(channel) = "START"
      BY <1>8, <2>2 DEF Receive, Taken, IInv, TypeOK
    <3> QED BY <2>0, <2>2, <3>1, TailStart DEF SInv
  <2> QED BY <2>1, <2>2
<1>9. CASE SpuriousWakeup
  <2>1. UNCHANGED <<channel, main, started>> /\ ~Taken /\ ~Taken'
    BY <1>9 DEF SpuriousWakeup, Taken, IInv, TypeOK
  <2> QED BY <2>1, StartStays DEF Unanswered
<1>10. CASE Handle
  <2>0. worker.pc = "handling" /\ UNCHANGED <<main, channel>>
    BY <1>10 DEF Handle
  <2>1. CASE worker.event = "START"
    <3>1. started' = TRUE /\ worker'.event # "START"
      BY <1>10, <2>1 DEF Handle, IInv, TypeOK
    <3>2. Taken /\ ~Taken' /\ ~Unanswered'
      BY <2>0, <2>1, <3>1 DEF Taken, Unanswered
    <3>3. NoStart(channel')
      BY <2>0, <3>2 DEF SInv
    <3> QED BY <3>2, <3>3 DEF SInv
  <2>2. CASE worker.event # "START"
    <3>1. started' = started /\ worker'.event = worker.event
      BY <1>10, <2>2 DEF Handle, IInv, TypeOK
    <3> QED BY <2>0, <2>2, <3>1, StartStays DEF Taken, Unanswered
  <2> QED BY <2>1, <2>2
<1>11. ASSUME NEW p \in Poster, WaitTimeout(p) PROVE SInv'
  <2>1. UNCHANGED <<channel, started>> /\ main'.pc = main.pc
    BY <1>11 DEF WaitTimeout, IInv, TypeOK
  <2>2. Taken' <=> Taken
    <3>1. CASE p = Worker
      <4>1. worker.pc = "posted" /\ worker'.pc = "ready"
        BY <1>11, <3>1 DEF WaitTimeout, AInv, IInv, TypeOK
      <4> QED BY <4>1 DEF Taken
    <3>2. CASE p # Worker
      BY <1>11, <3>2 DEF WaitTimeout, Taken
    <3> QED BY <3>1, <3>2
  <2> QED BY <2>1, <2>2, StartStays DEF Unanswered
<1>12. ASSUME NEW e \in {"OTHER", "TIMED"}, OtherSend(e) PROVE SInv'
  <2>1. Send(e) /\ e \in CooperateEvent /\ e # "START" /\ UNCHANGED <<main, started>>
    BY <1>12 DEF OtherSend, CooperateEvent
  <2>2. Unanswered' <=> Unanswered
    BY <2>1 DEF Unanswered
  <2> QED BY <2>1, <2>2, SendStart DEF SInv
<1>13. ASSUME NEW c \in Caller, NEW does \in {"call", "start"}, Call(c, does) PROVE SInv'
  BY <1>0, <1>13 DEF Call
<1>14. CASE OnStop
  BY <1>0, <1>14 DEF OnStop
<1> QED BY <1>1, <1>2, <1>3, <1>4, <1>5, <1>6, <1>7, <1>8, <1>9, <1>10, <1>11, <1>12, <1>13,
           <1>14 DEF Next, Main

\* Cooperate::Start waits without a timeout, and never in vain once its event was
\* accepted: whatever else is sent to the Channel, with any capacity and however
\* waits time out, just one START is ahead of the worker until the promise has its
\* value, and none at any other time.
THEOREM StartAnsweredOnceHolds == Spec => []StartAnsweredOnce
<1>1. IInv /\ SInv => StartAnsweredOnce
  <2> SUFFICES ASSUME IInv, SInv PROVE StartAnsweredOnce
    OBVIOUS
  <2> DEFINE ahead == {i \in DOMAIN channel : channel[i] = "START"}
  <2>1. DOMAIN channel = 1..Len(channel)
    BY DEF IInv, TypeOK
  <2>2. NoStart(channel) => ahead = {}
    BY <2>1 DEF NoStart
  <2>3. OneStart(channel) => \E i \in DOMAIN channel : ahead = {i}
    <3> SUFFICES ASSUME OneStart(channel) PROVE \E i \in DOMAIN channel : ahead = {i}
      OBVIOUS
    <3>1. PICK i \in 1..Len(channel) :
             channel[i] = "START" /\ \A j \in 1..Len(channel) : channel[j] = "START" => j = i
      BY DEF OneStart
    <3>2. ahead = {i}
      BY <2>1, <3>1
    <3> QED BY <2>1, <3>1, <3>2
  <2> QED BY <2>2, <2>3 DEF SInv, StartAnsweredOnce, Taken, Unanswered
<1>2. Spec => []AInv
  BY InitAInv, InitIInv, NextAInv, Invariance, PTL DEF Spec
<1> QED BY <1>1, <1>2, InitSInv, NextSInv, Invariance, PTL DEF Spec

\* OnStop does not look at the result of PostAsyncTask.  It need not: the post is
\* refused only when the queue or the pipe is full, and then, as at any time after
\* it, the service thread does not sleep without a record that will wake it.
THEOREM StopWakesHolds == Spec => []StopWakes
<1>1. Init => StopWakes
  BY DEF Init, StopWakes
<1>2. IInv /\ StopWakes /\ [Next]_vars => StopWakes'
  <2> SUFFICES ASSUME IInv, StopWakes, [Next]_vars, ~running', main'.pc = "epoll" PROVE pipe' > 0
    BY DEF StopWakes
  <2>0. pipe \in Nat /\ running \in BOOLEAN /\ Len(tasks) \in Nat
    BY LimitAssumption DEF IInv, TypeOK
  <2>1. ASSUME running' = running, main.pc = "epoll", pipe' = pipe \/ pipe' = pipe + 1 PROVE pipe' > 0
    BY <2>0, <2>1 DEF StopWakes
  <2>2. CASE UNCHANGED vars
    BY <2>1, <2>2 DEF vars
  <2>3. CASE EpollWait \/ OnDelegateTask \/ PopPendingTaskList \/ CooperateStart \/ CooperateStarted \/ SetValue
    BY <2>3 DEF EpollWait, OnDelegateTask, PopPendingTaskList, CooperateStart, CooperateStarted, SetValue,
                IInv, TypeOK
  <2>4. CASE ProcessTask
    <3>1. main.batch # <<>> => Head(main.batch) \in Task
      BY DEF IInv, TypeOK
    <3>2. main.batch # <<>> => Head(main.batch).does # "epoll"
      BY <3>1 DEF Task
    <3> QED BY <2>4, <3>2 DEF ProcessTask, IInv, TypeOK
  <2>5. CASE Receive \/ SpuriousWakeup \/ \E e \in {"OTHER", "TIMED"} : OtherSend(e)
    BY <2>1, <2>5 DEF Receive, SpuriousWakeup, OtherSend
  <2>6. CASE Handle
    BY <2>1, <2>6 DEF Handle, PostSyncTask, PostTask
  <2>7. CASE \E p \in Poster : WaitTimeout(p)
    <3>1. main'.pc = main.pc
      BY <2>7 DEF WaitTimeout, IInv, TypeOK
    <3> QED BY <2>1, <2>7, <3>1 DEF WaitTimeout
  <2>8. CASE \E c \in Caller, does \in {"call", "start"} : Call(c, does)
    BY <2>1, <2>8 DEF Call, PostSyncTask, PostTask
  <2>9. CASE OnStop
    <3>1. main.pc = "epoll" /\ Len(tasks) <= pipe
      BY <2>0, <2>9 DEF OnStop, IInv, Records
    <3>2. CASE PostTask(Stopper, "noop")
      BY <2>0, <3>2 DEF PostTask
    <3>3. CASE PostTaskFails /\ pipe' = pipe
      BY <2>0, <3>1, <3>3, LimitAssumption DEF PostTaskFails
    <3> QED BY <2>9, <3>2, <3>3 DEF OnStop
  <2> QED BY <2>2, <2>3, <2>4, <2>5, <2>6, <2>7, <2>8, <2>9 DEF Next, Main
<1> QED BY <1>1, <1>2, Invariance, PTL DEF Spec
-----------------------------------------------------------------------------
(* ImplementsCalls                                                         *)

Seen == <<Pending, InTask, waiting>>

\* A step that touches no task and neither begins nor ends one is not seen.
LEMMA Unseen ==
    ASSUME UNCHANGED <<tasks, waiting>>, main'.batch = main.batch, InTask' <=> InTask
    PROVE  UNCHANGED Seen
<1>1. InTask' = InTask
  BY DEF InTask
<1> QED BY <1>1 DEF Seen, Pending

\* PostSyncTask, accepted or not, by a thread that waits for nothing.
LEMMA PostSyncIsPost ==
    ASSUME IInv, NEW p \in Poster, NEW does \in {"call", "start", "noop"}, ~waiting[p],
           PostSyncTask(p, does), main' = main
    PROVE  [Calls!Next]_Seen
<1>0. main'.batch = main.batch /\ InTask' = InTask
  BY DEF InTask
<1>1. CASE PostTask(p, does) /\ waiting' = [waiting EXCEPT ![p] = TRUE]
  <2>1. \E t \in Task : t.by = p /\ ~t.expired /\ Pending' = Append(Pending, t)
    BY <1>0, <1>1, PostAppends
  <2>2. Calls!PostSync(p)
    BY <1>0, <1>1, <2>1 DEF Calls!PostSync
  <2> QED BY <2>2 DEF Calls!Next
<1>2. CASE UNCHANGED <<tasks, waiting>>
  BY <1>0, <1>2, Unseen
<1> QED BY <1>1, <1>2 DEF PostSyncTask

\* ProcessTask drops the first task if it is expired and begins it if not.
LEMMA ProcessIsBegin ==
    ASSUME IInv, ProcessTask
    PROVE  [Calls!Next]_Seen
<1>0. main.pc = "next" /\ ~InTask /\ UNCHANGED <<tasks, waiting>>
  BY DEF ProcessTask, InTask
<1>1. CASE main.batch = <<>>
  <2>1. main'.batch = main.batch /\ ~InTask'
    BY <1>1 DEF ProcessTask, InTask, IInv, TypeOK
  <2> QED BY <1>0, <2>1, Unseen
<1>2. CASE main.batch # <<>> /\ Head(main.batch).expired
  <2>1. main'.batch = Tail(main.batch) /\ main'.pc = "next"
    BY <1>0, <1>2 DEF ProcessTask, IInv, TypeOK
  <2>2. Pending # <<>> /\ Head(Pending) = Head(main.batch) /\ Pending' = Tail(Pending)
    BY <1>0, <1>2, <2>1, DoneTail
  <2>3. InTask' = InTask
    BY <1>0, <2>1 DEF InTask
  <2>4. Calls!Skip
    BY <1>0, <1>2, <2>2, <2>3 DEF Calls!Skip
  <2> QED BY <2>4 DEF Calls!Next
<1>3. CASE main.batch # <<>> /\ ~Head(main.batch).expired
  <2>1. main'.batch = main.batch /\ main'.pc = Head(main.batch).does
    BY <1>3 DEF ProcessTask, IInv, TypeOK
  <2>2. main.batch \in Seq(Task) /\ tasks \in Seq(Task)
    BY DEF IInv, TypeOK
  <2>3. InTask'
    <3>1. Head(main.batch) \in Task
      BY <1>3, <2>2
    <3> QED BY <2>1, <3>1 DEF InTask, Task
  <2>4. Pending # <<>> /\ Head(Pending) = Head(main.batch) /\ Pending' = Pending
    <3> DEFINE b == main.batch
    <3>1. b \in Seq(Task) /\ b # <<>> /\ Pending = b \o tasks
      BY <1>3, <2>2 DEF Pending
    <3>2. Pending' = Pending
      BY <1>0, <2>1 DEF Pending
    <3> HIDE DEF b
    <3>3. Pending # <<>> /\ Head(Pending) = Head(b)
      BY <2>2, <3>1, PendingTail
    <3> QED BY <3>2, <3>3 DEF b
  <2>5. InTask' = TRUE
    BY <2>3 DEF InTask
  <2>6. Calls!Begin
    BY <1>0, <1>3, <2>4, <2>5 DEF Calls!Begin
  <2> QED BY <2>6 DEF Calls!Next
<1> QED BY <1>1, <1>2, <1>3

\* SetValue ends the first task and answers who still waits for it.
LEMMA SetValueIsFinish ==
    ASSUME IInv, SetValue
    PROVE  [Calls!Next]_Seen
<1>1. InTask /\ main'.batch = Tail(main.batch) /\ main'.pc = "next" /\ tasks' = tasks
  BY DEF SetValue, IInv, TypeOK, InTask
<1>2. Pending # <<>> /\ Head(Pending) = Head(main.batch) /\ Pending' = Tail(Pending)
  BY <1>1, DoneTail DEF IInv
<1>3. InTask' = FALSE
  BY <1>1 DEF InTask
<1>4. waiting' = [p \in Poster |-> waiting[p] /\ p \notin Calls!Answered(Head(Pending))]
  <2> DEFINE t == Head(main.batch)
  <2>1. Calls!Answered(Head(Pending)) = {p \in Poster : t.by = p /\ ~t.expired}
    BY <1>2 DEF Calls!Answered
  <2>2. waiting \in [Poster -> BOOLEAN]
    BY DEF IInv, TypeOK
  <2>3. CASE t.expired \/ t.by \notin Poster
    <3>1. waiting' = waiting
      BY <2>3 DEF SetValue
    <3>2. Calls!Answered(Head(Pending)) = {}
      BY <2>1, <2>3
    <3> QED BY <2>2, <3>1, <3>2
  <2>4. CASE ~t.expired /\ t.by \in Poster
    <3>1. waiting' = [waiting EXCEPT ![t.by] = FALSE]
      BY <2>4 DEF SetValue
    <3>2. Calls!Answered(Head(Pending)) = {t.by}
      BY <2>1, <2>4
    <3> HIDE DEF t
    <3> QED BY <2>2, <3>1, <3>2
  <2> QED BY <2>3, <2>4
<1>5. Calls!Finish
  BY <1>1, <1>2, <1>3, <1>4 DEF Calls!Finish
<1> QED BY <1>5 DEF Calls!Next

LEMMA NextIsCalls == IInv /\ AInv /\ [Next]_vars => [Calls!Next]_Seen
<1> SUFFICES ASSUME IInv, AInv, [Next]_vars PROVE [Calls!Next]_Seen
  OBVIOUS
<1>1. CASE UNCHANGED vars
  BY <1>1, Unseen DEF vars, InTask
<1>2. CASE EpollWait \/ OnDelegateTask \/ CooperateStart \/ CooperateStarted
  <2>1. UNCHANGED <<tasks, waiting>> /\ main'.batch = main.batch
    BY <1>2 DEF EpollWait, OnDelegateTask, CooperateStart, CooperateStarted, IInv, TypeOK
  <2>2. InTask' <=> InTask
    BY <1>2 DEF EpollWait, OnDelegateTask, CooperateStart, CooperateStarted, InTask, IInv, TypeOK
  <2> QED BY <2>1, <2>2, Unseen
<1>3. CASE PopPendingTaskList
  <2>1. main.pc = "pop" /\ main'.pc = "next" /\ waiting' = waiting
    BY <1>3 DEF PopPendingTaskList
  <2> QED BY <1>3, <2>1, PopKeepsPending DEF Seen, InTask
<1>4. CASE ProcessTask
  BY <1>4, ProcessIsBegin
<1>5. CASE SetValue
  BY <1>5, SetValueIsFinish
<1>6. CASE Receive \/ SpuriousWakeup \/ \E e \in {"OTHER", "TIMED"} : OtherSend(e)
  BY <1>6, Unseen DEF Receive, SpuriousWakeup, OtherSend, InTask
<1>7. CASE Handle
  <2>1. worker.pc = "handling" /\ main' = main /\ Worker \in Poster /\ ~waiting[Worker]
    BY <1>7 DEF Handle, AInv, Poster
  <2>2. CASE UNCHANGED <<tasks, waiting>>
    BY <2>1, <2>2, Unseen DEF InTask
  <2>3. CASE PostSyncTask(Worker, "call")
    BY <2>1, <2>3, PostSyncIsPost
  <2> QED BY <1>7, <2>2, <2>3 DEF Handle
<1>8. ASSUME NEW p \in Poster, WaitTimeout(p) PROVE [Calls!Next]_Seen
  <2>1. Pending' = Expire(Pending, p)
    BY <1>8, TimeoutExpires
  <2>2. main'.pc = main.pc /\ waiting[p] /\ waiting' = [waiting EXCEPT ![p] = FALSE]
    BY <1>8 DEF WaitTimeout, IInv, TypeOK
  <2>3. Calls!GiveUp(p)
    BY <2>1, <2>2 DEF Calls!GiveUp, Expire, InTask
  <2> QED BY <2>3 DEF Calls!Next
<1>9. ASSUME NEW c \in Caller, NEW does \in {"call", "start"}, Call(c, does) PROVE [Calls!Next]_Seen
  BY <1>9, PostSyncIsPost DEF Call, Poster
<1>10. CASE OnStop
  <2>0. UNCHANGED <<main, waiting>> /\ Stopper \notin Poster
    BY <1>10, ThreadAssumption DEF OnStop, Poster
  <2>1. CASE PostTask(Stopper, "noop")
    <3>1. \E t \in Task : t.by = Stopper /\ Pending' = Append(Pending, t)
      BY <2>0, <2>1, PostAppends
    <3>2. Calls!PostAsync
      BY <2>0, <3>1 DEF Calls!PostAsync, InTask
    <3> QED BY <3>2 DEF Calls!Next
  <2>2. CASE UNCHANGED <<tasks, pipe>>
    BY <2>0, <2>2, Unseen DEF InTask
  <2> QED BY <1>10, <2>1, <2>2 DEF OnStop
<1> QED BY <1>1, <1>2, <1>3, <1>4, <1>5, <1>6, <1>7, <1>8, <1>9, <1>10 DEF Next, Main

\* For any number of threads and any limits, the pipe, the batches and the nested
\* waits of the worker implement SyncCalls: tasks run in the order they were
\* posted, one at a time, each once, and a task its poster gave up on before it
\* began does not run (PostSyncTask, PopPendingTaskList, ProcessTask).
THEOREM Refinement == Spec => ImplementsCalls
<1>1. Init => Calls!Init
  BY DEF Init, Calls!Init, Pending, InTask
<1>2. IInv /\ AInv /\ [Next]_vars => [Calls!Next]_Seen
  BY NextIsCalls
<1>3. Spec => []AInv
  BY InitAInv, NextAInv, Invariance, PTL DEF Spec
<1> QED BY <1>1, <1>2, <1>3, Invariance, PTL DEF Spec, ImplementsCalls, Calls!Spec, Seen
=============================================================================
