----------------------------- MODULE Stationary ------------------------------
(***************************************************************************)
(* Device status subscriptions: StationaryServer calls DeviceStatusManager *)
(* on binder threads; DeviceStatusMsdpClientImpl picks a source for the    *)
(* type, the algorithm library or the mock library, and the thread of the  *)
(* mock library reports data back into both objects.                       *)
(*                                                                         *)
(* Both objects have a std::mutex of their own, called mutex_ in either;   *)
(* managerMutex and implMutex are the thread that holds them.  A step of a *)
(* thread is what it does between two acquisitions.  The values reported,  *)
(* the event filter (arrs_) and the records of the dumper are left out.    *)
(***************************************************************************)
EXTENDS Naturals, Sequences

CONSTANTS
    Type,           \* types of device status
    AlgoType,       \* those GetAlgoAbility supports
    EnabledType,    \* the types that the mock library reports, in its order
    Callback,       \* callbacks of the clients
    Binder,         \* binder threads
    MockThread,     \* the thread of the mock library
    Free,           \* no thread
    MaxCalls        \* bound: calls of the interface

ASSUME StationaryAssumption ==
    /\ AlgoType \subseteq Type /\ EnabledType \in Seq(Type) /\ EnabledType # <<>>
    /\ MockThread \notin Binder /\ Free \notin Binder \cup {MockThread}
    /\ MaxCalls \in Nat

VARIABLES
    algoLib,        \* the algorithm library is on the device
    listeners,      \* type |-> the callbacks subscribed to it
    managerMutex,   \* DeviceStatusManager::mutex_
    implMutex,      \* DeviceStatusMsdpClientImpl::mutex_
    call,           \* binder thread |-> the call it is in
    calls,          \* the number of calls made, against MaxCalls
    iMock,          \* the mock instance exists
    mockCallCounts, \* type |-> how often it was enabled
    callBacksMgr,   \* the manager's callback is registered
    alive,          \* DeviceStatusMsdpMock::alive_
    mock            \* where the mock thread is, and in which of its types

vars == <<algoLib, listeners, managerMutex, implMutex, call, calls, iMock,
          mockCallCounts, callBacksMgr, alive, mock>>

manager == <<algoLib, listeners, calls>>
source == <<iMock, mockCallCounts, callBacksMgr, alive, mock>>

\* The places in a call at which a thread waits for something.
Place == {"idle", "get", "subscribe", "loadAlgo", "startAlgo", "algoInst", "loadMock",
          "startMock", "mockHandle", "registerImpl", "unsubscribe", "mockDisable", "join"}

Call == [at : Place, type : Type, callback : Callback]

\* The types of the variables.
TypeOK ==
    /\ algoLib \in BOOLEAN
    /\ listeners \in [Type -> SUBSET Callback]
    /\ managerMutex \in Binder \cup {MockThread, Free}
    /\ implMutex \in Binder \cup {MockThread, Free}
    /\ call \in [Binder -> Call]
    /\ calls \in 0..MaxCalls
    /\ iMock \in BOOLEAN
    /\ mockCallCounts \in [Type -> Nat]
    /\ callBacksMgr \in BOOLEAN
    /\ alive \in BOOLEAN
    /\ mock \in [at : {"none", "epoll", "parse", "impl", "manager"}, next : 1..Len(EnabledType)]

Init ==
    /\ algoLib \in BOOLEAN
    /\ listeners = [type \in Type |-> {}]
    /\ managerMutex = Free
    /\ implMutex = Free
    /\ \E type \in Type, callback \in Callback :
          call = [b \in Binder |-> [at |-> "idle", type |-> type, callback |-> callback]]
    /\ calls = 0
    /\ iMock = FALSE
    /\ mockCallCounts = [type \in Type |-> 0]
    /\ callBacksMgr = FALSE
    /\ alive = FALSE
    /\ mock = [at |-> "none", next |-> 1]

-----------------------------------------------------------------------------
\* Calls of the interface.

At(b, place) == call[b].at = place
Goes(b, place) == call' = [call EXCEPT ![b].at = place]

\* A client calls: Subscribe, Unsubscribe or GetLatestDeviceStatusData.
Begin(b, place, type, callback) ==
    /\ At(b, "idle") /\ calls < MaxCalls
    /\ calls' = calls + 1
    /\ call' = [call EXCEPT ![b] = [at |-> place, type |-> type, callback |-> callback]]
    /\ UNCHANGED <<algoLib, listeners, managerMutex, implMutex, source>>

\* GetObserverData takes callMutex_, which the mock thread holds while it reports.
GetLatestDeviceStatusData(b) ==
    /\ At(b, "get") /\ mock.at \notin {"impl", "manager"}
    /\ Goes(b, "idle")
    /\ UNCHANGED <<manager, managerMutex, implMutex, source>>

\* Subscribe returns at once if the callback is there.  Otherwise it is inserted
\* and Enable runs with the lock held.
Subscribe(b) ==
    LET type == call[b].type IN
    /\ At(b, "subscribe") /\ managerMutex = Free
    /\ listeners' = [listeners EXCEPT ![type] = @ \cup {call[b].callback}]
    /\ \/ /\ call[b].callback \in listeners[type]
          /\ Goes(b, "idle")
          /\ UNCHANGED managerMutex
       \/ /\ call[b].callback \notin listeners[type]
          /\ managerMutex' = b
          /\ Goes(b, IF type \in AlgoType THEN "loadAlgo" ELSE "loadMock")
    /\ UNCHANGED <<algoLib, calls, implMutex, source>>

\* A type that the algorithms do not support, or a library that is not there,
\* leads to the mock library.
LoadAlgoLibrary(b) ==
    /\ At(b, "loadAlgo") /\ implMutex = Free
    /\ Goes(b, IF algoLib THEN "startAlgo" ELSE "loadMock")
    /\ UNCHANGED <<manager, managerMutex, implMutex, source>>

\* StartAlgo calls GetAlgoInst with the lock held, and GetAlgoInst locks the same
\* std::mutex: the thread takes no further step.
StartAlgo(b) ==
    /\ At(b, "startAlgo") /\ implMutex = Free
    /\ implMutex' = b
    /\ Goes(b, "algoInst")
    /\ UNCHANGED <<manager, managerMutex, source>>

LoadMockLibrary(b) ==
    /\ At(b, "loadMock") /\ implMutex = Free
    /\ Goes(b, "startMock")
    /\ UNCHANGED <<manager, managerMutex, implMutex, source>>

\* GetMockInst creates the instance and resets the count of the type.
StartMock(b) ==
    /\ At(b, "startMock") /\ implMutex = Free
    /\ iMock' = TRUE
    /\ mockCallCounts' = IF iMock THEN mockCallCounts ELSE [mockCallCounts EXCEPT ![call[b].type] = 0]
    /\ Goes(b, "mockHandle")
    /\ UNCHANGED <<manager, managerMutex, implMutex, callBacksMgr, alive, mock>>

\* Seeded fault: only the subscription that starts the thread is counted.
CountedFirst(type) == [mockCallCounts EXCEPT ![type] = IF alive THEN @ ELSE @ + 1]

Counted(type) == [mockCallCounts EXCEPT ![type] = @ + 1]

\* Enable: a timer, and the thread if there is none; then the count.
MockHandle(b) ==
    /\ At(b, "mockHandle") /\ implMutex = Free
    /\ alive' = TRUE
    /\ mock' = IF alive THEN mock ELSE [at |-> "epoll", next |-> 1]
    /\ mockCallCounts' = Counted(call[b].type)
    /\ Goes(b, "registerImpl")
    /\ UNCHANGED <<manager, managerMutex, implMutex, iMock, callBacksMgr>>

\* Without a lock of its own; Subscribe returns.
RegisterImpl(b) ==
    /\ At(b, "registerImpl")
    /\ callBacksMgr' = TRUE
    /\ managerMutex' = Free
    /\ Goes(b, "idle")
    /\ UNCHANGED <<manager, implMutex, iMock, mockCallCounts, alive, mock>>

Remaining(type, callback) == [listeners EXCEPT ![type] = @ \ {callback}]

NoListeners(left) == \A type \in Type : left[type] = {}

\* Seeded fault: the source is stopped when its own type has no listener.
IsLastOfType(left, type) == left[type] = {}

\* The source is stopped when no type has a listener.
IsLast(left, type) == NoListeners(left)

Unsubscribe(b) ==
    LET type == call[b].type
        left == Remaining(type, call[b].callback)
    IN  /\ At(b, "unsubscribe") /\ managerMutex = Free
        /\ listeners' = left
        /\ \/ /\ listeners[type] # {} /\ IsLast(left, type)
              /\ managerMutex' = b
              /\ Goes(b, "mockDisable")
           \/ /\ listeners[type] = {} \/ ~IsLast(left, type)
              /\ Goes(b, "idle")
              /\ UNCHANGED managerMutex
        /\ UNCHANGED <<algoLib, calls, implMutex, source>>

\* SensorHdiDisable and AlgoDisable have nothing to disable; MockDisable stops the
\* thread and waits for it, with both locks held.  A count of zero would use an
\* erased entry (DisableFindsCount).
MockDisable(b) ==
    /\ At(b, "mockDisable") /\ implMutex = Free
    /\ implMutex' = b
    /\ alive' = FALSE
    /\ Goes(b, "join")
    /\ UNCHANGED <<manager, managerMutex, iMock, mockCallCounts, callBacksMgr, mock>>

\* Seeded fault: the thread is told to stop but not waited for.
JoinedAtOnce(b) == TRUE

Joined(b) == mock.at = "none"

\* thread_.join() returns; so do MockDisable and Unsubscribe.
MockDisabled(b) ==
    /\ At(b, "join") /\ Joined(b)
    /\ mockCallCounts' = [mockCallCounts EXCEPT ![call[b].type] = @ - 1]
    /\ implMutex' = Free
    /\ managerMutex' = Free
    /\ Goes(b, "idle")
    /\ UNCHANGED <<manager, iMock, callBacksMgr, alive, mock>>

-----------------------------------------------------------------------------
\* The thread of the mock library (LoopingThreadEntry).

\* The timer fires: GetDeviceStatusData goes through all the enabled types.
TimerCallback ==
    /\ mock.at = "epoll" /\ alive
    /\ mock' = [at |-> "parse", next |-> 1]
    /\ UNCHANGED <<manager, managerMutex, implMutex, call, iMock, mockCallCounts, callBacksMgr, alive>>

\* alive_ is false, or epoll_wait fails, which leaves alive_ as it is: the thread
\* is then gone although somebody listens, and no Enable starts it again.
ThreadExits ==
    /\ mock.at = "epoll"
    /\ mock' = [mock EXCEPT !.at = "none"]
    /\ UNCHANGED <<manager, managerMutex, implMutex, call, iMock, mockCallCounts, callBacksMgr, alive>>

\* MsdpCallback: callMutex_ and SaveObserverData.
MsdpCallback ==
    /\ mock.at = "parse"
    /\ mock' = [mock EXCEPT !.at = "impl"]
    /\ UNCHANGED <<manager, managerMutex, implMutex, call, iMock, mockCallCounts, callBacksMgr, alive>>

\* What follows the report of one type.
NextType ==
    IF mock.next < Len(EnabledType) THEN [at |-> "parse", next |-> mock.next + 1]
                                    ELSE [at |-> "epoll", next |-> 1]

\* ImplCallback takes the lock of the client and calls the manager with it.
ImplCallback ==
    /\ mock.at = "impl" /\ implMutex = Free
    /\ \/ /\ callBacksMgr
          /\ implMutex' = MockThread
          /\ mock' = [mock EXCEPT !.at = "manager"]
       \/ /\ ~callBacksMgr
          /\ mock' = NextType
          /\ UNCHANGED implMutex
    /\ UNCHANGED <<manager, managerMutex, call, iMock, mockCallCounts, callBacksMgr, alive>>

\* NotifyDeviceStatusChange, under the lock of the manager; both are then free.
NotifyDeviceStatusChange ==
    /\ mock.at = "manager" /\ managerMutex = Free
    /\ implMutex' = Free
    /\ mock' = NextType
    /\ UNCHANGED <<manager, managerMutex, call, iMock, mockCallCounts, callBacksMgr, alive>>

-----------------------------------------------------------------------------

BinderStep(b) ==
    \/ GetLatestDeviceStatusData(b)
    \/ Subscribe(b) \/ LoadAlgoLibrary(b) \/ StartAlgo(b) \/ LoadMockLibrary(b)
    \/ StartMock(b) \/ MockHandle(b) \/ RegisterImpl(b)
    \/ Unsubscribe(b) \/ MockDisable(b) \/ MockDisabled(b)

MockStep ==
    TimerCallback \/ ThreadExits \/ MsdpCallback \/ ImplCallback \/ NotifyDeviceStatusChange

Next ==
    \/ \E b \in Binder, place \in {"get", "subscribe", "unsubscribe"}, type \in Type, callback \in Callback :
          Begin(b, place, type, callback)
    \/ \E b \in Binder : BinderStep(b)
    \/ MockStep

Spec == Init /\ [][Next]_vars

\* Threads run, and a thread that keeps finding a mutex free gets it.
FairSpec == Spec /\ SF_vars(MockStep) /\ \A b \in Binder : SF_vars(BinderStep(b))

-----------------------------------------------------------------------------
\* Properties.

\* The count of the type being disabled is there.  MockDisable erases a count of
\* zero and then decrements through the iterator of the erased entry.
DisableFindsCount ==
    \A b \in Binder : At(b, "mockDisable") => iMock /\ mockCallCounts[call[b].type] > 0

\* Between calls the source is on (alive_) exactly when somebody listens: the first
\* listener of any type starts it, and only the last one of all types stops it
\* (Subscribe, Unsubscribe, MockHandle, MockDisable).
SourceFollowsListeners ==
    managerMutex = Free => (alive <=> ~NoListeners(listeners))

\* StartThread never assigns to a std::thread that is still running, which would
\* end the process: the old thread has been joined before alive_ is set again.
ThreadNotOverwritten == ~alive /\ managerMutex = Free => mock.at = "none"

\* A call of the interface returns.  stationary_manager.h says what SubscribeCallback
\* and UnsubscribeCallback return; StartAlgo locks its mutex twice, and Subscribe and
\* the mock thread take the two mutexes in opposite orders.
CallsReturn == \A b \in Binder : ~At(b, "idle") ~> At(b, "idle")
=============================================================================
