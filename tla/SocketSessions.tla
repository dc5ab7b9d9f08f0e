--------------------------- MODULE SocketSessions ----------------------------
(***************************************************************************)
(* The sessions between the service and the processes that use it, and the *)
(* registrations that live on them: SocketSessionManager and the listeners *)
(* of DragManager in the service, SocketClient and DragClient in each      *)
(* process.  The service may die and is loaded again; processes die, and   *)
(* their ids are used again.                                               *)
(*                                                                         *)
(* A session is named by its descriptor in the service: the descriptor is  *)
(* free again when the last reference to the SocketSession is gone.        *)
(***************************************************************************)
EXTENDS Naturals, Sequences, FiniteSets

CONSTANTS
    Pid,          \* process ids
    SystemApp,    \* those of system applications (IsSystemHAPCalling)
    Listener,     \* IDragListener objects
    MaxFd,        \* descriptors are 1..MaxFd
    MaxSessions,  \* MAX_SESSION_ALARM
    MaxStarts,    \* bound on the StartDrag calls of a process
    MaxCalls,     \* bound on the other calls of applications
    MaxCrashes,   \* bound on the deaths of the service
    MaxDeaths     \* bound on the deaths of processes

NoPid == "no process"

ASSUME ProcessAssumption == SystemApp \subseteq Pid /\ NoPid \notin Pid

ASSUME BoundAssumption ==
    /\ MaxFd \in Nat /\ MaxSessions \in Nat /\ MaxStarts \in Nat
    /\ MaxCalls \in Nat /\ MaxCrashes \in Nat /\ MaxDeaths \in Nat

VARIABLES
    up,        \* the service runs
    open,      \* the process of each SocketSession object, 0 for no object
    sessions,  \* sessions_
    callbacks, \* processes with a session-lost callback (callbacks_)
    infos,     \* msgInfos_ of DragManager's stateNotify_: NOTIFY_STATE, NOTIFY_STYLE
    out,       \* dragOutSession_, or 0
    drag,      \* the running drag: <<process, its StartDrag>>, Remote, or NoDrag
    adding,    \* the AddDraglistener call the service thread is in, or NoCall
    died,      \* processes whose death the application manager has still to report
    cl,        \* each process
    used       \* calls, crashes and deaths so far

serverVars == <<up, open, sessions, callbacks, infos, out, drag, adding, died>>
vars == <<serverVars, cl, used>>

Fd == 1..MaxFd
NoFd == 0
Eof == MaxFd + 1  \* a socket whose other end is closed
NoDrag == <<>>
Remote == <<NoPid, 0>>
NoCall == [pid |-> NoPid, fd |-> NoFd, lis |-> {}, at |-> "none", again |-> FALSE]

NewProcess ==
    [alive |-> TRUE, conn |-> NoFd, listeners |-> {}, registered |-> FALSE,
     connected |-> {}, connecting |-> FALSE, told |-> {}, gone |-> {}, subscript |-> FALSE,
     startListener |-> 0, starting |-> FALSE, starts |-> 0, inbox |-> <<>>]

Init ==
    /\ up = TRUE
    /\ open = [f \in Fd |-> NoPid]
    /\ sessions = {}
    /\ callbacks = {}
    /\ infos = [state |-> {}, style |-> {}]
    /\ out = NoFd
    /\ drag = NoDrag
    /\ adding = NoCall
    /\ died = {}
    /\ cl = [p \in Pid |-> NewProcess]
    /\ used = [calls |-> 0, crashes |-> 0, deaths |-> 0]

-----------------------------------------------------------------------------
(* SocketSessionManager *)

FindSessionByPid(p) == {f \in sessions : open[f] = p}

\* The objects that remain: sessions_, the listeners, dragOutSession_ and the call
\* in progress hold references, and the last one gone closes the descriptor
Remaining(ss, is, o, a) ==
    [f \in Fd |-> IF f \in ss \union is.state \union is.style \union {o, a.fd}
                  THEN open[f] ELSE NoPid]

\* The processes, when the descriptors at the other end are closed
HearEof(c, left) ==
    [p \in Pid |-> IF c[p].conn \in Fd /\ left[c[p].conn] = NoPid
                   THEN [c[p] EXCEPT !.conn = Eof] ELSE c[p]]

\* RemoveNotifyMsg: entries are compared by process
RemoveNotifyMsg(fds, p) == {f \in fds : open[f] # p}

\* Seeded fault: entries are compared by session.
AddNotifyMsgBySession(fds, f) == fds \union {f}

\* AddNotifyMsg: replaces the entry of the same process
AddNotifyMsg(fds, f) == RemoveNotifyMsg(fds, open[f]) \union {f}

\* NotifySessionDeleted, with the callback of DragManager: OnSessionLost removes
\* the state listener, not the style listener
NotifySessionDeleted(p) ==
    /\ callbacks' = callbacks \ {p}
    /\ infos' = IF p \in callbacks
                THEN [infos EXCEPT !.state = RemoveNotifyMsg(@, p)] ELSE infos

Release(f) ==
    /\ NotifySessionDeleted(open[f])
    /\ sessions' = sessions \ {f}
    /\ open' = Remaining(sessions', infos', out, adding)
    /\ cl' = HearEof(cl, open')
    /\ UNCHANGED <<up, out, drag, adding>>

\* The service thread is not in the middle of a call
ServiceFree == up /\ adding = NoCall

\* DispatchOne, OnEpollIn and ReleaseSession: the other end of a session is closed
OnEpollIn(f) ==
    /\ ServiceFree
    /\ f \in sessions
    /\ cl[open[f]].conn # f
    /\ Release(f)
    /\ UNCHANGED <<died, used>>

\* OnProcessDied, or the removal of the collaboration service: a binder thread
\* releases the session of the process, whatever the service thread is doing
OnProcessDied(p) ==
    /\ p \in died
    /\ died' = died \ {p}
    /\ IF up /\ FindSessionByPid(p) # {}
       THEN \E f \in FindSessionByPid(p) : Release(f)
       ELSE UNCHANGED <<up, open, sessions, callbacks, infos, out, drag, adding, cl>>
    /\ UNCHANGED used

-----------------------------------------------------------------------------
(* Calls into the service *)

\* A call reaches the service.  A process may hold the proxy of a service that
\* died; its calls fail, as they do without a session, until it reconnects
Reaches(p) == ServiceFree /\ cl[p].alive

\* DragClient::mtx_ is free: no thread of the process waits in AddDraglistener
Unlocked(p) == cl[p].alive /\ adding.pid # p

\* AllocSocketFd: its refusals
AllocSocketFd(p) == FindSessionByPid(p) = {} /\ Cardinality(sessions) < MaxSessions

\* Reconnect: asks for a socket until it gets one; then OnConnected follows
Reconnect(p) ==
    /\ Unlocked(p) /\ cl[p].conn = NoFd
    /\ Reaches(p) /\ AllocSocketFd(p)
    /\ \E f \in Fd :
         /\ open[f] = NoPid /\ \A g \in 1..(f - 1) : open[g] # NoPid
         /\ open' = [open EXCEPT ![f] = p]
         /\ sessions' = sessions \union {f}
         /\ cl' = [cl EXCEPT ![p] = [@ EXCEPT !.conn = f, !.connecting = TRUE]]
    /\ UNCHANGED <<up, callbacks, infos, out, drag, adding, died, used>>

\* What a process does after an AddDraglistener that failed: in OnConnected the
\* listener is forgotten
NotAdded(p, ls, again) ==
    IF again THEN [cl EXCEPT ![p] = [@ EXCEPT !.connected = cl[p].connected \ ls,
                                              !.gone = cl[p].gone \union ls]]
             ELSE cl

\* What it does after one that succeeded
Added(p, ls, again) ==
    [cl EXCEPT ![p] = [@ EXCEPT !.listeners = cl[p].listeners \union ls, !.registered = TRUE,
                                !.connected = cl[p].connected \ (IF again THEN ls ELSE {}),
                                !.gone = cl[p].gone \ ls]]

\* DragClient::AddDraglistener: only the first listener of a process calls the
\* service, and the lock is held until it answers
AddDraglistener(p, l, again) ==
    /\ Unlocked(p)
    /\ \/ /\ cl[p].registered
          /\ cl' = Added(p, {l}, again)
          /\ UNCHANGED adding
       \/ /\ ~cl[p].registered
          /\ ~(Reaches(p) /\ FindSessionByPid(p) # {})
          /\ up => adding = NoCall
          /\ cl' = NotAdded(p, {l}, again)
          /\ UNCHANGED adding
       \/ /\ ~cl[p].registered
          /\ Reaches(p)
          /\ \E f \in FindSessionByPid(p) :
               adding' = [pid |-> p, fd |-> f, lis |-> {l}, at |-> "found", again |-> again]
          /\ UNCHANGED cl
    /\ UNCHANGED <<up, open, sessions, callbacks, infos, out, drag, died>>

\* DragManager::AddListener, second step: AddNotifyMsg
AddListenerNotes ==
    /\ adding.at = "found"
    /\ infos' = [infos EXCEPT !.state = AddNotifyMsg(@, adding.fd)]
    /\ adding' = [adding EXCEPT !.at = "noted"]
    /\ open' = Remaining(sessions, infos', out, adding')
    /\ cl' = HearEof(cl, open')
    /\ UNCHANGED <<up, sessions, callbacks, out, drag, died, used>>

\* Seeded fault: the session is not watched.
WatchSessionNot(p) == callbacks

\* AddSessionDeletedCallback
WatchSession(p) == callbacks \union {p}

\* DragManager::AddListener, last step: AddSessionDeletedCallback; the process,
\* if it still runs, takes the answer
AddListenerWatches ==
    /\ adding.at = "noted"
    /\ callbacks' = WatchSession(adding.pid)
    /\ adding' = NoCall
    /\ open' = Remaining(sessions, infos, out, NoCall)
    /\ cl' = HearEof(IF adding.lis = {} THEN cl
                     ELSE Added(adding.pid, adding.lis, adding.again), open')
    /\ UNCHANGED <<up, sessions, infos, out, drag, died, used>>

\* An application adds a listener
AppAdds(p, l) ==
    /\ p \in SystemApp /\ used.calls < MaxCalls
    /\ l \notin cl[p].listeners
    /\ AddDraglistener(p, l, FALSE)
    /\ used' = [used EXCEPT !.calls = @ + 1]

\* DragClient::RemoveDraglistener: what the process keeps
RemoveDraglistener(p, l) ==
    [cl[p] EXCEPT !.listeners = @ \ {l}, !.told = @ \ {l}, !.gone = @ \union {l},
                  !.registered = @ /\ cl[p].listeners \ {l} # {}]

\* DragManager::RemoveListener is called for the last listener
AppRemoves(p, l) ==
    /\ p \in SystemApp /\ used.calls < MaxCalls
    /\ Unlocked(p)
    /\ l \in cl[p].listeners
    /\ up => adding = NoCall
    /\ infos' = IF cl[p].registered /\ cl[p].listeners = {l} /\ Reaches(p) /\ FindSessionByPid(p) # {}
                THEN [infos EXCEPT !.state = RemoveNotifyMsg(@, p)] ELSE infos
    /\ open' = Remaining(sessions, infos', out, adding)
    /\ cl' = [cl EXCEPT ![p] = RemoveDraglistener(p, l)]
    /\ used' = [used EXCEPT !.calls = @ + 1]
    /\ UNCHANGED <<up, sessions, callbacks, out, drag, adding, died>>

\* AddSubscriptListener and RemoveSubscriptListener, of the client and of the service
AppSubscribesStyle(p) ==
    /\ p \in SystemApp /\ used.calls < MaxCalls
    /\ Unlocked(p) /\ ~cl[p].subscript
    /\ Reaches(p)
    /\ \E f \in FindSessionByPid(p) :
         /\ infos' = [infos EXCEPT !.style = AddNotifyMsg(@, f)]
         /\ open' = Remaining(sessions, infos', out, adding)
    /\ cl' = [cl EXCEPT ![p].subscript = TRUE]
    /\ used' = [used EXCEPT !.calls = @ + 1]
    /\ UNCHANGED <<up, sessions, callbacks, out, drag, adding, died>>

AppUnsubscribesStyle(p) ==
    /\ p \in SystemApp /\ used.calls < MaxCalls
    /\ Unlocked(p) /\ cl[p].subscript
    /\ up => adding = NoCall
    /\ infos' = IF Reaches(p) /\ FindSessionByPid(p) # {}
                THEN [infos EXCEPT !.style = RemoveNotifyMsg(@, p)] ELSE infos
    /\ open' = Remaining(sessions, infos', out, adding)
    /\ cl' = [cl EXCEPT ![p].subscript = FALSE]
    /\ used' = [used EXCEPT !.calls = @ + 1]
    /\ UNCHANGED <<up, sessions, callbacks, out, drag, adding, died>>

-----------------------------------------------------------------------------
(* A drag, as far as sessions matter *)

\* SendMsg: a packet sent on each of the sessions
Sent(c, fds, msg) ==
    [p \in Pid |-> IF c[p].conn \in fds \intersect Fd
                   THEN [c[p] EXCEPT !.inbox = Append(@, msg)] ELSE c[p]]

\* DragClient::StartDrag: the listener replaces the one of an earlier call
StartDragCalls(p) ==
    /\ Unlocked(p) /\ ~cl[p].starting
    /\ cl[p].starts < MaxStarts
    /\ cl' = [cl EXCEPT ![p] = [@ EXCEPT !.starts = cl[p].starts + 1, !.startListener = cl[p].starts + 1,
                                         !.starting = TRUE]]
    /\ UNCHANGED <<serverVars, used>>

\* Seeded fault: dragOutSession_ is set before the check that no drag is running.
OutSessionEarly(p) == IF FindSessionByPid(p) # {} THEN CHOOSE f \in sessions : open[f] = p ELSE out

\* GetPackageName: dragOutSession_ after a StartDrag of the process; nothing is
\* set when a drag is running
OutSession(p) ==
    IF drag = NoDrag /\ FindSessionByPid(p) # {} THEN CHOOSE f \in sessions : open[f] = p ELSE out

\* The call reaches DragServer and DragManager::StartDrag, or fails
StartDragReaches(p) ==
    /\ cl[p].alive /\ cl[p].starting
    /\ up => adding = NoCall
    /\ LET called == Reaches(p) /\ FindSessionByPid(p) # {}
           back == [cl EXCEPT ![p].starting = FALSE]
       IN  \/ \* it does not reach the service, or the last drag is still drawn
              /\ cl' = back
              /\ UNCHANGED <<drag, out, callbacks>>
           \/ \* refused: a drag is running, or what StartDrag needs fails
              /\ called
              /\ out' = OutSession(p)
              /\ callbacks' = IF drag = NoDrag THEN WatchSession(p) ELSE callbacks
              /\ cl' = back
              /\ UNCHANGED drag
           \/ \* started
              /\ called /\ drag = NoDrag
              /\ out' = OutSession(p)
              /\ callbacks' = WatchSession(p)
              /\ drag' = <<p, cl[p].starts>>
              /\ cl' = Sent(back, infos.state, "START")
    /\ open' = Remaining(sessions, infos, out', adding)
    /\ UNCHANGED <<up, sessions, infos, adding, died, used>>

\* StartDrag for a drag that comes from another device: dragOutSession_ is kept
StartRemoteDrag ==
    /\ ServiceFree /\ drag = NoDrag
    /\ used.calls < MaxCalls
    /\ drag' = Remote
    /\ cl' = Sent(cl, infos.state, "START")
    /\ used' = [used EXCEPT !.calls = @ + 1]
    /\ UNCHANGED <<up, open, sessions, callbacks, infos, out, adding, died>>

\* Seeded fault: dragOutSession_ is reset before the result is sent.
ResultSessionGone == NoFd

\* The session the result is sent on
ResultSession == out

\* StopDrag: the state to the listeners, then the result to dragOutSession_
StopDrag ==
    /\ ServiceFree /\ drag # NoDrag
    /\ drag' = NoDrag
    /\ out' = NoFd
    /\ open' = Remaining(sessions, infos, NoFd, adding)
    /\ cl' = Sent(Sent(cl, infos.state, "STOP"), {ResultSession}, "RESULT")
    /\ UNCHANGED <<up, sessions, callbacks, infos, adding, died, used>>

-----------------------------------------------------------------------------
(* A process reads its socket *)

\* OnPacket: OnStateChangedMessage and OnNotifyResult
OnPacket(p) ==
    /\ Unlocked(p) /\ ~cl[p].connecting
    /\ cl[p].inbox # <<>>
    /\ LET read == [cl[p] EXCEPT !.inbox = Tail(@)]
       IN  cl' = [cl EXCEPT ![p] =
                  CASE Head(cl[p].inbox) = "START" -> [read EXCEPT !.told = cl[p].listeners]
                    [] Head(cl[p].inbox) = "STOP"  -> [read EXCEPT !.told = {}]
                    [] OTHER -> [read EXCEPT !.startListener = 0]]
    /\ UNCHANGED <<serverVars, used>>

\* Seeded fault: the drag listeners are not told of the end of the drag.
DisconnectedUntold(p) ==
    [cl[p] EXCEPT !.conn = NoFd, !.startListener = 0,
                  !.connected = IF cl[p].listeners = {} THEN @ ELSE cl[p].listeners,
                  !.listeners = {}, !.registered = FALSE]

\* Seeded fault: the process still counts as registered.
DisconnectedRegistered(p) ==
    [cl[p] EXCEPT !.conn = NoFd, !.startListener = 0,
                  !.told = {},
                  !.connected = IF cl[p].listeners = {} THEN @ ELSE cl[p].listeners,
                  !.listeners = {}]

\* SocketClient::OnDisconnected and DragClient::OnDisconnected: listeners hear the
\* end of the drag and are kept for the next connection
Disconnected(p) ==
    [cl[p] EXCEPT !.conn = NoFd, !.startListener = 0,
                  !.told = {},
                  !.connected = IF cl[p].listeners = {} THEN @ ELSE cl[p].listeners,
                  !.listeners = {}, !.registered = FALSE]

OnDisconnected(p) ==
    /\ Unlocked(p) /\ ~cl[p].connecting
    /\ cl[p].conn = Eof /\ cl[p].inbox = <<>>
    /\ cl' = [cl EXCEPT ![p] = Disconnected(p)]
    /\ UNCHANGED <<serverVars, used>>

\* Seeded fault: the kept listeners are cleared and not added again.
OnConnectedClears(p) ==
    /\ Unlocked(p) /\ cl[p].connecting
    /\ cl' = [cl EXCEPT ![p] = [@ EXCEPT !.connecting = FALSE, !.connected = {}]]
    /\ UNCHANGED <<serverVars, used>>

\* DragClient::OnConnected: every kept listener is added again, then the set is cleared
OnConnected(p) ==
    /\ Unlocked(p) /\ cl[p].connecting
    /\ \/ \E l \in cl[p].connected \ cl[p].listeners : AddDraglistener(p, l, TRUE)
       \/ /\ cl[p].connected \subseteq cl[p].listeners
          /\ cl' = [cl EXCEPT ![p] = [@ EXCEPT !.connecting = FALSE, !.connected = {}]]
          /\ UNCHANGED serverVars
    /\ UNCHANGED used

-----------------------------------------------------------------------------
(* Deaths *)

\* The service dies: its state is gone, every socket is closed, calls fail
ServiceDies ==
    /\ up /\ used.crashes < MaxCrashes
    /\ up' = FALSE
    /\ open' = [f \in Fd |-> NoPid]
    /\ sessions' = {} /\ callbacks' = {}
    /\ infos' = [state |-> {}, style |-> {}]
    /\ out' = NoFd /\ drag' = NoDrag /\ adding' = NoCall
    /\ cl' = [p \in Pid |->
                LET failed == IF adding.pid = p /\ adding.again THEN adding.lis ELSE {}
                IN  [cl[p] EXCEPT !.conn = IF @ \in Fd THEN Eof ELSE @,
                                  !.connected = @ \ failed,
                                  !.gone = @ \union failed]]
    /\ used' = [used EXCEPT !.crashes = @ + 1]
    /\ UNCHANGED died

\* The service is loaded again
ServiceLoads ==
    /\ ~up
    /\ up' = TRUE
    /\ UNCHANGED <<open, sessions, callbacks, infos, out, drag, adding, died, cl, used>>

\* A process dies; a call it made goes on in the service
ProcessDies(p) ==
    /\ cl[p].alive /\ used.deaths < MaxDeaths
    /\ cl' = [cl EXCEPT ![p] = [NewProcess EXCEPT !.alive = FALSE, !.starts = cl[p].starts]]
    /\ adding' = IF adding.pid = p THEN [adding EXCEPT !.lis = {}] ELSE adding
    /\ died' = died \union {p}
    /\ used' = [used EXCEPT !.deaths = @ + 1]
    /\ UNCHANGED <<up, open, sessions, callbacks, infos, out, drag>>

\* The id is given to a new process, once the death has been reported
ProcessStarts(p) ==
    /\ ~cl[p].alive /\ p \notin died
    /\ adding.pid # p
    /\ cl' = [cl EXCEPT ![p] = [NewProcess EXCEPT !.starts = cl[p].starts]]
    /\ UNCHANGED <<serverVars, used>>

-----------------------------------------------------------------------------
Next ==
    \/ \E f \in Fd : OnEpollIn(f)
    \/ AddListenerNotes \/ AddListenerWatches
    \/ StartRemoteDrag \/ StopDrag
    \/ ServiceDies \/ ServiceLoads
    \/ \E p \in Pid :
         \/ OnProcessDied(p) \/ Reconnect(p)
         \/ \E l \in Listener : AppAdds(p, l) \/ AppRemoves(p, l)
         \/ AppSubscribesStyle(p) \/ AppUnsubscribesStyle(p)
         \/ StartDragCalls(p) \/ StartDragReaches(p)
         \/ OnPacket(p) \/ OnDisconnected(p) \/ OnConnected(p)
         \/ ProcessDies(p) \/ ProcessStarts(p)

Spec == Init /\ [][Next]_vars

\* The service thread runs, the service is loaded again when it dies, processes
\* read their sockets and retry the connection, and every drag is ended by its
\* user or by the timer of DragManager
FairSpec ==
    /\ Spec
    /\ WF_vars(\E f \in Fd : OnEpollIn(f))
    /\ WF_vars(AddListenerNotes) /\ WF_vars(AddListenerWatches)
    /\ WF_vars(StopDrag) /\ WF_vars(ServiceLoads)
    /\ \A p \in Pid : /\ WF_vars(Reconnect(p))
                      /\ WF_vars(StartDragReaches(p))
                      /\ WF_vars(OnPacket(p)) /\ WF_vars(OnDisconnected(p))
                      /\ WF_vars(OnConnected(p))

-----------------------------------------------------------------------------
(* Properties *)

Process ==
    [alive : BOOLEAN, conn : Fd \union {NoFd, Eof},
     listeners : SUBSET Listener, registered : BOOLEAN, connected : SUBSET Listener,
     connecting : BOOLEAN, told : SUBSET Listener, gone : SUBSET Listener,
     subscript : BOOLEAN, startListener : 0..MaxStarts, starting : BOOLEAN,
     starts : 0..MaxStarts, inbox : Seq({"START", "STOP", "RESULT"})]

\* The service's tables name open sessions, and the state has its types.
TypeOK ==
    /\ up \in BOOLEAN
    /\ open \in [Fd -> Pid \union {NoPid}]
    /\ sessions \subseteq {f \in Fd : open[f] # NoPid}
    /\ callbacks \subseteq Pid
    /\ infos \in [state : SUBSET {f \in Fd : open[f] # NoPid},
                  style : SUBSET {f \in Fd : open[f] # NoPid}]
    /\ out \in {NoFd} \union {f \in Fd : open[f] # NoPid}
    /\ drag \in {NoDrag, Remote} \union (Pid \X (0..MaxStarts))
    /\ adding = NoCall \/ adding \in [pid : Pid, fd : {f \in Fd : open[f] # NoPid},
                                      lis : SUBSET Listener, at : {"found", "noted"},
                                      again : BOOLEAN]
    /\ died \subseteq Pid
    /\ cl \in [Pid -> Process]
    /\ used \in [calls : 0..MaxCalls, crashes : 0..MaxCrashes, deaths : 0..MaxDeaths]

\* The end of a session removes the entry of its process (NotifySessionDeleted,
\* OnSessionLost) and none is added for a session that has ended, with one exception:
\* a process that died while the service thread is in AddListener for it, between
\* FindSessionByPid and AddSessionDeletedCallback, with its death reported meanwhile.
\* That entry stays behind, with the callback AddListener then leaves for it, until a
\* process gets the same id and adds or removes a listener or loses its session.
EntryLeavesWithSession ==
    [][\A f \in infos'.state \ sessions' :
           \/ f \in infos.state \ sessions
           \/ open[f] = adding.pid /\ ~cl[adding.pid].alive]_vars

\* A process is told once: it has at most one session and one entry among the
\* state listeners (AllocSocketFd, AddNotifyMsg), across deaths and new processes
\* with the id of a dead one.
NotifiedOnce ==
    /\ \A f, g \in sessions : open[f] = open[g] => f = g
    /\ \A f, g \in infos.state : open[f] = open[g] => f = g

\* A process that believes it is registered (hasRegistered_) and whose session the
\* service holds is among the state listeners, on that session: no reconnection,
\* race with another thread or restart of the service leaves it deaf.
RegisteredListens ==
    \A p \in Pid : cl[p].registered /\ cl[p].conn \in sessions => cl[p].conn \in infos.state

\* While a drag of a process is running, dragOutSession_ is a session of that
\* process, whatever calls of StartDrag are refused meanwhile.
OutSessionKept == drag # NoDrag /\ drag # Remote => out # NoFd /\ open[out] = drag[1]

\* A listener kept over a lost connection is registered again on the new session
\* (DragClient::OnConnected), unless its own registration fails, as when the
\* service dies a second time, or the application removes it, or the process dies.
ListenerReturns ==
    \A p \in SystemApp, l \in Listener :
        l \in cl[p].connected ~>
            \/ l \in cl[p].listeners /\ cl[p].conn \in infos.state
            \/ ~cl[p].alive
            \/ l \in cl[p].gone

\* A listener that was told of the start of a drag, in a process that is registered
\* while a drag is running, is told of an end, also when the service dies during the
\* drag (OnStateChangedMessage, OnDisconnected).  A START still on the socket when
\* the process removes its last listener and adds another after the drag is outside
\* this property: that listener hears a start and no end.
ToldEnds ==
    \A p \in SystemApp, l \in Listener :
        l \in cl[p].told /\ drag # NoDrag /\ cl[p].conn \in infos.state ~> l \notin cl[p].told

\* The process that started a drag gets a result, or loses its connection, and its
\* listener slot is empty again (NotifyDragResult, OnNotifyResult, OnDisconnected).
ResultArrives ==
    \A p \in Pid :
        drag # NoDrag /\ drag[1] = p /\ cl[p].conn = out ~>
            cl[p].startListener = 0 \/ ~cl[p].alive

\* The listener given to a StartDrag that succeeded is the one that will be told the
\* result: it stays in startDragListener_ as long as the drag is running and the
\* process is connected.
StartListenerKept ==
    \A p \in Pid, k \in 1..MaxStarts :
        drag = <<p, k>> /\ out = cl[p].conn /\ ~cl[p].starting => cl[p].startListener = k

=============================================================================
