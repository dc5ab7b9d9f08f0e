------------------------------ MODULE Cooperate ------------------------------
(***************************************************************************)
(* The cooperation plugin (intention/cooperate/plugin): the pointer and    *)
(* keyboard of one device cross over to another.  Every device runs the    *)
(* same state machine on one worker thread, FREE / OUT (its input goes to  *)
(* the peer) / IN (the peer's input is injected here), and IN has a second *)
(* step, RelayConfirmation, in which the input is being handed over to a   *)
(* third device.                                                           *)
(*                                                                         *)
(* A handler of the worker thread is one step: the other threads only      *)
(* append events to the worker's Channel.  What is left asynchronous is    *)
(* what the code leaves asynchronous: packets between devices, sessions    *)
(* closed under the worker's feet, timers, and the calls of the API.       *)
(***************************************************************************)
EXTENDS Naturals, Sequences, FiniteSets

CONSTANTS
    Device,          \* network ids
    PointerDevice,   \* the devices with a mouse of their own
    None,            \* the empty network id / a null slot / no timer
    NoSpeed,         \* the speed -1
    TimerId,         \* slots of a device's TimerManager (MAX_TIMER_COUNT)
    MaxStarts,       \* bound on the Start calls
    MaxEvents,       \* bound on the other calls and local events
    MaxFaults        \* bound on communication failures

ASSUME DeviceAssumption ==
    /\ PointerDevice \subseteq Device
    /\ None \notin Device
    /\ NoSpeed \notin Device

ASSUME TimerIdAssumption == TimerId \subseteq Nat /\ None \notin TimerId

ASSUME BoundAssumption ==
    /\ MaxStarts \in Nat
    /\ MaxEvents \in Nat
    /\ MaxFaults \in Nat

VARIABLES
    dev,      \* dev[d]: Context, current state and step of device d
    net,      \* sessions, packets on their way, failures so far
    timers,   \* timers[d]: the event each pending timer of d will post
    used      \* how much of MaxStarts and MaxEvents is spent

vars == <<dev, net, timers, used>>

-----------------------------------------------------------------------------
(* Events of the worker's Channel *)

StartCooperateMsg(s, origin, speed, opt) ==
    [type |-> "START_COOPERATE", from |-> s, origin |-> origin,
     speed |-> speed, opt |-> opt]
StopCooperateMsg(s) == [type |-> "STOP_COOPERATE", from |-> s]
ComeBackMsg(s) == [type |-> "COME_BACK", from |-> s]
RelayCooperateMsg(s, target) ==
    [type |-> "RELAY_COOPERATE", from |-> s, target |-> target]
RelayCooperateFinishedMsg(s, normal) ==
    [type |-> "RELAY_COOPERATE_FINISHED", from |-> s, normal |-> normal]
SessionClosedEvent(s) == [type |-> "SESSION_CLOSED", from |-> s]

Speed == Device \cup {NoSpeed}

Event ==
    [type : {"START_COOPERATE"}, from : Device, origin : Device,
     speed : Speed, opt : BOOLEAN]
    \cup [type : {"STOP_COOPERATE", "COME_BACK", "SESSION_CLOSED"}, from : Device]
    \cup [type : {"RELAY_COOPERATE"}, from : Device, target : Device]
    \cup [type : {"RELAY_COOPERATE_FINISHED"}, from : Device, normal : BOOLEAN]

\* The slot of a timer that is not running holds no event.
ASSUME EventAssumption == None \notin Event

Context ==
    [state     : {"FREE", "OUT", "IN"},     \* StateMachine::current_
     step      : {"INITIAL", "RELAY"},      \* CooperateIn's current_
     peer      : Device \cup {None},        \* Context::remoteNetworkId_
     target    : Device \cup {None},        \* CooperateIn::process_
     capture   : Device \cup {None},        \* where the interceptor sends, None: off
     inject    : Device \cup {None},        \* whose input the builder injects, None: off
     speed     : Speed,                     \* pointer and touchpad speed in force
     origin    : Speed,                     \* originPointerSpeed_
     peerSpeed : Speed,                     \* peerPointerSpeed_
     hide      : BOOLEAN,                   \* COOPERATE_FLAG_HIDE_CURSOR
     visible   : BOOLEAN,                   \* last SetPointerVisibility
     enabled   : BOOLEAN,                   \* isCooperateEnable_
     call      : {"none", "open", "answered"}, \* calls_[START]
     lost      : SUBSET {"start", "stop"},  \* calls whose result is never sent
     timerId   : TimerId \cup {None}]       \* RelayConfirmation::timerId_

\* The speed the user of d has set is written d.
InitContext(d) ==
    [state |-> "FREE", step |-> "INITIAL", peer |-> None, target |-> None,
     capture |-> None, inject |-> None,
     speed |-> d, origin |-> NoSpeed, peerSpeed |-> NoSpeed,
     hide |-> FALSE, visible |-> d \in PointerDevice, enabled |-> FALSE,
     call |-> "none", lost |-> {}, timerId |-> None]

-----------------------------------------------------------------------------
(* Sessions and packets.  net.box[d][s] holds, in order, what s sent to d  *)
(* and the worker of d has not handled: still on the wire or already in    *)
(* the Channel.  net.box[d][d] holds what d posted to itself.  The worker  *)
(* may take the head of any of them: arrivals from different senders are   *)
(* not ordered.  Closing a session discards what is still on the wire, so  *)
(* any suffix may go.                                                      *)

Truncated(q) == {SubSeq(q, 1, k) : k \in 0..Len(q)}

\* Post an event to the Channel of d, as if from s.
Posted(n, d, s, e) == [n EXCEPT !.box[d][s] = Append(@, e)]

\* DSoftbusAdapterImpl::CloseSession and what it does to packets from p.
CloseSession(n, d, p) ==
    IF p \in n.sess[d]
      THEN {[n EXCEPT !.sess[d] = @ \ {p}, !.box[d][p] = q] : q \in Truncated(n.box[d][p])}
      ELSE {n}

CloseAllSessions(n, d) ==
    {[n EXCEPT !.sess[d] = {}, !.box[d] = b] :
        b \in {b \in [Device -> UNION {Truncated(n.box[d][s]) : s \in Device}] :
                 \A s \in Device :
                    IF s \in n.sess[d] THEN b[s] \in Truncated(n.box[d][s])
                                       ELSE b[s] = n.box[d][s]}}

Fault(n) == [n EXCEPT !.faults = @ + 1]

\* DSoftbusHandler::OpenSession.  A session that is in the table is taken as
\* it is, even if the other side has closed it.  A new one reaches the other
\* side's OnBind, which replaces the entry it may still have.
OpenSession(n, d, p) ==
    IF p = d THEN {[ok |-> FALSE, net |-> n]}
    ELSE IF p \in n.sess[d] THEN {[ok |-> TRUE, net |-> n]}
    ELSE {[ok |-> TRUE,
           net |-> [n EXCEPT !.sess[d] = @ \cup {p}, !.sess[p] = @ \cup {d},
                             !.box[p][d] = q]] :
            q \in IF d \in n.sess[p] THEN Truncated(n.box[p][d]) ELSE {n.box[p][d]}}
         \cup {[ok |-> FALSE, net |-> m] : m \in IF n.faults < MaxFaults THEN {Fault(n)} ELSE {}}

\* Any of the DSoftbusHandler sends: SendPacket, and on failure
\* OnCommunicationFailure.  A packet sent to a device that has closed its end
\* is lost.
SendPacket(n, d, p, e) ==
    LET sent == IF d \in n.sess[p] THEN Posted(n, p, d, e) ELSE n
        failed == {Posted(m, d, d, SessionClosedEvent(p)) : m \in CloseSession(n, d, p)}
    IN  IF p \notin n.sess[d] THEN {[ok |-> FALSE, net |-> m] : m \in failed}
        ELSE {[ok |-> TRUE, net |-> sent]}
             \cup {[ok |-> FALSE, net |-> Fault(m)] :
                      m \in IF n.faults < MaxFaults THEN failed ELSE {}}

-----------------------------------------------------------------------------
(* TimerManager as the worker uses it: the smallest free id is taken, and  *)
(* an id is free again as soon as its timer has fired or is removed.       *)

FreeTimerIds(t) == {i \in TimerId : t[i] = None}

TakeNextTimerId(t) ==
    IF FreeTimerIds(t) = {} THEN None
    ELSE CHOOSE i \in FreeTimerIds(t) : \A j \in FreeTimerIds(t) : i <= j

\* Seeded fault: the timer is not started.
AddTimerForgotten(t, e) == t

AddTimer(t, e) ==
    [i \in TimerId |-> IF i = TakeNextTimerId(t) THEN e ELSE t[i]]

RemoveTimer(t, id) == [i \in TimerId |-> IF i = id THEN None ELSE t[i]]

-----------------------------------------------------------------------------
(* What handlers do to a device's context *)

\* Seeded fault: CooperateOut does not bring the pointer back.
OnLeaveStateHidden(d, c) ==
    IF c.state = "IN" THEN [c EXCEPT !.hide = TRUE, !.visible = FALSE] ELSE [c EXCEPT !.hide = FALSE]

OnLeaveState(d, c) ==
    CASE c.state = "FREE" -> [c EXCEPT !.hide = FALSE]
      [] c.state = "OUT"  -> [c EXCEPT !.visible = ~c.hide /\ d \in PointerDevice]
      [] c.state = "IN"   -> [c EXCEPT !.hide = TRUE, !.visible = FALSE]

OnEnterState(c, s) ==
    CASE s = "FREE" -> [c EXCEPT !.state = s]
      [] s = "OUT"  -> [c EXCEPT !.state = s, !.visible = FALSE]
      [] s = "IN"   -> [c EXCEPT !.state = s, !.visible = ~c.hide]

TransiteTo(d, c, s) ==
    IF c.state = s THEN c ELSE OnEnterState(OnLeaveState(d, c), s)

\* Seeded fault: the peer's speed is forgotten, one's own not restored.
ResetSpeedHalf(c) == [c EXCEPT !.peerSpeed = NoSpeed]

\* OnResetCooperation, OnBack and ResetPointerAndTouchPadSpeed
ResetSpeed(c) == [c EXCEPT !.speed = c.origin, !.peerSpeed = NoSpeed]
OnTransitionOut(c) == [c EXCEPT !.origin = c.speed]
OnTransitionIn(c) == [c EXCEPT !.origin = c.speed, !.speed = c.peerSpeed]

InterceptorEnable(c) == [c EXCEPT !.capture = IF @ = None THEN c.peer ELSE @]
InterceptorDisable(c) == [c EXCEPT !.capture = None]
InterceptorUpdate(c) == [c EXCEPT !.capture = IF @ = None THEN @ ELSE c.peer]
BuilderEnable(c) == [c EXCEPT !.inject = IF @ = None THEN c.peer ELSE @]
\* Seeded fault: the builder goes on injecting.
BuilderLeftOn(c) == c

BuilderDisable(c) == [c EXCEPT !.inject = None]
\* Seeded fault: the builder keeps the old peer.
BuilderNotUpdated(c) == c

BuilderUpdate(c) == [c EXCEPT !.inject = IF @ = None THEN @ ELSE c.peer]

\* EventManager: one slot for the Start call in progress.  A newer call
\* overwrites it; a result with an empty slot goes nowhere.
StartCooperateCall(c) ==
    [c EXCEPT !.call = "open",
              !.lost = IF c.call = "open" THEN @ \cup {"start"} ELSE @]
StartCooperateFinish(c) == [c EXCEPT !.call = "none"]
ErrorNotAllowWhenMotionDragging(c) == [c EXCEPT !.call = IF @ = "open" THEN "answered" ELSE @]
NeverAnswered(c, which) == [c EXCEPT !.lost = @ \cup {which}]

RemoteStartSuccess(c, origin) == [c EXCEPT !.peer = origin, !.hide = FALSE]
StorePeerSpeed(c, speed) == [c EXCEPT !.peerSpeed = speed]

OutStopCooperate(d, c) ==
    ResetSpeed(TransiteTo(d, InterceptorDisable(c), "FREE"))

InStopCooperate(d, c) ==
    [ResetSpeed(TransiteTo(d, BuilderDisable(c), "FREE"))
        EXCEPT !.visible = d \in PointerDevice]

\* Seeded fault: the step is not switched back.
OnResetForgotten(c) == c

\* RelayConfirmation::OnReset and OnResetWithNotifyMessage
OnReset(c) == [c EXCEPT !.step = "INITIAL"]
OnResetWithNotifyMessage(c) == OnReset(StartCooperateFinish(c))

\* The context after the state's StopCooperate; in FREE nothing is left to do.
StopCooperate(d, c) ==
    CASE c.state = "FREE" -> c
      [] c.state = "OUT"  -> OutStopCooperate(d, c)
      [] c.state = "IN"   -> InStopCooperate(d, c)

\* What StopCooperate sends: STOP to the peer, unless nothing is running.
SendStop(n, d, c) ==
    IF c.state = "FREE" THEN {n}
    ELSE {r.net : r \in SendPacket(n, d, c.peer, StopCooperateMsg(d))}

-----------------------------------------------------------------------------
(* The switch may already have been turned on anywhere.                    *)

Init ==
    /\ \E on \in SUBSET Device :
          dev = [d \in Device |-> [InitContext(d) EXCEPT !.enabled = d \in on]]
    /\ net = [sess |-> [d \in Device |-> {}],
              box |-> [d \in Device |-> [s \in Device |-> <<>>]],
              faults |-> 0]
    /\ timers = [d \in Device |-> [i \in TimerId |-> None]]
    /\ used = [start |-> 0, event |-> 0]

Become(d, c) == dev' = [dev EXCEPT ![d] = c]

CountStart ==
    /\ used.start < MaxStarts
    /\ used' = [used EXCEPT !.start = @ + 1]

CountEvent ==
    /\ used.event < MaxEvents
    /\ used' = [used EXCEPT !.event = @ + 1]

\* A call of the platform's (not the network's) fails.
MayFail(n) == n.faults < MaxFaults

-----------------------------------------------------------------------------
(* Start and StartWithOptions: d is asked to cross over to r.              *)

\* CooperateFree::Initial::OnStart and OnStartWithOptions.  OnStart gives up
\* without a word to the caller on a late failure; OnStartWithOptions
\* ignores those failures.
FreeOnStart(d, r, opt) ==
    LET c == StartCooperateCall([dev[d] EXCEPT !.peer = r])
        gaveUp == [c EXCEPT !.visible = TRUE]
        Out(k) == OnTransitionOut(TransiteTo(d, StartCooperateFinish(k), "OUT"))
        msg == StartCooperateMsg(d, d, c.speed, opt)
    IN  /\ dev[d].state = "FREE"
        /\ \/ /\ Become(d, ErrorNotAllowWhenMotionDragging(c))
              /\ UNCHANGED net
           \/ \E o \in OpenSession(net, d, r) :
                 \/ /\ ~o.ok
                    /\ Become(d, StartCooperateFinish(c))
                    /\ net' = o.net
                 \/ /\ o.ok /\ ~opt /\ MayFail(o.net)     \* CheckDeviceOnline
                    /\ Become(d, gaveUp)
                    /\ net' = Fault(o.net)
                 \/ \E s \in SendPacket(o.net, d, r, msg) :
                       /\ o.ok
                       /\ \/ /\ ~s.ok /\ ~opt
                             /\ Become(d, gaveUp)
                             /\ net' = s.net
                          \/ /\ s.ok \/ opt
                             /\ Become(d, Out(InterceptorEnable(c)))
                             /\ net' = s.net
                          \/ /\ s.ok \/ opt
                             /\ MayFail(s.net)              \* AddInterceptor
                             /\ Become(d, IF opt THEN Out(c) ELSE gaveUp)
                             /\ net' = Fault(s.net)
        /\ UNCHANGED timers

\* CooperateOut::Initial::OnStart: refused, with an answer.
OutOnStart(d) ==
    /\ dev[d].state = "OUT"
    /\ \/ UNCHANGED dev                                 \* MOTION_DRAGGING
       \/ Become(d, StartCooperateFinish(StartCooperateCall(dev[d])))
    /\ UNCHANGED <<net, timers>>

\* CooperateIn::Initial::OnStart with the local device, or while a drag is in
\* motion.  The result for the former goes to whatever call is in the slot,
\* not to this one.
InOnStartRefused(d, r) ==
    /\ dev[d].state = "IN" /\ dev[d].step = "INITIAL"
    /\ \/ UNCHANGED dev
       \/ /\ r = d
          /\ Become(d, NeverAnswered(StartCooperateFinish(dev[d]), "start"))
    /\ UNCHANGED <<net, timers>>

\* CooperateIn::Initial::OnComeBack: the input goes back to where it is from.
InOnComeBack(d, r) ==
    LET c == StartCooperateFinish(BuilderDisable(StartCooperateCall(dev[d])))
    IN  /\ dev[d].state = "IN" /\ dev[d].step = "INITIAL"
        /\ r # d /\ r = dev[d].peer
        /\ Become(d, ResetSpeed(TransiteTo(d, c, "FREE")))
        /\ \E s \in SendPacket(net, d, r, ComeBackMsg(d)) : net' = s.net
        /\ UNCHANGED timers

\* Seeded fault: the peer is not recognised as the device to come back to.
InOnRelayToPeer(d, r) ==
    LET c == [StartCooperateCall(dev[d]) EXCEPT !.target = r, !.step = "RELAY"]
        timeout == RelayCooperateFinishedMsg(c.peer, FALSE)
    IN  /\ dev[d].state = "IN" /\ dev[d].step = "INITIAL" /\ r # d
        /\ \E s \in SendPacket(net, d, c.peer, RelayCooperateMsg(d, r)) : net' = s.net
        /\ Become(d, [c EXCEPT !.timerId = TakeNextTimerId(timers[d])])
        /\ timers' = [timers EXCEPT ![d] = AddTimer(@, timeout)]

\* CooperateIn::Initial::OnRelay and RelayConfirmation::OnProgress: ask the
\* peer to send its input to r from now on, and wait for its consent.
InOnRelay(d, r) ==
    LET c == [StartCooperateCall(dev[d]) EXCEPT !.target = r, !.step = "RELAY"]
        timeout == RelayCooperateFinishedMsg(c.peer, FALSE)
    IN  /\ dev[d].state = "IN" /\ dev[d].step = "INITIAL"
        /\ r # d /\ r # dev[d].peer
        /\ \E o \in OpenSession(net, d, r) :
              \/ /\ ~o.ok
                 /\ Become(d, OnResetWithNotifyMessage(c))
                 /\ net' = o.net
                 /\ UNCHANGED timers
              \/ /\ o.ok
                 /\ \E s \in SendPacket(o.net, d, c.peer, RelayCooperateMsg(d, r)) : net' = s.net
                 /\ Become(d, [c EXCEPT !.timerId = TakeNextTimerId(timers[d])])
                 /\ timers' = [timers EXCEPT ![d] = AddTimer(@, timeout)]

\* RelayConfirmation has no handler for START.
RelayOnStart(d) ==
    /\ dev[d].step = "RELAY"
    /\ Become(d, NeverAnswered(dev[d], "start"))
    /\ UNCHANGED <<net, timers>>

Start(d, r, opt) ==
    /\ CountStart
    /\ \/ FreeOnStart(d, r, opt)
       \/ OutOnStart(d)
       \/ InOnStartRefused(d, r)
       \/ InOnComeBack(d, r)
       \/ InOnRelay(d, r)
       \/ RelayOnStart(d)

-----------------------------------------------------------------------------
(* What stops a cooperation locally.  n is the network the handler sees.   *)

\* StopCooperate of the current state; RelayConfirmation resets as well.
StopNow(d, n) ==
    /\ Become(d, OnReset(StopCooperate(d, dev[d])))
    /\ net' \in SendStop(n, d, dev[d])
    /\ UNCHANGED timers

\* OnStop of the current step, with UnchainConnections.  RelayConfirmation's
\* never answers the caller, if there is one.
OnStop(d, n, unchained, caller) ==
    LET c == OnReset(StopCooperate(d, dev[d])) IN
    /\ Become(d, IF caller /\ dev[d].step = "RELAY" THEN NeverAnswered(c, "stop") ELSE c)
    /\ \E m \in SendStop(n, d, dev[d]) :
          net' \in IF unchained THEN CloseAllSessions(m, d) ELSE {m}
    /\ UNCHANGED timers

\* The API's Stop, and the STOP of OnCommonEvent (screen off or locked) and of
\* the timer it starts.
Stop(d, unchained, caller) ==
    /\ CountEvent
    /\ OnStop(d, net, unchained, caller)

\* StateMachine::EnableCooperate
Enable(d) ==
    /\ CountEvent
    /\ ~dev[d].enabled
    /\ Become(d, [dev[d] EXCEPT !.enabled = TRUE])
    /\ UNCHANGED <<net, timers>>

\* StateMachine::DisableCooperate and the OnDisable of each state.  In FREE
\* a drag that came from another device also resets the speed; such a drag
\* exists only after the device has been IN or OUT.
Disable(d) ==
    LET off == [dev[d] EXCEPT !.enabled = FALSE]
        shown == [off EXCEPT !.visible = d \in PointerDevice]
    IN  /\ CountEvent
        /\ dev[d].enabled
        /\ \/ /\ dev[d].state = "FREE"
              /\ \/ Become(d, off)                         \* DragState::START
                 \/ Become(d, shown)
                 \/ dev[d].origin # NoSpeed /\ Become(d, ResetSpeed(shown))
              /\ UNCHANGED net
           \/ /\ dev[d].state # "FREE"
              /\ Become(d, OnReset(StopCooperate(d, off)))
              /\ net' \in SendStop(net, d, dev[d])
        /\ UNCHANGED timers

\* OnAppClosed: the sessions go first, so the STOP that follows cannot be sent.
AppClosed(d) ==
    /\ CountEvent
    /\ Become(d, IF dev[d].step = "RELAY"
                   THEN OnResetWithNotifyMessage(StopCooperate(d, dev[d]))
                   ELSE StopCooperate(d, dev[d]))
    /\ \E m \in CloseAllSessions(net, d) : net' \in SendStop(m, d, dev[d])
    /\ UNCHANGED timers

\* OnPointerEvent: the user moves the pointer of d itself.
LocalPointer(d) ==
    /\ CountEvent
    /\ d \in PointerDevice
    /\ \/ /\ dev[d].state = "FREE" /\ dev[d].hide
          /\ Become(d, [dev[d] EXCEPT !.hide = FALSE, !.visible = TRUE])
          /\ UNCHANGED <<net, timers>>
       \/ /\ dev[d].state = "IN"
          /\ StopNow(d, net)

\* CooperateOut::Initial::OnHotplug.  Without a pointer device the handler
\* falls through to the second StopCooperate, which sends a second STOP.
Hotplug(d) ==
    /\ CountEvent
    /\ dev[d].state = "OUT"
    /\ Become(d, StopCooperate(d, dev[d]))
    /\ \E m \in SendStop(net, d, dev[d]) :
          net' \in IF d \in PointerDevice THEN {m} ELSE SendStop(m, d, dev[d])
    /\ UNCHANGED timers

\* CooperateOut::Initial::OnStopAboutVirtualTrackpad
VirtualTrackpadGone(d) ==
    /\ CountEvent
    /\ dev[d].state = "OUT" /\ d \notin PointerDevice
    /\ StopNow(d, net)

\* OnSoftbusSessionClosed, OnBoardOffline and OnSwitchChanged of every step.
Concerns(c, p) ==
    /\ c.state # "FREE"
    /\ p = c.peer \/ (c.step = "RELAY" /\ p = c.target)

OnPeerGone(d, n, p) ==
    LET c == dev[d]
        k == IF p = c.peer THEN StopCooperate(d, c) ELSE c
    IN  /\ Concerns(c, p)
        /\ Become(d, IF c.step = "RELAY" THEN OnResetWithNotifyMessage(k) ELSE k)
        /\ net' \in IF p = c.peer THEN SendStop(n, d, c) ELSE {n}
        /\ UNCHANGED timers

\* The board of p is gone, or its switch is off.
PeerGone(d, p) ==
    /\ CountEvent
    /\ OnPeerGone(d, net, p)

-----------------------------------------------------------------------------
(* Packets and posted events.  e is the event taken from the Channel and n *)
(* the network without it.                                                 *)

\* Seeded fault: a refused START closes no session.
RemoteStartIgnored(d, n) ==
    \/ ~dev[d].enabled /\ OnStop(d, n, FALSE, FALSE)
    \/ dev[d].enabled /\ MayFail(n) /\ OnStop(d, Fault(n), FALSE, FALSE)

\* StateMachine::OnRemoteStart: the switch is off here, or the accounts differ.
RemoteStartRefused(d, n) ==
    \/ ~dev[d].enabled /\ OnStop(d, n, TRUE, FALSE)
    \/ dev[d].enabled /\ MayFail(n) /\ OnStop(d, Fault(n), TRUE, FALSE)

FreeOnRemoteStart(d, n, e) ==
    LET c == BuilderEnable(RemoteStartSuccess(StorePeerSpeed(dev[d], e.speed), e.origin))
    IN  /\ dev[d].state = "FREE"
        /\ Become(d, OnTransitionIn(TransiteTo(d, c, "IN")))
        /\ net' = n
        /\ UNCHANGED timers

\* CooperateOut::Initial::OnRemoteStart.  The peer's speed is not stored.
OutOnRemoteStart(d, n, e) ==
    LET c == InterceptorDisable(ResetSpeed(dev[d]))
    IN  /\ dev[d].state = "OUT"
        /\ \/ e.from = dev[d].peer /\ StopNow(d, n)
           \/ /\ e.from # dev[d].peer
              /\ Become(d, OnTransitionIn(TransiteTo(d,
                      BuilderEnable(RemoteStartSuccess(c, e.origin)), "IN")))
              /\ net' \in SendStop(n, d, dev[d])
              /\ UNCHANGED timers

\* CooperateIn::Initial::OnRemoteStart.  OnResetCooperation clears the peer
\* speed that has just been stored.
InOnRemoteStart(d, n, e) ==
    LET c == StorePeerSpeed(dev[d], e.speed)
    IN  /\ dev[d].state = "IN" /\ dev[d].step = "INITIAL"
        /\ \/ /\ e.from = dev[d].peer
              /\ Become(d, c)
              /\ net' = n
           \/ /\ e.from # dev[d].peer
              /\ Become(d, OnTransitionIn(BuilderUpdate(
                      RemoteStartSuccess(ResetSpeed(c), e.origin))))
              /\ net' \in SendStop(n, d, dev[d])
        /\ UNCHANGED timers

\* RelayConfirmation::OnRemoteStart: a start from the target ends the relay
\* and is handled again afterwards, any other is put off for a while.
RelayOnRemoteStart(d, n, e) ==
    LET c == StorePeerSpeed(dev[d], e.speed)
    IN  /\ dev[d].step = "RELAY"
        /\ \/ /\ e.from = dev[d].peer
              /\ Become(d, c)
              /\ net' = n
              /\ UNCHANGED timers
           \/ /\ e.from # dev[d].peer /\ e.from = dev[d].target
              /\ Become(d, IF e.opt THEN OnReset(c) ELSE OnResetWithNotifyMessage(c))
              /\ net' = Posted(n, d, d, e)
              /\ UNCHANGED timers
           \/ /\ e.from \notin {dev[d].peer, dev[d].target}
              /\ Become(d, c)
              /\ net' = n
              /\ timers' = [timers EXCEPT ![d] = AddTimer(@, e)]

OnRemoteStart(d, n, e) ==
    /\ e.type = "START_COOPERATE"
    /\ \/ RemoteStartRefused(d, n)
       \/ /\ dev[d].enabled
          /\ \/ FreeOnRemoteStart(d, n, e)
             \/ OutOnRemoteStart(d, n, e)
             \/ InOnRemoteStart(d, n, e)
             \/ RelayOnRemoteStart(d, n, e)

\* OnRemoteStop of OUT, of IN and of RelayConfirmation, which puts the event
\* back for IN to handle.
OnRemoteStop(d, n, e) ==
    LET c == dev[d]
        off == IF c.state = "OUT" THEN InterceptorDisable(c) ELSE BuilderDisable(c)
    IN
    /\ e.type = "STOP_COOPERATE" /\ c.state # "FREE" /\ e.from = c.peer
    /\ \/ /\ c.step = "INITIAL"
          /\ Become(d, ResetSpeed(TransiteTo(d, off, "FREE")))
          /\ net' = n
       \/ /\ c.step = "RELAY"
          /\ Become(d, OnReset(c))
          /\ net' = Posted(n, d, d, e)
    /\ UNCHANGED timers

\* CooperateOut::Initial::OnComeBack
OnComeBack(d, n, e) ==
    LET c == RemoteStartSuccess(InterceptorDisable(dev[d]), e.from) IN
    /\ e.type = "COME_BACK" /\ dev[d].state = "OUT" /\ e.from = dev[d].peer
    /\ Become(d, ResetSpeed(TransiteTo(d, c, "FREE")))
    /\ net' = n
    /\ UNCHANGED timers

\* CooperateOut::Initial::OnRelay
OnRelay(d, n, e) ==
    LET c == dev[d] IN
    /\ e.type = "RELAY_COOPERATE" /\ c.state = "OUT" /\ e.from = c.peer
    /\ \E o \in OpenSession(n, d, e.target) :
         /\ \E s \in SendPacket(o.net, d, e.from, RelayCooperateFinishedMsg(d, o.ok)) : net' = s.net
         /\ Become(d, IF o.ok THEN InterceptorUpdate([c EXCEPT !.peer = e.target]) ELSE c)
    /\ UNCHANGED timers

\* RelayConfirmation::OnResponse, by the peer or by the timer.
OnResponse(d, n, e) ==
    LET c == dev[d]
        start == StartCooperateMsg(d, c.peer, c.speed, FALSE)
    IN
    /\ e.type = "RELAY_COOPERATE_FINISHED" /\ c.step = "RELAY" /\ e.from = c.peer
    /\ timers' = [timers EXCEPT ![d] = RemoveTimer(@, c.timerId)]
    /\ \/ /\ e.normal                                      \* OnNormal, Proceed
          /\ Become(d, OnReset(ResetSpeed(TransiteTo(d,
                  StartCooperateFinish(BuilderDisable(c)), "FREE"))))
          /\ \E s \in SendPacket(n, d, c.target, start) : net' = s.net
       \/ /\ ~e.normal
          /\ Become(d, StopCooperate(d, OnResetWithNotifyMessage(c)))
          /\ net' \in SendStop(n, d, c)

OnSoftbusSessionClosed(d, n, e) ==
    /\ e.type = "SESSION_CLOSED"
    /\ OnPeerGone(d, n, e.from)

\* Events the current step has no handler for, or that are not from the peer.
Unhandled(d, n, e) ==
    LET c == dev[d] IN
    /\ \/ e.type = "STOP_COOPERATE" /\ (c.state = "FREE" \/ e.from # c.peer)
       \/ e.type \in {"COME_BACK", "RELAY_COOPERATE"} /\ (c.state # "OUT" \/ e.from # c.peer)
       \/ e.type = "RELAY_COOPERATE_FINISHED" /\ (c.step # "RELAY" \/ e.from # c.peer)
       \/ e.type = "SESSION_CLOSED" /\ ~Concerns(c, e.from)
    /\ net' = n
    /\ UNCHANGED <<dev, timers>>

\* Cooperate::Loop takes the next event; the lanes come in any order.
Dispatch(d, s) ==
    /\ net.box[d][s] # <<>>
    /\ LET e == Head(net.box[d][s])
           n == [net EXCEPT !.box[d][s] = Tail(@)]
       IN  \/ OnRemoteStart(d, n, e)
           \/ OnRemoteStop(d, n, e)
           \/ OnComeBack(d, n, e)
           \/ OnRelay(d, n, e)
           \/ OnResponse(d, n, e)
           \/ OnSoftbusSessionClosed(d, n, e)
           \/ Unhandled(d, n, e)
    /\ UNCHANGED used

-----------------------------------------------------------------------------
(* Callbacks of the soft bus and of the timer thread                       *)

\* DSoftbusAdapterImpl::OnShutdown: the session with p is gone; what p sent
\* and has not arrived is lost, what is in the Channel stays.
Shutdown(n, d, p) ==
    {[n EXCEPT !.sess[d] = @ \ {p}, !.box[d][p] = Append(q, SessionClosedEvent(p))] :
        q \in Truncated(n.box[d][p])}

\* p has closed its end.
OnShutdown(d, p) ==
    /\ p \in net.sess[d] /\ d \notin net.sess[p]
    /\ net' \in Shutdown(net, d, p)
    /\ UNCHANGED <<dev, timers, used>>

\* The link fails while both ends are open.
LinkDown(d, p) ==
    /\ p \in net.sess[d] /\ d \in net.sess[p]
    /\ MayFail(net)
    /\ net' \in Shutdown(Fault(net), d, p)
    /\ UNCHANGED <<dev, timers, used>>

\* Seeded fault: the Channel takes no more, and the event is gone.
FireTimerRejected(d, i) ==
    /\ timers[d][i] # None
    /\ timers' = [timers EXCEPT ![d][i] = None]
    /\ UNCHANGED <<dev, net, used>>

FireTimer(d, i) ==
    /\ timers[d][i] # None
    /\ timers' = [timers EXCEPT ![d][i] = None]
    /\ net' = Posted(net, d, d, timers[d][i])
    /\ UNCHANGED <<dev, used>>

-----------------------------------------------------------------------------
System(d) ==
    \/ \E s \in Device : Dispatch(d, s) \/ OnShutdown(d, s) \/ LinkDown(d, s)
    \/ \E i \in TimerId : FireTimer(d, i)

User(d) ==
    \/ \E r \in Device, opt \in BOOLEAN : Start(d, r, opt)
    \/ \E unchained, caller \in BOOLEAN : Stop(d, unchained, caller)
    \/ Enable(d) \/ Disable(d) \/ AppClosed(d)
    \/ LocalPointer(d) \/ Hotplug(d) \/ VirtualTrackpadGone(d)
    \/ \E p \in Device : PeerGone(d, p)

Next == \E d \in Device : System(d) \/ User(d)

Spec == Init /\ [][Next]_vars

\* The worker thread takes every event, the timer thread fires every timer
\* and the soft bus reports every closed session; users owe nothing.
Fairness ==
    \A d \in Device :
        /\ \A s \in Device : WF_vars(Dispatch(d, s)) /\ WF_vars(OnShutdown(d, s))
        /\ \A i \in TimerId : WF_vars(FireTimer(d, i))

FairSpec == Spec /\ Fairness

-----------------------------------------------------------------------------
(* Properties *)

\* Every record, lane, timer and counter has the values the code can store.
TypeOK ==
    /\ dev \in [Device -> Context]
    /\ net \in [sess : [Device -> SUBSET Device],
                box : [Device -> [Device -> Seq(Event)]],
                faults : 0..MaxFaults]
    /\ timers \in [Device -> [TimerId -> Event \cup {None}]]
    /\ used \in [start : 0..MaxStarts, event : 0..MaxEvents]

\* CooperateIn keeps its step when the state machine leaves IN, so a handler
\* of RelayConfirmation that leaves IN must also reset the step: otherwise the
\* next cooperation would start in the middle of a relay.
RelayOnlyWhileIn == \A d \in Device : dev[d].step = "RELAY" => dev[d].state = "IN"

\* The interceptor and the builder keep a copy of the peer's id of their own
\* (Enable, Update).  The copy agrees with the Context: input is captured only
\* in OUT and only for the peer, and injected in IN, only there, from the peer.
InputRouted ==
    \A d \in Device :
        LET c == dev[d] IN
        /\ c.capture # None => c.state = "OUT" /\ c.capture = c.peer
        /\ c.inject = (IF c.state = "IN" THEN c.peer ELSE None)

\* No device cooperates with itself, not even through a relay: CooperateFree
\* and CooperateOut take the origin of a START and the target of a RELAY as
\* they come, without comparing them with the local id.
NeverOwnPeer ==
    \A d \in Device :
        LET c == dev[d] IN
        /\ c.state # "FREE" => c.peer \in Device \ {d}
        /\ c.step = "RELAY" => c.target \in Device \ {d, c.peer}

\* The speed the user has set is back on every way out of IN, and is what
\* OnTransitionIn remembers even when IN is entered from OUT or from IN with
\* the speed of another peer in force.
SpeedRestored ==
    \A d \in Device :
        LET c == dev[d] IN
        /\ c.state # "IN" => c.speed = d
        /\ c.origin = d \/ (c.state = "FREE" /\ c.origin = NoSpeed)

\* A device with a mouse shows its pointer whenever it is FREE and not told to
\* hide it, however it got there and however a Start failed, and never while
\* its input is elsewhere.
PointerShown ==
    \A d \in PointerDevice :
        LET c == dev[d] IN
        /\ c.state = "FREE" /\ ~c.hide => c.visible
        /\ c.state = "OUT" => ~c.visible /\ ~c.hide

\* Nothing is on its way any more.
Quiet ==
    /\ \A d, s \in Device : net.box[d][s] = <<>>
    /\ \A d \in Device, i \in TimerId : timers[d][i] = None
    /\ \A d, p \in Device : p \in net.sess[d] => d \in net.sess[p]

Matched(d) ==
    LET p == dev[d].peer IN dev[p].state = "IN" /\ dev[p].peer = d

\* As long as nobody relays, as between two devices, and no call has failed,
\* crossed Starts, Stops, refusals and closed sessions never leave a device at
\* rest in OUT, its own input captured, with nobody at the other end to inject it.
OutReaches ==
    Quiet /\ net.faults = 0 => \A d \in Device : dev[d].state = "OUT" => Matched(d)

\* Between two devices, a device that goes OUT does not wait for ever: the
\* peer joins, or the device is released.
OutSettles ==
    \A d \in Device :
        dev[d].state = "OUT" ~> (dev[d].state # "OUT" \/ Matched(d) \/ net.faults > 0)

\* OnReset and the stops leave the timer of a relay running, fired timers and
\* retried starts take ids again, and OnResponse removes whatever timer has the id
\* that is kept.  For all that, a device that waits for the answer to a relay has
\* its own timeout ahead, in a timer or in the Channel, unless AddTimer found no id
\* for it.
RelayTimed ==
    \A d \in Device :
        LET c == dev[d]
            timeout == RelayCooperateFinishedMsg(c.peer, FALSE)
        IN
        c.step = "RELAY" /\ c.timerId # None =>
            \/ \E i \in TimerId : timers[d][i] = timeout
            \/ \E k \in DOMAIN net.box[d][d] : net.box[d][d][k] = timeout

\* A relay comes to an end: RelayConfirmation ignores Start calls and puts
\* remote starts off, so a device stuck in it could not be used any more.
RelayEnds == \A d \in Device : dev[d].step = "RELAY" ~> dev[d].step = "INITIAL"

Route ==
    INSTANCE InputRoute WITH
        sentTo <- [d \in Device |-> {dev[d].capture} \ {None}],
        receivedFrom <- [d \in Device |-> {dev[d].inject} \ {None}],
        ownSpeed <- [d \in Device |-> dev[d].speed = d]

\* Read off the interceptor, the builder and the pointer speed, not off the
\* state's label, the plugin does what InputRoute promises: one device's input
\* changes hands at a time, and received input is never passed on.
ImplementsInputRoute == Route!Spec

\* interaction_manager.h promises the callbacks of StartCoordination and of
\* StopCoordination "the result of starting screen hopping" and of stopping it:
\* no call is dropped, by a newer one that takes its place among calls_ while it is
\* open or by a handler that forgets it.
EveryCallAnswered == \A d \in Device : dev[d].lost = {}
=============================================================================
