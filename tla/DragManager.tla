---------------------------- MODULE DragManager ------------------------------
(***************************************************************************)
(* DragManager: one drag at a time, started by an application on this      *)
(* device or across devices, watched through input monitors, ended by the  *)
(* application or by a timer.  Calls of applications, tasks posted by the  *)
(* input callbacks and timers are steps of the service thread.  The build  *)
(* is the default one: monitors, no interceptor, no drag by long press.    *)
(***************************************************************************)
EXTENDS DragDrawing

CONSTANTS
    MaxUps,   \* bound on the OnDragUp tasks in the queue
    MaxCalls  \* bound on the calls of applications

ASSUME BoundAssumption == MaxUps \in Nat /\ MaxCalls \in Nat

VARIABLES
    dragState,  \* dragState_
    source,     \* the source type in DRAG_DATA_MGR
    morph,      \* dragAnimationType_ is FOLLOW_HAND_MORPH
    monitors,   \* input monitors of DragManager: pointer, key
    stray,      \* the monitors are those of a drag that failed to deliver its nonce
    mouseOn,    \* mouseDragMonitorState_
    controlled, \* GetControlCollaborationVisible
    cursor,     \* the pointer: "shown", "hidden" for the window, "left" hidden
    ups,        \* OnDragUp tasks in the queue
    lifted,     \* an OnDragUp task of this drag has been handled
    calls       \* calls so far

managerVars == <<dragState, source, morph, monitors, stray, mouseOn, controlled, cursor,
                 ups, lifted>>
vars == <<drawingVars, managerVars, calls>>

Init ==
    /\ DrawingInit
    /\ dragState = "STOP"
    /\ source = "none"
    /\ morph = FALSE
    /\ monitors = {}
    /\ stray = FALSE /\ mouseOn = FALSE /\ controlled = FALSE
    /\ cursor = "shown"
    /\ ups = 0
    /\ lifted = FALSE
    /\ calls = 0

-----------------------------------------------------------------------------
(* Input monitors *)

\* RemoveDragEventHandler: the key monitor, and the pointer monitor only if
\* there was a key monitor
RemoveDragEventHandler(m) == IF "key" \in m THEN {} ELSE m

\* Seeded fault: only the key monitor is removed.
OnStopDragMonitorsPointerLeft(m) == IF "key" \in m THEN m \ {"key"} ELSE m

\* What OnStopDrag removes: nothing when there is no pointer monitor
OnStopDragMonitors(m) == IF "pointer" \in m THEN {} ELSE m

\* AddDragEventHandler: its results, failures included
AddDragEventHandler(m) ==
    IF "key" \in m \/ "pointer" \in m
    THEN {[ok |-> FALSE, monitors |-> m \cup {"key"}]}
    ELSE {[ok |-> FALSE, monitors |-> m], [ok |-> FALSE, monitors |-> {"key"}],
          [ok |-> TRUE, monitors |-> {"key", "pointer"}]}

\* ResetMouseDragMonitorInfo, but for its timer
ResetMouseDragMonitorInfo(m) ==
    /\ monitors' = RemoveDragEventHandler(m)
    /\ stray' = FALSE
    /\ mouseOn' = FALSE

-----------------------------------------------------------------------------
(* Starting *)

\* ResetMouseDragMonitorTimerId
ResetMouseDragMonitorTimerId(s) == IF s = "mouse" THEN RemoveTimer(tm, "mouse") ELSE tm

StartRefused == dragState # "STOP" \/ draw.isRunning

\* A start that is refused has removed the timer of the mouse monitor already.
StartDragRefused(s) ==
    /\ StartRefused
    /\ tm' = ResetMouseDragMonitorTimerId(s)
    /\ UNCHANGED <<draw, managerVars>>

\* What StartDrag and OnStartDrag write before anything can fail.
StartDragBegins(s) ==
    /\ ~StartRefused
    /\ source' = s
    /\ controlled' = FALSE

\* AddDragEvent: with a pointer monitor there is nothing to add.
AddDragEvent(m) ==
    IF "pointer" \in m THEN {[ok |-> TRUE, monitors |-> m]} ELSE AddDragEventHandler(m)

\* Drawing, AppendExtraData or AddDragEventHandler fails.
StartDragFails(s, mor) ==
    /\ StartDragBegins(s)
    /\ draw' = Release(InitWindow(draw, mor))
    /\ tm' = RemoveTimer(ResetMouseDragMonitorTimerId(s), "mouse")
    /\ \E m \in {monitors} \cup {r.monitors : r \in {x \in AddDragEvent(monitors) : ~x.ok}} :
          ResetMouseDragMonitorInfo(m)
    /\ UNCHANGED <<dragState, morph, cursor, ups, lifted>>

\* DeliverNonceToInput fails: the window and the monitors stay.
StartDragNonceFails(s, mor) ==
    /\ StartDragBegins(s)
    /\ draw' = [InitWindow(draw, mor) EXCEPT !.waits = {"nonce"}]
    /\ tm' = ResetMouseDragMonitorTimerId(s)
    /\ \E r \in AddDragEvent(monitors) : r.ok /\ monitors' = r.monitors
    /\ stray' = TRUE
    /\ UNCHANGED <<dragState, morph, mouseOn, cursor, ups, lifted>>

StartDragSucceeds(s, mor) ==
    /\ StartDragBegins(s)
    /\ draw' = InitWindow(draw, mor)
    /\ tm' = ResetMouseDragMonitorTimerId(s)
    /\ \E r \in AddDragEvent(monitors) : r.ok /\ monitors' = r.monitors
    /\ morph' = mor
    /\ dragState' = "START"
    /\ lifted' = FALSE
    /\ UNCHANGED <<stray, mouseOn, cursor, ups>>

StartDrag(s, mor) ==
    StartDragFails(s, mor) \/ StartDragNonceFails(s, mor) \/ StartDragSucceeds(s, mor)

-----------------------------------------------------------------------------
(* Ending *)

\* HandleDragResult: what may become of the window
HandleDragResult(result, custom) ==
    IF morph THEN RunDestopAnimation(draw)
    ELSE IF custom \/ result = "EXCEPTION" THEN {Release(draw)}
    ELSE {RunAnimation(draw)}

\* An exception leaves timerId_ as it is.
StopTimer(result) == IF result = "EXCEPTION" THEN tm ELSE RemoveTimer(tm, "up")

\* Seeded fault: OnStopDrag shows the pointer only for a touch screen.
PointerAfterStopTouch(local) == IF source = "touch" THEN "shown" ELSE cursor

\* SetPointerVisible in OnStopDrag.  local is FALSE if a cooperation stops the
\* drag and no pointer device is left.
PointerAfterStop(local) ==
    IF source # "mouse" THEN cursor
    ELSE IF dragState # "MOTION" /\ local THEN "shown"
    ELSE IF cursor = "hidden" \/ dragState # "MOTION" THEN "left"
    ELSE cursor

\* StopDrag while a drag is running: OnStopDrag, the notices, and the end
StopDragWith(result, custom, local, t) ==
    /\ dragState # "STOP"
    /\ tm' = t
    /\ monitors' = OnStopDragMonitors(monitors)
    /\ stray' = FALSE
    /\ cursor' = PointerAfterStop(local)
    /\ draw' \in HandleDragResult(result, custom)
    /\ mouseOn' = FALSE /\ source' = "none" /\ controlled' = FALSE
    /\ dragState' = "STOP"
    /\ lifted' = FALSE
    /\ UNCHANGED <<morph, ups>>

StopDrag(result, custom, local) == StopDragWith(result, custom, local, StopTimer(result))

\* The pointer monitor calls DragCallback on the input thread, and
\* DragUpCallback posts OnDragUp.
DragUpCallback ==
    /\ "pointer" \in monitors
    /\ ups < MaxUps
    /\ ups' = ups + 1
    /\ UNCHANGED <<drawingVars, dragState, source, morph, monitors, stray, mouseOn,
                   controlled, cursor, lifted>>

\* Seeded fault: nothing watches over the end of the drag.
OnDragUpUnwatched ==
    /\ ups > 0 /\ ups' = ups - 1
    /\ IF dragState = "START"
       THEN /\ cursor' = IF source = "mouse" THEN "shown" ELSE cursor
            /\ lifted' = TRUE
       ELSE UNCHANGED <<cursor, lifted>>
    /\ UNCHANGED <<drawingVars, dragState, source, morph, monitors, stray, mouseOn, controlled>>

\* OnDragUp sets the watchdog; timerId_ is overwritten.
OnDragUp ==
    /\ ups > 0 /\ ups' = ups - 1
    /\ IF dragState = "START"
       THEN /\ cursor' = IF source = "mouse" THEN "shown" ELSE cursor
            /\ tm' = AddTimer(tm, "up")
            /\ lifted' = TRUE
       ELSE UNCHANGED <<cursor, tm, lifted>>
    /\ UNCHANGED <<draw, dragState, source, morph, monitors, stray, mouseOn, controlled>>

\* Seeded fault: in MOTION_DRAGGING the watchdog is set again.
DragTimeoutAgain(i) ==
    /\ tm.at[i] = "up"
    /\ IF dragState # "START" THEN tm' = AddTimer(Fired(tm, i), "up") /\ UNCHANGED <<draw, managerVars>>
       ELSE StopDragWith("EXCEPTION", FALSE, TRUE, Fired(tm, i))

\* "Timeout, automatically stop dragging"
DragTimeout(i) ==
    /\ tm.at[i] = "up"
    /\ IF dragState = "STOP" THEN tm' = Fired(tm, i) /\ UNCHANGED <<draw, managerVars>>
       ELSE StopDragWith("EXCEPTION", FALSE, TRUE, Fired(tm, i))

-----------------------------------------------------------------------------
(* During a drag *)

\* OnSetDragWindowVisible, for the window and for the pointer
OnSetDragWindowVisible(visible, isForce, transaction) ==
    /\ dragState # "MOTION"
    /\ dragState = "STOP" => morph
    /\ isForce \/ ~controlled \/ transaction
    /\ draw' = UpdateDragWindowState(draw, visible, transaction)
    /\ cursor' = IF ~visible \/ source # "mouse" THEN cursor
                 ELSE IF dragState = "STOP" THEN "left" ELSE "hidden"
    /\ controlled' = (controlled \/ isForce)
    /\ UNCHANGED <<tm, dragState, source, morph, monitors, stray, mouseOn, ups, lifted>>

\* SetDragState, by a plugin that is not part of the repository
SetDragState(state) ==
    /\ dragState # "STOP" /\ state # dragState
    /\ dragState' = state
    /\ UNCHANGED <<drawingVars, source, morph, monitors, stray, mouseOn, controlled, cursor,
                   ups, lifted>>

\* RotateDragWindow, when the display that was turned is the drag's
RotateDragWindow ==
    /\ dragState # "STOP"
    /\ tm' = AddTimer(tm, "rotate")
    /\ draw' = RotateAsync(tm', draw)
    /\ UNCHANGED managerVars

\* RotateDragWindowSync, whenever a system application asks for it
RotateDragWindowSync ==
    /\ draw' = [draw EXCEPT !.rotating = FALSE]
    /\ tm' = RemoveTimer(tm, "rotate")
    /\ UNCHANGED managerVars

\* SetMouseDragMonitorState(true)
MouseDragMonitorOn ==
    /\ \E r \in AddDragEventHandler(monitors) :
          /\ monitors' = r.monitors
          /\ IF r.ok THEN tm' = AddTimer(tm, "mouse") /\ mouseOn' = TRUE
             ELSE UNCHANGED <<tm, mouseOn>>
    /\ UNCHANGED <<draw, dragState, source, morph, stray, controlled, cursor, ups, lifted>>

\* SetMouseDragMonitorState(false)
MouseDragMonitorOff ==
    /\ ResetMouseDragMonitorInfo(monitors)
    /\ tm' = RemoveTimer(tm, "mouse")
    /\ UNCHANGED <<draw, dragState, source, morph, controlled, cursor, ups, lifted>>

\* "Timeout, automatically remove monitor"
MouseMonitorTimeout(i) ==
    /\ tm.at[i] = "mouse"
    /\ ResetMouseDragMonitorInfo(monitors)
    /\ tm' = RemoveTimer(Fired(tm, i), "mouse")
    /\ UNCHANGED <<draw, dragState, source, morph, controlled, cursor, ups, lifted>>

-----------------------------------------------------------------------------
Source == {"mouse", "touch"}
Result == {"SUCCESS", "FAIL", "CANCEL", "EXCEPTION"}

Calls ==
    \/ \E s \in Source : StartDragRefused(s)
    \/ \E s \in Source, mor \in BOOLEAN : StartDrag(s, mor)
    \/ \E result \in Result, custom \in BOOLEAN, local \in BOOLEAN : StopDrag(result, custom, local)
    \/ \E visible \in BOOLEAN, isForce \in BOOLEAN, transaction \in BOOLEAN :
          OnSetDragWindowVisible(visible, isForce, transaction)
    \/ \E state \in {"START", "MOTION"} : SetDragState(state)
    \/ RotateDragWindow
    \/ RotateDragWindowSync
    \/ MouseDragMonitorOn
    \/ MouseDragMonitorOff

Timeouts == \E i \in TimerId : DragTimeout(i) \/ MouseMonitorTimeout(i)

Drawing == DrawingStep /\ UNCHANGED managerVars

Next ==
    \/ Calls /\ calls < MaxCalls /\ calls' = calls + 1
    \/ (DragUpCallback \/ OnDragUp \/ Timeouts \/ Drawing) /\ UNCHANGED calls

Spec == Init /\ [][Next]_vars

\* The handler's thread runs, and a timer that is not removed fires.
FairSpec ==
    /\ Spec
    /\ WF_vars(Handler /\ UNCHANGED <<managerVars, calls>>)
    /\ \A i \in TimerId : /\ WF_vars(DragTimeout(i) /\ UNCHANGED calls)
                            /\ WF_vars(AnimationTimeout(i) /\ UNCHANGED <<managerVars, calls>>)

-----------------------------------------------------------------------------
(* Properties *)

\* Every variable has its type.
TypeOK ==
    /\ tm \in [at : [TimerId -> Holder \cup {Free, Other}], held : [Holder -> TimerId \cup {NONE}],
               lost : SUBSET Holder]
    /\ draw \in [isRunning : BOOLEAN, window : BOOLEAN, morph : BOOLEAN,
                 anim : {"none", "posted", "frames", "removing"}, vsync : BOOLEAN, forced : BOOLEAN,
                 needDestroy : BOOLEAN, effect : BOOLEAN, rotating : BOOLEAN, ends : 0..MaxEnds,
                 waits : SUBSET {"nonce", "client"}]
    /\ dragState \in {"STOP", "START", "MOTION"}
    /\ source \in Source \cup {"none"}
    /\ morph \in BOOLEAN
    /\ monitors \subseteq {"pointer", "key"}
    /\ stray \in BOOLEAN /\ mouseOn \in BOOLEAN /\ controlled \in BOOLEAN
    /\ cursor \in {"shown", "hidden", "left"}
    /\ ups \in 0..MaxUps
    /\ lifted \in BOOLEAN

\* RemoveDragEventHandler gives up without a key monitor: wherever the two
\* monitors are added and removed, by a drag, by SetMouseDragMonitorState, by a
\* failure or by a timer, there is no pointer monitor without a key monitor, and
\* none is left behind once the drag and the mouse monitor are over.  The one
\* exception is a start that failed to deliver its nonce.
MonitorsOwned ==
    "pointer" \in monitors =>
        /\ "key" \in monitors
        /\ dragState # "STOP" \/ mouseOn \/ stray

\* After the drag has ended the drawing is still running only while something
\* is on its way that ends it: the animation, the client's answer to it, or, for
\* good, after a start that failed to deliver its nonce.
DrawingEnds ==
    draw.isRunning /\ dragState = "STOP" => draw.anim # "none" \/ draw.waits # {}

\* Once the pointer is up there is a timer that ends the drag if the application
\* does not, whatever timers fire and whatever ids are used again, unless it was
\* refused or somebody's old id has cancelled it.
WatchdogSet == lifted => Has(tm, "up") \/ "up" \in tm.lost

\* While the window is held still for a rotation a timer will let it go.
RotationEnds == draw.rotating => Has(tm, "rotate") \/ "rotate" \in tm.lost

\* The pointer that the drag window replaces comes back with the end of the drag.
\* It is left hidden (cursor = "left") by a drag that ends in MOTION_DRAGGING, by
\* a cooperation that leaves no pointer device, and by a client that shows the
\* window when no drag is running any more.
PointerBack == cursor = "hidden" => dragState # "STOP"

\* A drag whose pointer is up ends, unless its watchdog was refused or cancelled.
LiftedEnds == lifted ~> (~lifted \/ "up" \in tm.lost)

\* A drag that has ended makes room for the next one: its animation comes to
\* its end, with frames or without, unless its timer was refused or cancelled.
\* Left out are the drags that wait for their client or had no nonce.
WindowFreed ==
    draw.isRunning /\ dragState = "STOP" /\ draw.waits = {} ~> ~draw.isRunning \/ "anim" \in tm.lost
=============================================================================
