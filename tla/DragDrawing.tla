---------------------------- MODULE DragDrawing ------------------------------
(***************************************************************************)
(* The window that follows a drag: DragDrawing, the animation that ends a  *)
(* drag on the thread of its event handler, and the timers that the drag   *)
(* code sets.  A timer is known by its id only, and the service gives the  *)
(* id of a timer that has fired to the next one that is added.             *)
(***************************************************************************)
EXTENDS Integers, FiniteSets

CONSTANTS
    MaxTimers,  \* MAX_TIMER_COUNT
    MaxEnds     \* bound on the FOLLOW_HAND_MORPH animations that are running

ASSUME TimerAssumption == MaxTimers \in Nat /\ MaxEnds \in Nat

VARIABLES
    tm,    \* the timers of the service
    draw   \* g_drawingInfo, handler_ and what runs on its thread

drawingVars == <<tm, draw>>

\* Who keeps a timer id: DragManager::timerId_, mouseDragMonitorTimerId_,
\* g_drawingInfo.timerId and DragDrawing::timerId_
Holder == {"up", "mouse", "anim", "rotate"}
Free == "free"
Other == "other"   \* a timer of somebody else
TimerId == 0..(MaxTimers - 1)
NONE == -1

DrawingInit ==
    /\ tm = [at |-> [i \in TimerId |-> Free], held |-> [h \in Holder |-> NONE], lost |-> {}]
    /\ draw = [isRunning |-> FALSE, window |-> FALSE, morph |-> FALSE, anim |-> "none",
               vsync |-> FALSE, forced |-> FALSE, needDestroy |-> FALSE, effect |-> FALSE,
               rotating |-> FALSE, ends |-> 0, waits |-> {}]

-----------------------------------------------------------------------------
(* TimerManager as the drag code sees it.  t.lost has the holders whose last
   timer was refused, or cancelled by somebody else. *)

Has(t, h) == \E i \in TimerId : t.at[i] = h

\* The lowest id no timer has
TakeNextTimerId(t) ==
    LET free == {i \in TimerId : t.at[i] = Free} IN
    IF free = {} THEN NONE ELSE CHOOSE i \in free : \A j \in free : i <= j

AddTimer(t, h) ==
    LET id == TakeNextTimerId(t) IN
    IF id = NONE
    THEN [at |-> t.at, held |-> [t.held EXCEPT ![h] = NONE], lost |-> t.lost \cup {h}]
    ELSE [at |-> [t.at EXCEPT ![id] = h], held |-> [t.held EXCEPT ![h] = id], lost |-> t.lost \ {h}]

\* RemoveTimer of the id that h keeps, whoever has it now
RemoveTimer(t, h) ==
    IF t.held[h] = NONE THEN t
    ELSE [at   |-> [t.at EXCEPT ![t.held[h]] = Free],
          held |-> [t.held EXCEPT ![h] = NONE],
          lost |-> t.lost \cup ({t.at[t.held[h]]} \cap (Holder \ {h}))]

Fired(t, i) == [t EXCEPT !.at = [@ EXCEPT ![i] = Free]]

-----------------------------------------------------------------------------
(* What the operations on the window do *)

\* Init, InitDrawingInfo, CreateWindow and InitLayer
InitWindow(d, morph) == [d EXCEPT !.isRunning = TRUE, !.window = TRUE, !.morph = morph]

\* ResetParameter and the release of the nodes
DestroyDragWindow(d) ==
    [d EXCEPT !.window = FALSE, !.morph = FALSE, !.needDestroy = FALSE, !.rotating = FALSE]

\* Seeded fault: UpdateDrawingState is forgotten.
ReleaseStillRunning(d) == DestroyDragWindow(d)

\* DestroyDragWindow and UpdateDrawingState
Release(d) == [DestroyDragWindow(d) EXCEPT !.isRunning = FALSE, !.waits = {}]

\* OnDragSuccess and OnDragFail: RunAnimation posts InitVSync to a new handler,
\* unless the nodes are gone.
RunAnimation(d) ==
    IF d.window THEN [d EXCEPT !.anim = "posted", !.vsync = FALSE, !.forced = FALSE] ELSE d

\* RunDestopAnimation: it fails, or starts the animation of the desktop, or
\* fails inside of it (DoDestopAnimation).  d.waits records that the window is
\* now the business of the client.
RunDestopAnimation(d) ==
    {Release(d)} \cup
    (IF d.window /\ d.ends < MaxEnds
     THEN {[d EXCEPT !.ends = @ + 1, !.waits = @ \cup {"client"}],
           [Release(d) EXCEPT !.ends = @ + 1]}
     ELSE {})

\* UpdateDragWindowState and StopDestopAnimation
UpdateDragWindowState(d, visible, transaction) ==
    IF d.window /\ transaction /\ d.morph /\ ~visible THEN Release(d) ELSE d

\* The tail of ResetAnimationFlag, after it has removed its timer.  It gives up
\* when its modifier is set and the nodes are gone.
EndAnimation(d) ==
    IF d.effect /\ ~d.window THEN [d EXCEPT !.vsync = FALSE, !.forced = FALSE, !.anim = "frames"]
    ELSE [Release(d) EXCEPT !.anim = "none", !.vsync = FALSE, !.forced = FALSE, !.effect = FALSE]

\* Where EndAnimation comes to its end, it also clears g_drawingInfo.timerId.
AnimationTimer(t, d) == IF d.effect /\ ~d.window THEN t ELSE [t EXCEPT !.held = [@ EXCEPT !["anim"] = NONE]]

-----------------------------------------------------------------------------
(* The thread of the handler *)

\* Seeded fault: no timer watches the animation.
InitVSyncUnwatched ==
    /\ draw.anim = "posted" /\ draw.window
    /\ \E requested \in BOOLEAN :
          draw' = [draw EXCEPT !.anim = "frames", !.effect = TRUE, !.needDestroy = TRUE, !.vsync = requested]
    /\ UNCHANGED tm

\* InitVSync, DoEndAnimation and StartVsync, which may fail
InitVSync ==
    /\ draw.anim = "posted"
    /\ IF draw.window
       THEN /\ tm' = AddTimer(tm, "anim")
            /\ \E requested \in BOOLEAN :
                  draw' = [draw EXCEPT !.anim = "frames", !.effect = TRUE, !.needDestroy = TRUE,
                                       !.vsync = requested]
       ELSE draw' = [draw EXCEPT !.anim = "frames"] /\ UNCHANGED tm

\* OnVsync asks for another frame and does not get it.
RequestNextVSyncFails ==
    /\ draw.anim = "frames" /\ draw.vsync
    /\ draw' = [draw EXCEPT !.vsync = FALSE]
    /\ UNCHANGED tm

\* OnVsync after the last frame: ResetAnimationFlag asks the service thread to
\* remove the timer, unless the window is gone.
OnVsync ==
    /\ draw.anim = "frames" /\ draw.vsync
    /\ draw' = IF draw.needDestroy THEN [draw EXCEPT !.anim = "removing"] ELSE [draw EXCEPT !.vsync = FALSE]
    /\ UNCHANGED tm

\* ResetAnimationFlag(false) with the RemoveTimer it waits for
ResetAnimationFlag ==
    /\ draw.anim = "removing"
    /\ draw' = EndAnimation(draw)
    /\ tm' = AnimationTimer(RemoveTimer(tm, "anim"), draw)

\* ResetAnimationFlag(true), the task of the timer
ForceResetAnimationFlag ==
    /\ draw.forced /\ draw.anim = "frames"
    /\ draw' = EndAnimation(draw)
    /\ tm' = AnimationTimer(tm, draw)

\* OnAnimationEndCallBack: without the client's session the window is
\* destroyed at once.
OnAnimationEndCallBack ==
    /\ draw.ends > 0
    /\ LET d == [draw EXCEPT !.ends = @ - 1] IN draw' \in {d, Release(d)}
    /\ UNCHANGED tm

-----------------------------------------------------------------------------
(* Timers *)

\* The callback of DoEndAnimation's timer
AnimationTimeout(i) ==
    /\ tm.at[i] = "anim"
    /\ tm' = Fired(tm, i)
    /\ draw' = [draw EXCEPT !.forced = @ \/ draw.anim # "none"]

\* Seeded fault: the window is not let go.
RotateTimeoutStill(i) ==
    /\ tm.at[i] = "rotate"
    /\ tm' = Fired(tm, i)
    /\ UNCHANGED draw

\* The callback of RotateDragWindowAsync's timer, which leaves timerId_ as it is
RotateTimeout(i) ==
    /\ tm.at[i] = "rotate"
    /\ tm' = Fired(tm, i)
    /\ draw' = [draw EXCEPT !.rotating = FALSE]

\* RotateDragWindowAsync, once it has tried to add its timer
RotateAsync(t, d) == [d EXCEPT !.rotating = t.held["rotate"] # NONE]

\* Somebody else adds a timer, and it fires.
OthersAddTimer ==
    /\ TakeNextTimerId(tm) # NONE
    /\ tm' = [tm EXCEPT !.at[TakeNextTimerId(tm)] = Other]
    /\ UNCHANGED draw

OthersTimeout(i) ==
    /\ tm.at[i] = Other
    /\ tm' = Fired(tm, i)
    /\ UNCHANGED draw

Handler == InitVSync \/ OnVsync \/ ResetAnimationFlag \/ ForceResetAnimationFlag

DrawingStep ==
    \/ Handler
    \/ RequestNextVSyncFails
    \/ OnAnimationEndCallBack
    \/ OthersAddTimer
    \/ \E i \in TimerId : AnimationTimeout(i) \/ RotateTimeout(i) \/ OthersTimeout(i)
=============================================================================
