-------------------------- MODULE DragManagerProofs ---------------------------
(***************************************************************************)
(* Proofs about DragManager, for any number of timers, animations, tasks   *)
(* and calls.                                                              *)
(*                                                                         *)
(* WatchdogSet and RotationEnds are about timers that are known by their   *)
(* ids only: the lemmas about AddTimer, RemoveTimer and Fired say what an  *)
(* operation of one holder does to the timers of the others.  DrawingEnds  *)
(* needs that the drawing never runs without its window, and PointerBack   *)
(* that the pointer is hidden for a drag with the mouse only.              *)
(***************************************************************************)
EXTENDS DragManager, WellFoundedInduction, TLAPS

TmType ==
    [at : [TimerId -> Holder \cup {Free, Other}], held : [Holder -> TimerId \cup {NONE}],
     lost : SUBSET Holder]

DrawType ==
    [isRunning : BOOLEAN, window : BOOLEAN, morph : BOOLEAN,
     anim : {"none", "posted", "frames", "removing"}, vsync : BOOLEAN, forced : BOOLEAN,
     needDestroy : BOOLEAN, effect : BOOLEAN, rotating : BOOLEAN, ends : 0..MaxEnds,
     waits : SUBSET {"nonce", "client"}]

\* A timer of h is set, or it was refused or cancelled.
Watched(t, h) == Has(t, h) \/ h \in t.lost

\* Something is on its way that ends the drawing d.
Ending(d) == d.anim # "none" \/ d.waits # {}

\* The step from d to e starts no drawing and no rotation, and does not forget
\* what ends the drawing.
Keeps(d, e) ==
    /\ e \in DrawType
    /\ e.isRunning => e.window
    /\ e.isRunning => d.isRunning
    /\ e.isRunning /\ Ending(d) => Ending(e)
    /\ e.rotating => d.rotating

IInv ==
    /\ TypeOK
    /\ draw.isRunning => draw.window
    /\ cursor = "hidden" => source = "mouse"
    /\ dragState = "STOP" => ~lifted
    /\ MonitorsOwned
    /\ DrawingEnds
    /\ WatchdogSet
    /\ RotationEnds
    /\ PointerBack

-----------------------------------------------------------------------------
(* Timers *)

LEMMA LowestNat ==
  ASSUME NEW T, T \subseteq Nat, T # {}
  PROVE  \E i \in T : \A j \in T : i <= j
<1> DEFINE R == OpToRel(<, Nat)
<1>1. IsWellFoundedOn(R, Nat)
  BY NatLessThanWellFounded
<1>2. \A i, j \in Nat : i < j => <<i, j>> \in R
  BY DEF OpToRel
<1> HIDE DEF R
<1>3. PICK i \in T : \A j \in T : ~(<<j, i>> \in R)
  BY <1>1, WFMin
<1>4. \A j \in T : ~(j < i)
  BY <1>2, <1>3
<1> QED BY <1>4

LEMMA NextIdIsFree ==
  ASSUME NEW t \in TmType
  PROVE  /\ TakeNextTimerId(t) \in TimerId \cup {NONE}
         /\ TakeNextTimerId(t) # NONE => t.at[TakeNextTimerId(t)] = Free
<1> DEFINE free == {i \in TimerId : t.at[i] = Free}
<1>1. CASE free = {}
  BY <1>1 DEF TakeNextTimerId, NONE
<1>2. CASE free # {}
  <2>1. free \subseteq Nat
    BY TimerAssumption DEF TimerId
  <2>2. \E i \in free : \A j \in free : i <= j
    BY <1>2, <2>1, LowestNat
  <2>3. TakeNextTimerId(t) = CHOOSE i \in free : \A j \in free : i <= j
    BY <1>2 DEF TakeNextTimerId
  <2>4. TakeNextTimerId(t) \in free
    BY <2>2, <2>3
  <2> QED BY <2>4
<1> QED BY <1>1, <1>2

\* A timer that is added takes no id that somebody still uses.
LEMMA AddTimerKeeps ==
  ASSUME NEW t \in TmType, NEW h \in Holder
  PROVE  /\ AddTimer(t, h) \in TmType
         /\ Watched(AddTimer(t, h), h)
         /\ \A g \in Holder : Watched(t, g) => Watched(AddTimer(t, h), g)
<1> DEFINE id == TakeNextTimerId(t)
<1>0. id \in TimerId \cup {NONE} /\ (id # NONE => t.at[id] = Free)
  BY NextIdIsFree
<1> HIDE DEF id
<1>1. CASE id = NONE
  <2>1. AddTimer(t, h) = [at |-> t.at, held |-> [t.held EXCEPT ![h] = NONE], lost |-> t.lost \cup {h}]
    BY <1>1 DEF AddTimer, id
  <2> QED BY <2>1 DEF TmType, Watched, Has
<1>2. CASE id # NONE
  <2>1. AddTimer(t, h) = [at |-> [t.at EXCEPT ![id] = h], held |-> [t.held EXCEPT ![h] = id],
                          lost |-> t.lost \ {h}]
    BY <1>2 DEF AddTimer, id
  <2>2. AddTimer(t, h) \in TmType
    BY <1>0, <1>2, <2>1 DEF TmType
  <2>3. Watched(AddTimer(t, h), h)
    BY <1>0, <1>2, <2>1 DEF TmType, Watched, Has
  <2>4. ASSUME NEW g \in Holder, Watched(t, g)
        PROVE  Watched(AddTimer(t, h), g)
    BY <1>0, <1>2, <2>1, <2>3, <2>4 DEF TmType, Watched, Has, Holder, Free
  <2> QED BY <2>2, <2>3, <2>4
<1> QED BY <1>1, <1>2

\* Whoever had the id of a timer that is removed is in lost.
LEMMA RemoveTimerKeeps ==
  ASSUME NEW t \in TmType, NEW h \in Holder
  PROVE  /\ RemoveTimer(t, h) \in TmType
         /\ \A g \in Holder \ {h} : Watched(t, g) => Watched(RemoveTimer(t, h), g)
<1>1. CASE t.held[h] = NONE
  BY <1>1 DEF RemoveTimer
<1>2. CASE t.held[h] # NONE
  <2>0. t.held[h] \in TimerId
    BY <1>2 DEF TmType
  <2>1. RemoveTimer(t, h) = [at   |-> [t.at EXCEPT ![t.held[h]] = Free],
                             held |-> [t.held EXCEPT ![h] = NONE],
                             lost |-> t.lost \cup ({t.at[t.held[h]]} \cap (Holder \ {h}))]
    BY <1>2 DEF RemoveTimer
  <2>2. RemoveTimer(t, h) \in TmType
    BY <2>0, <2>1 DEF TmType
  <2>3. ASSUME NEW g \in Holder \ {h}, Watched(t, g)
        PROVE  Watched(RemoveTimer(t, h), g)
    BY <2>0, <2>1, <2>3 DEF TmType, Watched, Has
  <2> QED BY <2>2, <2>3
<1> QED BY <1>1, <1>2

LEMMA FiredKeeps ==
  ASSUME NEW t \in TmType, NEW i \in TimerId
  PROVE  /\ Fired(t, i) \in TmType
         /\ \A g \in Holder : g # t.at[i] /\ Watched(t, g) => Watched(Fired(t, i), g)
BY DEF Fired, TmType, Watched, Has

\* The watched holders and the holders' ids are all that AnimationTimer changes.
LEMMA AnimationTimerKeeps ==
  ASSUME NEW t \in TmType, NEW d \in DrawType
  PROVE  /\ AnimationTimer(t, d) \in TmType
         /\ \A g \in Holder : Watched(t, g) => Watched(AnimationTimer(t, d), g)
BY DEF AnimationTimer, TmType, Watched, Has, Holder

-----------------------------------------------------------------------------
(* The window *)

LEMMA ReleaseKeeps ==
  ASSUME NEW d \in DrawType
  PROVE  /\ Release(d) \in DrawType /\ ~Release(d).isRunning /\ ~Release(d).rotating
         /\ Release(d).ends = d.ends /\ Keeps(d, Release(d))
<1>1. Release(d) = [d EXCEPT !.window = FALSE, !.morph = FALSE, !.needDestroy = FALSE,
                             !.rotating = FALSE, !.isRunning = FALSE, !.waits = {}]
  BY DEF Release, DestroyDragWindow, DrawType
<1>2. Release(d) \in DrawType /\ ~Release(d).isRunning /\ ~Release(d).rotating /\ Release(d).ends = d.ends
  BY <1>1 DEF DrawType
<1> QED BY <1>2 DEF Keeps

LEMMA InitWindowType ==
  ASSUME NEW d \in DrawType, NEW mor \in BOOLEAN
  PROVE  /\ InitWindow(d, mor) \in DrawType
         /\ InitWindow(d, mor).isRunning /\ InitWindow(d, mor).window
         /\ InitWindow(d, mor).rotating = d.rotating
BY DEF InitWindow, DrawType

LEMMA EndAnimationKeeps ==
  ASSUME NEW d \in DrawType, d.isRunning => d.window
  PROVE  Keeps(d, EndAnimation(d))
<1>1. CASE d.effect /\ ~d.window
  <2>1. EndAnimation(d) = [d EXCEPT !.vsync = FALSE, !.forced = FALSE, !.anim = "frames"]
    BY <1>1 DEF EndAnimation
  <2> QED BY <1>1, <2>1 DEF Keeps, DrawType, Ending
<1>2. CASE ~(d.effect /\ ~d.window)
  <2>1. EndAnimation(d) = [Release(d) EXCEPT !.anim = "none", !.vsync = FALSE, !.forced = FALSE,
                                             !.effect = FALSE]
    BY <1>2 DEF EndAnimation
  <2>2. EndAnimation(d) \in DrawType /\ ~EndAnimation(d).isRunning /\ ~EndAnimation(d).rotating
    BY <2>1, ReleaseKeeps DEF DrawType
  <2> QED BY <2>2 DEF Keeps
<1> QED BY <1>1, <1>2

\* When a drag ends, the drawing ends at once or something will end it.
LEMMA HandleDragResultEnds ==
  ASSUME draw \in DrawType, draw.isRunning => draw.window,
         NEW result, NEW custom, NEW d \in HandleDragResult(result, custom)
  PROVE  /\ d \in DrawType
         /\ d.isRunning => d.window /\ Ending(d)
         /\ d.rotating => draw.rotating
<1>1. CASE d = Release(draw)
  BY <1>1, ReleaseKeeps
<1>2. CASE d = RunAnimation(draw)
  <2>1. CASE draw.window
    <3>1. d = [draw EXCEPT !.anim = "posted", !.vsync = FALSE, !.forced = FALSE]
      BY <1>2, <2>1 DEF RunAnimation
    <3> QED BY <3>1, <2>1 DEF DrawType, Ending
  <2>2. CASE ~draw.window
    BY <1>2, <2>2 DEF RunAnimation
  <2> QED BY <2>1, <2>2
<1>3. CASE draw.ends < MaxEnds /\ draw.window /\ d = [draw EXCEPT !.ends = @ + 1, !.waits = @ \cup {"client"}]
  <2>1. draw.ends + 1 \in 0..MaxEnds /\ draw.waits \cup {"client"} \in SUBSET {"nonce", "client"}
        /\ draw.waits \cup {"client"} # {}
    BY <1>3, TimerAssumption DEF DrawType
  <2>2. d \in DrawType /\ d.window = draw.window /\ d.rotating = draw.rotating
    BY <1>3, <2>1 DEF DrawType
  <2>3. d.waits = draw.waits \cup {"client"}
    BY <1>3 DEF DrawType
  <2> QED BY <1>3, <2>1, <2>2, <2>3 DEF Ending
<1>4. CASE draw.ends < MaxEnds /\ d = [Release(draw) EXCEPT !.ends = @ + 1]
  <2>1. d \in DrawType /\ ~d.isRunning /\ ~d.rotating
    BY <1>4, ReleaseKeeps, TimerAssumption DEF DrawType
  <2> QED BY <2>1
<1> QED BY <1>1, <1>2, <1>3, <1>4 DEF HandleDragResult, RunDestopAnimation

-----------------------------------------------------------------------------
(* The thread of the handler, the timers and the end callbacks *)

LEMMA DrawingKeeps ==
  ASSUME IInv, DrawingStep
  PROVE  /\ tm' \in TmType
         /\ Keeps(draw, draw')
         /\ Watched(tm, "up") => Watched(tm', "up")
         /\ draw'.rotating /\ Watched(tm, "rotate") => Watched(tm', "rotate")
<1>0. tm \in TmType /\ draw \in DrawType /\ (draw.isRunning => draw.window)
  BY DEF IInv, TypeOK, TmType, DrawType
<1> USE <1>0 DEF Holder
<1>1. CASE InitVSync
  <2>1. CASE draw.window
    <3>1. tm' = AddTimer(tm, "anim")
      BY <1>1, <2>1 DEF InitVSync
    <3>2. PICK requested \in BOOLEAN :
            draw' = [draw EXCEPT !.anim = "frames", !.effect = TRUE, !.needDestroy = TRUE, !.vsync = requested]
      BY <1>1, <2>1 DEF InitVSync
    <3>3. Keeps(draw, draw')
      BY <3>2, <2>1 DEF Keeps, DrawType, Ending
    <3> QED BY <3>1, <3>3, AddTimerKeeps
  <2>2. CASE ~draw.window
    BY <1>1, <2>2 DEF InitVSync, Keeps, DrawType, Ending
  <2> QED BY <2>1, <2>2
<1>2. CASE OnVsync \/ RequestNextVSyncFails
  <2>1. draw' = [draw EXCEPT !.anim = "removing"] \/ draw' = [draw EXCEPT !.vsync = FALSE]
    BY <1>2 DEF OnVsync, RequestNextVSyncFails
  <2>2. Keeps(draw, draw')
    BY <2>1 DEF Keeps, DrawType, Ending
  <2> QED BY <1>2, <2>2 DEF OnVsync, RequestNextVSyncFails
<1>3. CASE ResetAnimationFlag
  <2>1. tm' = AnimationTimer(RemoveTimer(tm, "anim"), draw) /\ draw' = EndAnimation(draw)
    BY <1>3 DEF ResetAnimationFlag
  <2>2. /\ RemoveTimer(tm, "anim") \in TmType
        /\ \A g \in Holder \ {"anim"} : Watched(tm, g) => Watched(RemoveTimer(tm, "anim"), g)
    BY RemoveTimerKeeps
  <2>3. tm' \in TmType /\ \A g \in Holder : Watched(RemoveTimer(tm, "anim"), g) => Watched(tm', g)
    BY <2>1, <2>2, AnimationTimerKeeps
  <2> QED BY <2>1, <2>2, <2>3, EndAnimationKeeps
<1>4. CASE ForceResetAnimationFlag
  BY <1>4, AnimationTimerKeeps, EndAnimationKeeps DEF ForceResetAnimationFlag
<1>5. CASE OnAnimationEndCallBack
  <2> DEFINE d == [draw EXCEPT !.ends = @ - 1]
  <2>1. d \in DrawType /\ Keeps(draw, d)
    BY <1>5, TimerAssumption DEF OnAnimationEndCallBack, Keeps, DrawType, Ending
  <2>2. draw' = d \/ draw' = Release(d)
    BY <1>5 DEF OnAnimationEndCallBack
  <2>3. Keeps(draw, draw')
    BY <2>1, <2>2, ReleaseKeeps DEF Keeps
  <2> QED BY <1>5, <2>3 DEF OnAnimationEndCallBack
<1>6. CASE OthersAddTimer
  <2> DEFINE id == TakeNextTimerId(tm)
  <2>1. id \in TimerId /\ tm.at[id] = Free
    BY <1>6, NextIdIsFree DEF OthersAddTimer
  <2> HIDE DEF id
  <2>2. tm' = [tm EXCEPT !.at = [tm.at EXCEPT ![id] = Other]]
    BY <1>6 DEF OthersAddTimer, id
  <2>3. tm' \in TmType
    BY <2>1, <2>2 DEF TmType
  <2>4. \A g \in Holder : Watched(tm, g) => Watched(tm', g)
    BY <2>1, <2>2 DEF TmType, Watched, Has, Free
  <2>5. Keeps(draw, draw')
    BY <1>6 DEF OthersAddTimer, Keeps
  <2> QED BY <2>3, <2>4, <2>5
<1>7. ASSUME NEW i \in TimerId, AnimationTimeout(i) \/ RotateTimeout(i) \/ OthersTimeout(i)
      PROVE  /\ tm' \in TmType
             /\ Keeps(draw, draw')
             /\ Watched(tm, "up") => Watched(tm', "up")
             /\ draw'.rotating /\ Watched(tm, "rotate") => Watched(tm', "rotate")
  <2>1. tm' = Fired(tm, i)
    BY <1>7 DEF AnimationTimeout, RotateTimeout, OthersTimeout
  <2>2. tm' \in TmType /\ \A g \in Holder : g # tm.at[i] /\ Watched(tm, g) => Watched(tm', g)
    BY <2>1, FiredKeeps
  <2>3. CASE AnimationTimeout(i)
    <3>1. Keeps(draw, draw')
      BY <2>3 DEF AnimationTimeout, Keeps, DrawType, Ending
    <3> QED BY <2>2, <2>3, <3>1 DEF AnimationTimeout
  <2>4. CASE RotateTimeout(i)
    <3>1. Keeps(draw, draw') /\ ~draw'.rotating
      BY <2>4 DEF RotateTimeout, Keeps, DrawType, Ending
    <3> QED BY <2>2, <2>4, <3>1 DEF RotateTimeout
  <2>5. CASE OthersTimeout(i)
    <3>1. Keeps(draw, draw')
      BY <2>5 DEF OthersTimeout, Keeps
    <3> QED BY <2>2, <2>5, <3>1 DEF OthersTimeout, Other
  <2> QED BY <1>7, <2>3, <2>4, <2>5
<1> QED BY <1>1, <1>2, <1>3, <1>4, <1>5, <1>6, <1>7 DEF DrawingStep, Handler

-----------------------------------------------------------------------------
(* The invariant *)

\* What the types say of the manager's own variables.
ManagerType ==
    /\ dragState \in {"STOP", "START", "MOTION"}
    /\ source \in Source \cup {"none"}
    /\ morph \in BOOLEAN
    /\ monitors \subseteq {"pointer", "key"}
    /\ stray \in BOOLEAN /\ mouseOn \in BOOLEAN /\ controlled \in BOOLEAN
    /\ cursor \in {"shown", "hidden", "left"}
    /\ ups \in 0..MaxUps
    /\ lifted \in BOOLEAN

\* The invariant in the parts that an action is checked against.
TimersPart == tm \in TmType /\ (lifted => Watched(tm, "up")) /\ (draw.rotating => Watched(tm, "rotate"))

DrawPart ==
    /\ draw \in DrawType
    /\ draw.isRunning => draw.window
    /\ draw.isRunning /\ dragState = "STOP" => Ending(draw)

ManagerPart ==
    /\ ManagerType
    /\ cursor = "hidden" => source = "mouse" /\ dragState # "STOP"
    /\ dragState = "STOP" => ~lifted
    /\ MonitorsOwned

LEMMA Parts == IInv <=> TimersPart /\ DrawPart /\ ManagerPart
BY DEF IInv, TypeOK, TimersPart, DrawPart, ManagerPart, ManagerType, TmType, DrawType, Watched, Ending,
       DrawingEnds, WatchdogSet, RotationEnds, PointerBack

LEMMA PartsPrimed == (TimersPart /\ DrawPart /\ ManagerPart)' => IInv'
BY DEF IInv, TypeOK, TimersPart, DrawPart, ManagerPart, ManagerType, TmType, DrawType, Watched, Ending,
       DrawingEnds, WatchdogSet, RotationEnds, PointerBack

LEMMA InitIInv == Init => IInv
<1> SUFFICES ASSUME Init PROVE IInv
  OBVIOUS
<1>1. tm \in TmType
  BY DEF Init, DrawingInit, TmType
<1>2. draw \in DrawType /\ ~draw.isRunning /\ ~draw.rotating
  <2>1. 0 \in 0..MaxEnds /\ {} \in SUBSET {"nonce", "client"}
    BY TimerAssumption
  <2> QED BY <2>1 DEF Init, DrawingInit, DrawType
<1>3. ManagerPart
  <2>1. 0 \in 0..MaxUps /\ FALSE \in BOOLEAN
    BY BoundAssumption
  <2>2. ManagerType
    BY <2>1, Zenon DEF Init, ManagerType
  <2> QED BY <2>2, Zenon DEF Init, ManagerPart, MonitorsOwned
<1>4. TimersPart /\ DrawPart
  BY <1>1, <1>2 DEF Init, TimersPart, DrawPart
<1> QED BY <1>3, <1>4, Parts

-----------------------------------------------------------------------------
(* Starting and ending a drag *)

LEMMA MouseTimerReset ==
  ASSUME TimersPart, NEW s
  PROVE  /\ ResetMouseDragMonitorTimerId(s) \in TmType
         /\ \A g \in {"up", "rotate"} : Watched(tm, g) => Watched(ResetMouseDragMonitorTimerId(s), g)
<1>1. RemoveTimer(tm, "mouse") \in TmType
      /\ \A g \in {"up", "rotate"} : Watched(tm, g) => Watched(RemoveTimer(tm, "mouse"), g)
  BY RemoveTimerKeeps DEF TimersPart, Holder
<1> QED BY <1>1 DEF ResetMouseDragMonitorTimerId, TimersPart

\* AddDragEventHandler never leaves a pointer monitor without a key monitor.
LEMMA AddedMonitors ==
  ASSUME ManagerPart, NEW r \in AddDragEvent(monitors) \cup AddDragEventHandler(monitors)
  PROVE  /\ r.monitors \subseteq {"pointer", "key"}
         /\ "pointer" \in r.monitors => "key" \in r.monitors
         /\ ~r.ok /\ "pointer" \in r.monitors => "pointer" \in monitors
<1>0. monitors \subseteq {"pointer", "key"} /\ ("pointer" \in monitors => "key" \in monitors)
  BY DEF ManagerPart, ManagerType, MonitorsOwned
<1>1. \/ r = [ok |-> TRUE, monitors |-> monitors]
      \/ r = [ok |-> FALSE, monitors |-> monitors \cup {"key"}]
      \/ r = [ok |-> FALSE, monitors |-> monitors]
      \/ r = [ok |-> FALSE, monitors |-> {"key"}]
      \/ r = [ok |-> TRUE, monitors |-> {"key", "pointer"}]
  BY DEF AddDragEvent, AddDragEventHandler
<1>2. \/ r.monitors = monitors
      \/ r.monitors = monitors \cup {"key"}
      \/ r.monitors = {"key"}
      \/ r.monitors = {"key", "pointer"} /\ r.ok
  BY <1>1
<1> QED BY <1>0, <1>2

LEMMA StartRefusedKeeps ==
  ASSUME IInv, NEW s \in Source, StartDragRefused(s)
  PROVE  IInv'
<1>1. TimersPart /\ DrawPart /\ ManagerPart
  BY Parts
<1>2. TimersPart'
  BY <1>1, MouseTimerReset DEF StartDragRefused, TimersPart, managerVars
<1>3. DrawPart' /\ ManagerPart'
  BY <1>1 DEF StartDragRefused, DrawPart, ManagerPart, ManagerType, MonitorsOwned, managerVars
<1> QED BY <1>2, <1>3, PartsPrimed

LEMMA StartFailsKeeps ==
  ASSUME IInv, NEW s \in Source, NEW mor \in BOOLEAN, StartDragFails(s, mor)
  PROVE  IInv'
<1>1. TimersPart /\ DrawPart /\ ManagerPart
  BY Parts
<1>2. TimersPart'
  <2>1. tm' = RemoveTimer(ResetMouseDragMonitorTimerId(s), "mouse") /\ lifted' = lifted
        /\ draw' = Release(InitWindow(draw, mor))
    BY DEF StartDragFails
  <2>2. tm' \in TmType /\ \A g \in {"up", "rotate"} : Watched(tm, g) => Watched(tm', g)
    BY <1>1, <2>1, MouseTimerReset, RemoveTimerKeeps DEF Holder
  <2>3. ~draw'.rotating
    BY <1>1, <2>1, InitWindowType, ReleaseKeeps DEF DrawPart
  <2> QED BY <1>1, <2>1, <2>2, <2>3 DEF TimersPart
<1>3. DrawPart'
  BY <1>1, InitWindowType, ReleaseKeeps DEF StartDragFails, DrawPart
<1>4. ManagerPart'
  <2>1. PICK m \in {monitors} \cup {r.monitors : r \in {x \in AddDragEvent(monitors) : ~x.ok}} :
          ResetMouseDragMonitorInfo(m)
    BY DEF StartDragFails
  <2>2. m \subseteq {"pointer", "key"} /\ ("pointer" \in m => "key" \in m)
    BY <1>1, AddedMonitors DEF ManagerPart, ManagerType, MonitorsOwned
  <2>3. monitors' \subseteq {"pointer", "key"} /\ "pointer" \notin monitors' /\ stray' = FALSE /\ mouseOn' = FALSE
    BY <2>1, <2>2 DEF ResetMouseDragMonitorInfo, RemoveDragEventHandler
  <2>4. dragState = "STOP" /\ source' = s /\ controlled' = FALSE /\ UNCHANGED <<dragState, morph, cursor, ups, lifted>>
    BY DEF StartDragFails, StartDragBegins, StartRefused
  <2> QED BY <1>1, <2>3, <2>4 DEF ManagerPart, ManagerType, MonitorsOwned
<1> QED BY <1>2, <1>3, <1>4, PartsPrimed

LEMMA StartKeeps ==
  ASSUME IInv, NEW s \in Source, NEW mor \in BOOLEAN,
         StartDragNonceFails(s, mor) \/ StartDragSucceeds(s, mor)
  PROVE  IInv'
<1>1. TimersPart /\ DrawPart /\ ManagerPart
  BY Parts
<1>2. /\ dragState = "STOP" /\ source' = s /\ controlled' = FALSE
      /\ tm' = ResetMouseDragMonitorTimerId(s)
      /\ UNCHANGED <<mouseOn, cursor, ups>>
      /\ \E r \in AddDragEvent(monitors) : r.ok /\ monitors' = r.monitors
      /\ \/ /\ draw' = [InitWindow(draw, mor) EXCEPT !.waits = {"nonce"}]
            /\ stray' = TRUE /\ UNCHANGED <<dragState, morph, lifted>>
         \/ /\ draw' = InitWindow(draw, mor)
            /\ morph' = mor /\ dragState' = "START" /\ lifted' = FALSE /\ UNCHANGED stray
  BY DEF StartDragNonceFails, StartDragSucceeds, StartDragBegins, StartRefused
<1>3. DrawPart' /\ draw'.rotating = draw.rotating
  <2>1. InitWindow(draw, mor) \in DrawType /\ InitWindow(draw, mor).window
        /\ InitWindow(draw, mor).rotating = draw.rotating
    BY <1>1, InitWindowType DEF DrawPart
  <2>2. CASE draw' = [InitWindow(draw, mor) EXCEPT !.waits = {"nonce"}]
    <3>1. draw' \in DrawType /\ draw'.window /\ draw'.rotating = draw.rotating /\ draw'.waits = {"nonce"}
      BY <2>1, <2>2 DEF DrawType
    <3> QED BY <3>1 DEF DrawPart, Ending
  <2>3. CASE draw' = InitWindow(draw, mor) /\ dragState' = "START"
    BY <2>1, <2>3 DEF DrawPart
  <2> QED BY <1>2, <2>2, <2>3
<1>4. TimersPart'
  BY <1>1, <1>2, <1>3, MouseTimerReset DEF TimersPart
<1>5. ManagerPart'
  <2>1. monitors' \subseteq {"pointer", "key"} /\ ("pointer" \in monitors' => "key" \in monitors')
    BY <1>1, <1>2, AddedMonitors
  <2>2. cursor' # "hidden"
    BY <1>1, <1>2 DEF ManagerPart
  <2>3. ManagerType'
    BY <1>1, <1>2, <2>1 DEF ManagerPart, ManagerType
  <2>4. MonitorsOwned'
    BY <1>2, <2>1 DEF MonitorsOwned
  <2>5. dragState' = "STOP" => ~lifted'
    BY <1>1, <1>2 DEF ManagerPart
  <2> QED BY <2>2, <2>3, <2>4, <2>5 DEF ManagerPart
<1> QED BY <1>3, <1>4, <1>5, PartsPrimed

LEMMA StopKeeps ==
  ASSUME IInv, NEW result, NEW custom, NEW local, NEW t \in TmType, StopDragWith(result, custom, local, t),
         Watched(tm, "rotate") => Watched(t, "rotate")
  PROVE  IInv'
<1>1. TimersPart /\ DrawPart /\ ManagerPart
  BY Parts
<1>2. draw' \in DrawType /\ (draw'.isRunning => draw'.window /\ Ending(draw'))
      /\ (draw'.rotating => draw.rotating)
  BY <1>1, HandleDragResultEnds DEF StopDragWith, DrawPart
<1>3. tm' = t /\ ~lifted' /\ dragState' = "STOP"
  BY DEF StopDragWith
<1>4. TimersPart' /\ DrawPart'
  BY <1>1, <1>2, <1>3 DEF TimersPart, DrawPart
<1>5. ManagerPart'
  <2>1. cursor' \in {"shown", "left", "hidden"} /\ cursor' # "hidden"
    BY <1>1 DEF StopDragWith, PointerAfterStop, ManagerPart, ManagerType
  <2>2. monitors' \subseteq {"pointer", "key"} /\ "pointer" \notin monitors'
    BY <1>1 DEF StopDragWith, OnStopDragMonitors, ManagerPart, ManagerType
  <2> QED BY <1>1, <2>1, <2>2 DEF StopDragWith, ManagerPart, ManagerType, MonitorsOwned
<1> QED BY <1>4, <1>5, PartsPrimed

-----------------------------------------------------------------------------
(* Every step *)

LEMMA CallsKeep ==
  ASSUME IInv, Calls
  PROVE  IInv'
<1>0. TimersPart /\ DrawPart /\ ManagerPart
  BY Parts
<1>1. ASSUME NEW result \in Result, NEW custom \in BOOLEAN, NEW local \in BOOLEAN,
             StopDrag(result, custom, local)
      PROVE  IInv'
  <2>1. StopTimer(result) \in TmType /\ (Watched(tm, "rotate") => Watched(StopTimer(result), "rotate"))
    BY <1>0, RemoveTimerKeeps DEF StopTimer, TimersPart, Holder
  <2> QED BY <1>1, <2>1, StopKeeps DEF StopDrag
<1>2. ASSUME NEW visible \in BOOLEAN, NEW isForce \in BOOLEAN, NEW transaction \in BOOLEAN,
             OnSetDragWindowVisible(visible, isForce, transaction)
      PROVE  IInv'
  <2>1. Keeps(draw, draw')
    <3>1. Keeps(draw, draw)
      BY <1>0 DEF DrawPart, Keeps
    <3> QED BY <1>0, <1>2, <3>1, ReleaseKeeps DEF OnSetDragWindowVisible, UpdateDragWindowState, DrawPart
  <2>2. TimersPart' /\ DrawPart'
    BY <1>0, <1>2, <2>1 DEF OnSetDragWindowVisible, TimersPart, DrawPart, Keeps
  <2>3. ManagerPart'
    BY <1>0, <1>2 DEF OnSetDragWindowVisible, ManagerPart, ManagerType, MonitorsOwned
  <2> QED BY <2>2, <2>3, PartsPrimed
<1>3. ASSUME NEW state \in {"START", "MOTION"}, SetDragState(state)
      PROVE  IInv'
  <2>1. TimersPart' /\ DrawPart'
    BY <1>0, <1>3 DEF SetDragState, drawingVars, TimersPart, DrawPart
  <2>2. ManagerPart'
    BY <1>0, <1>3 DEF SetDragState, ManagerPart, ManagerType, MonitorsOwned
  <2> QED BY <2>1, <2>2, PartsPrimed
<1>4. CASE RotateDragWindow \/ RotateDragWindowSync
  <2>1. ManagerPart' /\ UNCHANGED <<dragState, lifted>>
    BY <1>0, <1>4 DEF RotateDragWindow, RotateDragWindowSync, managerVars, ManagerPart, ManagerType, MonitorsOwned
  <2>2. \E value \in BOOLEAN : draw' = [draw EXCEPT !.rotating = value]
    BY <1>4 DEF RotateDragWindow, RotateDragWindowSync, RotateAsync
  <2>3. DrawPart'
    BY <1>0, <2>1, <2>2 DEF DrawPart, DrawType, Ending
  <2>4. TimersPart'
    <3>1. CASE RotateDragWindow
      BY <1>0, <2>1, <3>1, AddTimerKeeps DEF RotateDragWindow, TimersPart, Holder
    <3>2. CASE RotateDragWindowSync
      <4>1. ~draw'.rotating
        BY <1>0, <3>2 DEF RotateDragWindowSync, DrawPart, DrawType
      <4> QED BY <1>0, <2>1, <3>2, <4>1, RemoveTimerKeeps DEF RotateDragWindowSync, TimersPart, Holder
    <3> QED BY <1>4, <3>1, <3>2
  <2> QED BY <2>1, <2>3, <2>4, PartsPrimed
<1>5. CASE MouseDragMonitorOn
  <2>1. PICK r \in AddDragEventHandler(monitors) :
          /\ monitors' = r.monitors
          /\ IF r.ok THEN tm' = AddTimer(tm, "mouse") /\ mouseOn' = TRUE ELSE UNCHANGED <<tm, mouseOn>>
    BY <1>5 DEF MouseDragMonitorOn
  <2>2. TimersPart'
    BY <1>0, <1>5, <2>1, AddTimerKeeps DEF MouseDragMonitorOn, TimersPart, Holder
  <2>3. DrawPart'
    BY <1>0, <1>5 DEF MouseDragMonitorOn, DrawPart
  <2>4. ManagerPart'
    BY <1>0, <1>5, <2>1, AddedMonitors DEF MouseDragMonitorOn, ManagerPart, ManagerType, MonitorsOwned
  <2> QED BY <2>2, <2>3, <2>4, PartsPrimed
<1>6. CASE MouseDragMonitorOff
  <2>1. TimersPart'
    BY <1>0, <1>6, RemoveTimerKeeps DEF MouseDragMonitorOff, TimersPart, Holder
  <2>2. DrawPart'
    BY <1>0, <1>6 DEF MouseDragMonitorOff, DrawPart
  <2>3. ManagerPart'
    BY <1>0, <1>6 DEF MouseDragMonitorOff, ResetMouseDragMonitorInfo, RemoveDragEventHandler, ManagerPart,
                      ManagerType, MonitorsOwned
  <2> QED BY <2>1, <2>2, <2>3, PartsPrimed
<1> QED BY <1>1, <1>2, <1>3, <1>4, <1>5, <1>6, StartRefusedKeeps, StartFailsKeeps, StartKeeps DEF Calls, StartDrag

LEMMA TimeoutsKeep ==
  ASSUME IInv, NEW i \in TimerId, DragTimeout(i) \/ MouseMonitorTimeout(i)
  PROVE  IInv'
<1>0. TimersPart /\ DrawPart /\ ManagerPart
  BY Parts
<1>1. Fired(tm, i) \in TmType /\ \A g \in Holder : g # tm.at[i] /\ Watched(tm, g) => Watched(Fired(tm, i), g)
  BY <1>0, FiredKeeps DEF TimersPart
<1>2. CASE DragTimeout(i)
  <2>1. Watched(tm, "rotate") => Watched(Fired(tm, i), "rotate")
    BY <1>1, <1>2 DEF DragTimeout, Holder
  <2>2. CASE dragState = "STOP"
    <3>1. TimersPart' /\ DrawPart' /\ ManagerPart'
      BY <1>0, <1>1, <1>2, <2>1, <2>2 DEF DragTimeout, TimersPart, DrawPart, ManagerPart, ManagerType,
                                          MonitorsOwned, managerVars
    <3> QED BY <3>1, PartsPrimed
  <2>3. CASE dragState # "STOP"
    BY <1>1, <1>2, <2>1, <2>3, StopKeeps DEF DragTimeout
  <2> QED BY <2>2, <2>3
<1>3. CASE MouseMonitorTimeout(i)
  <2>1. TimersPart'
    BY <1>0, <1>1, <1>3, RemoveTimerKeeps DEF MouseMonitorTimeout, TimersPart, Holder
  <2>2. DrawPart'
    BY <1>0, <1>3 DEF MouseMonitorTimeout, DrawPart
  <2>3. ManagerPart'
    BY <1>0, <1>3 DEF MouseMonitorTimeout, ResetMouseDragMonitorInfo, RemoveDragEventHandler, ManagerPart,
                      ManagerType, MonitorsOwned
  <2> QED BY <2>1, <2>2, <2>3, PartsPrimed
<1> QED BY <1>2, <1>3

LEMMA NextIInv == IInv /\ [Next]_vars => IInv'
<1> SUFFICES ASSUME IInv, [Next]_vars PROVE IInv'
  OBVIOUS
<1>0. TimersPart /\ DrawPart /\ ManagerPart
  BY Parts
<1>1. CASE UNCHANGED vars
  <2>1. TimersPart' /\ DrawPart' /\ ManagerPart'
    BY <1>0, <1>1 DEF vars, drawingVars, managerVars, TimersPart, DrawPart, ManagerPart, ManagerType, MonitorsOwned
  <2> QED BY <2>1, PartsPrimed
<1>2. CASE DragUpCallback
  <2>1. TimersPart' /\ DrawPart'
    BY <1>0, <1>2 DEF DragUpCallback, drawingVars, TimersPart, DrawPart
  <2>2. ManagerPart'
    BY <1>0, <1>2, BoundAssumption DEF DragUpCallback, ManagerPart, ManagerType, MonitorsOwned
  <2> QED BY <2>1, <2>2, PartsPrimed
<1>3. CASE OnDragUp
  <2>1. TimersPart'
    BY <1>0, <1>3, AddTimerKeeps DEF OnDragUp, TimersPart, Holder
  <2>2. DrawPart'
    BY <1>0, <1>3 DEF OnDragUp, DrawPart
  <2>3. ManagerPart'
    <3>1. ups' \in 0..MaxUps /\ UNCHANGED <<dragState, source, morph, monitors, stray, mouseOn, controlled>>
      BY <1>0, <1>3, BoundAssumption DEF OnDragUp, ManagerPart, ManagerType
    <3>2. cursor' \in {"shown", cursor} /\ lifted' \in {TRUE, lifted} /\ (dragState = "STOP" => UNCHANGED lifted)
      BY <1>3 DEF OnDragUp
    <3>3. ManagerType'
      BY <1>0, <3>1, <3>2 DEF ManagerPart, ManagerType
    <3> QED BY <1>0, <3>1, <3>2, <3>3 DEF ManagerPart, MonitorsOwned
  <2> QED BY <2>1, <2>2, <2>3, PartsPrimed
<1>4. CASE Drawing
  <2>1. /\ tm' \in TmType
        /\ Keeps(draw, draw')
        /\ Watched(tm, "up") => Watched(tm', "up")
        /\ draw'.rotating /\ Watched(tm, "rotate") => Watched(tm', "rotate")
    BY <1>4, DrawingKeeps DEF Drawing
  <2>2. TimersPart' /\ DrawPart'
    BY <1>0, <1>4, <2>1 DEF Drawing, managerVars, TimersPart, DrawPart, Keeps
  <2>3. ManagerPart'
    BY <1>0, <1>4 DEF Drawing, managerVars, ManagerPart, ManagerType, MonitorsOwned
  <2> QED BY <2>2, <2>3, PartsPrimed
<1> QED BY <1>1, <1>2, <1>3, <1>4, CallsKeep, TimeoutsKeep DEF Next, Timeouts

-----------------------------------------------------------------------------
(* Theorems *)

\* The inductive invariant holds in every state of the drag manager.
THEOREM Invariance == Spec => []IInv
<1> QED BY InitIInv, NextIInv, PTL DEF Spec

\* Every variable of the drag manager and of its window keeps its type.
THEOREM TypeCorrect == Spec => []TypeOK
<1>1. IInv => TypeOK
  BY DEF IInv
<1> QED BY <1>1, Invariance, PTL

\* The input monitors of a drag come and go together and have an owner
\* (AddDragEventHandler, RemoveDragEventHandler, OnStopDrag).
THEOREM MonitorsOwnedHolds == Spec => []MonitorsOwned
<1>1. IInv => MonitorsOwned
  BY DEF IInv
<1> QED BY <1>1, Invariance, PTL

\* A drawing that outlives its drag is about to be ended (HandleDragResult).
THEOREM DrawingEndsHolds == Spec => []DrawingEnds
<1>1. IInv => DrawingEnds
  BY DEF IInv
<1> QED BY <1>1, Invariance, PTL

\* A drag whose pointer is up has its timer (OnDragUp), with any number of ids.
THEOREM WatchdogSetHolds == Spec => []WatchdogSet
<1>1. IInv => WatchdogSet
  BY DEF IInv
<1> QED BY <1>1, Invariance, PTL

\* A window that is held still for a rotation has its timer
\* (RotateDragWindowAsync).
THEOREM RotationEndsHolds == Spec => []RotationEnds
<1>1. IInv => RotationEnds
  BY DEF IInv
<1> QED BY <1>1, Invariance, PTL

\* A pointer that is hidden for the drag window is hidden during a drag only
\* (OnSetDragWindowVisible, OnStopDrag).
THEOREM PointerBackHolds == Spec => []PointerBack
<1>1. IInv => PointerBack
  BY DEF IInv
<1> QED BY <1>1, Invariance, PTL
=============================================================================
