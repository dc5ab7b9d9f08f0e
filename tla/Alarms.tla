-------------------------------- MODULE Alarms --------------------------------
(***************************************************************************)
(* What the timer service promises to those who set timers, without the    *)
(* list, the timerfd, the tasks and the threads behind it.  A timer is     *)
(* called when it is due, never before and never ahead of one that has     *)
(* been due for longer.  A repeated timer is due again one interval after  *)
(* it was due, however late it was called, and as often as was asked.  No  *)
(* two timers share an id, and nothing but a cancellation or its last call *)
(* makes a timer go away.                                                  *)
(***************************************************************************)
EXTENDS Integers

CONSTANTS
    Timer,   \* id, owner, interval, repeat, calls left and time to the next call
    MaxLag   \* a timer later than this counts as this late

VARIABLE alarms   \* the timers that are set

Init == alarms = {}

\* A new timer, with its whole interval and all its calls before it
Set(t) ==
    /\ t.next = t.interval /\ t.left = t.repeat
    /\ \A o \in alarms : o.id # t.id
    /\ alarms' = alarms \cup {t}

Cancel(t) == alarms' = alarms \ {t}

\* The timer t starts anew.
Restart(t) ==
    alarms' = (alarms \ {t}) \cup {[t EXCEPT !.next = t.interval, !.left = t.repeat]}

Again(t) == [t EXCEPT !.next = t.next + t.interval, !.left = IF t.repeat = 0 THEN 0 ELSE t.left - 1]

\* What remains when t has been called
After(t) == (alarms \ {t}) \cup (IF t.left = 1 THEN {} ELSE {Again(t)})

\* The timer t is called, and may cancel a timer meanwhile.
Call(t) ==
    /\ t.next <= 0
    /\ \A o \in alarms : t.next <= o.next
    /\ alarms' = After(t) \/ \E o \in After(t) : alarms' = After(t) \ {o}

Later(t) == [t EXCEPT !.next = IF t.next > -MaxLag THEN t.next - 1 ELSE t.next]

Pass == alarms' = {Later(t) : t \in alarms}

Next ==
    \/ \E t \in alarms : Cancel(t) \/ Restart(t) \/ Call(t)
    \/ Pass
    \/ \E t \in Timer : Set(t)

Spec == Init /\ [][Next]_alarms
=============================================================================
