------------------------------ MODULE SyncCalls -------------------------------
(***************************************************************************)
(* What a call of DelegateTasks is to the threads that make it, without    *)
(* the pipe, the batches, the limits and the Channel.  The calls that were *)
(* accepted are run in the order they were made, one at a time, each once. *)
(* A thread waits for one call at most.  It may give up on it: the call is *)
(* then skipped if it has not begun, and answered to nobody if it has.     *)
(***************************************************************************)
EXTENDS Sequences

CONSTANTS
    Poster,    \* threads that wait for what they call
    Task       \* by: who calls; expired: nobody waits for it

VARIABLES
    calls,     \* accepted and not done, in their order
    doing,     \* the first of them is being run
    waiting    \* waiting[p]: p waits for its call

Init == calls = <<>> /\ doing = FALSE /\ waiting = [p \in Poster |-> FALSE]

PostSync(p) ==
    /\ ~waiting[p]
    /\ \E t \in Task : t.by = p /\ ~t.expired /\ calls' = Append(calls, t)
    /\ waiting' = [waiting EXCEPT ![p] = TRUE]
    /\ UNCHANGED doing

PostAsync ==
    /\ \E t \in Task : t.by \notin Poster /\ calls' = Append(calls, t)
    /\ UNCHANGED <<doing, waiting>>

GiveUp(p) ==
    /\ waiting[p]
    /\ waiting' = [waiting EXCEPT ![p] = FALSE]
    /\ calls' = [i \in DOMAIN calls |-> [calls[i] EXCEPT !.expired = @ \/ calls[i].by = p]]
    /\ UNCHANGED doing

Begin ==
    /\ ~doing /\ calls # <<>> /\ ~Head(calls).expired
    /\ doing' = TRUE
    /\ UNCHANGED <<calls, waiting>>

Skip ==
    /\ ~doing /\ calls # <<>> /\ Head(calls).expired
    /\ calls' = Tail(calls)
    /\ UNCHANGED <<doing, waiting>>

Answered(t) == {p \in Poster : t.by = p /\ ~t.expired}

Finish ==
    /\ doing
    /\ doing' = FALSE
    /\ calls' = Tail(calls)
    /\ waiting' = [p \in Poster |-> waiting[p] /\ p \notin Answered(Head(calls))]

Next ==
    \/ \E p \in Poster : PostSync(p) \/ GiveUp(p)
    \/ PostAsync \/ Begin \/ Skip \/ Finish

Spec == Init /\ [][Next]_<<calls, doing, waiting>>
=============================================================================
