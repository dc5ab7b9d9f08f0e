----------------------------- MODULE InputRoute ------------------------------
(***************************************************************************)
(* What the cooperation plugin promises about the keyboard and mouse of    *)
(* each device, whatever packets, failures and calls there are.  At any    *)
(* time the input of a device stays local, or is sent to one other device, *)
(* or is joined by the input received from one other device.  Received     *)
(* input is never passed on: a device that receives must first be released *)
(* before it can send.  Unless it receives, a device runs at the pointer   *)
(* speed its own user has set.                                             *)
(***************************************************************************)
CONSTANTS Device

VARIABLES
    sentTo,         \* sentTo[d]: where d sends its input, {} or {p}
    receivedFrom,   \* receivedFrom[d]: whose input d injects, {} or {p}
    ownSpeed        \* ownSpeed[d]: d runs at its own pointer speed

routes == <<sentTo, receivedFrom, ownSpeed>>

Init ==
    /\ sentTo = [d \in Device |-> {}]
    /\ receivedFrom = [d \in Device |-> {}]
    /\ ownSpeed = [d \in Device |-> TRUE]

\* The input of d goes to p, from now on.
Send(d, p) ==
    /\ receivedFrom[d] = {}
    /\ sentTo' = [sentTo EXCEPT ![d] = {p}]
    /\ UNCHANGED <<receivedFrom, ownSpeed>>

\* d injects the input of p, instead of what it did before.
Receive(d, p) ==
    /\ sentTo' = [sentTo EXCEPT ![d] = {}]
    /\ receivedFrom' = [receivedFrom EXCEPT ![d] = {p}]
    /\ \E own \in BOOLEAN : ownSpeed' = [ownSpeed EXCEPT ![d] = own]

\* d keeps its input to itself.
Release(d) ==
    /\ sentTo' = [sentTo EXCEPT ![d] = {}]
    /\ receivedFrom' = [receivedFrom EXCEPT ![d] = {}]
    /\ ownSpeed' = [ownSpeed EXCEPT ![d] = TRUE]

Next ==
    \E d \in Device :
        \/ Release(d)
        \/ \E p \in Device \ {d} : Send(d, p) \/ Receive(d, p)

Spec == Init /\ [][Next]_routes
=============================================================================
