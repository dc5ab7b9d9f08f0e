--------------------------- MODULE MetadataRequests ---------------------------
(***************************************************************************)
(* What those who ask for the link behind an application are promised,     *)
(* without the lock, the cache and the timer threads.  One request is      *)
(* current, the last that was made; only the current request is answered,  *)
(* only once, with no link or with a link of the application it asked      *)
(* about, and a request that was given up is never taken up again.         *)
(***************************************************************************)
EXTENDS Sequences

CONSTANTS
    Request,       \* requests, by their callbacks
    Bundle,        \* applications
    Metadata,      \* links
    emptyMetadata, \* the answer without a link
    Applink,       \* the application a link belongs to
    None           \* no request

VARIABLES
    current,  \* the request that is to be answered
    asked,    \* request |-> the application it asks about, or "none"
    given     \* request |-> what it was given

Init ==
    /\ current = None
    /\ asked = [r \in Request |-> "none"]
    /\ given = [r \in Request |-> <<>>]

Ask(r, b) ==
    /\ asked[r] = "none"
    /\ asked' = [asked EXCEPT ![r] = b]
    /\ current' = r
    /\ UNCHANGED given

Give(r, metadata) ==
    /\ current = r /\ given[r] = <<>>
    /\ metadata \in Metadata => Applink[metadata] = asked[r]
    /\ given' = [given EXCEPT ![r] = <<metadata>>]
    /\ UNCHANGED <<current, asked>>

\* Its process has died, or somebody else became the one to answer.
GiveUp == current' = None /\ UNCHANGED <<asked, given>>

Next ==
    \/ \E r \in Request, b \in Bundle : Ask(r, b)
    \/ \E r \in Request, metadata \in Metadata \cup {emptyMetadata} : Give(r, metadata)
    \/ GiveUp

Spec == Init /\ [][Next]_<<current, asked, given>>
=============================================================================
