-------------------------------- MODULE Link --------------------------------
(***************************************************************************)
(* What the daemon's thread and its client promise each other over one     *)
(* connection at a time: a client is accepted, has one request served, is  *)
(* answered at most once, heard or not, and is let go.  Both the daemon    *)
(* with an arbitrary client and the greeter with its socket implement it.  *)
(***************************************************************************)
CONSTANT Requests

VARIABLES
    conn,       \* the client's end: "none" between two clients
    inbox,      \* the request that has arrived
    reply       \* what it was answered

vars == <<conn, inbox, reply>>

Init ==
    /\ conn = "none"
    /\ inbox = "none"
    /\ reply = "none"

\* A client is accepted; by then it may have sent its request, or left.
Accept ==
    /\ conn = "none"
    /\ conn' \in {"open", "closed"}
    /\ inbox' \in Requests \cup {"none"}
    /\ reply' = "none"

Sends ==
    /\ conn = "open" /\ inbox = "none"
    /\ inbox' \in Requests
    /\ UNCHANGED <<conn, reply>>

Leaves ==
    /\ conn = "open"
    /\ conn' = "closed"
    /\ UNCHANGED <<inbox, reply>>

\* One answer, to a request that came; its sender may have left since.
Answers ==
    /\ conn # "none" /\ inbox # "none" /\ reply = "none"
    /\ reply' \in {"ok", "error"}
    /\ UNCHANGED <<conn, inbox>>

\* The daemon closes its end, or dies.
Ends ==
    /\ conn # "none"
    /\ conn' = "none"
    /\ inbox' = "none"
    /\ reply' \in {reply, "none"}

Next == Accept \/ Sends \/ Leaves \/ Answers \/ Ends

Spec == Init /\ [][Next]_vars
=============================================================================
