-------------------------------- MODULE Seat --------------------------------
(***************************************************************************)
(* What a display manager promises of its seat, without processes, PAM or  *)
(* sockets: who is on the screen, whether a user has been admitted, and    *)
(* whether the manager is serving.                                         *)
(***************************************************************************)
VARIABLES
    screen,     \* which of "greeter" and "user" have a process on the seat
    admitted,   \* a login was granted and answered, its session not ended
    serving     \* the display manager is up and was not told to stop

vars == <<screen, admitted, serving>>

Parties == {"greeter", "user"}

TypeOK == screen \subseteq Parties /\ admitted \in BOOLEAN /\ serving \in BOOLEAN

Init == screen = {} /\ admitted = FALSE /\ serving = FALSE

\* The manager starts serving on an empty seat.
Open ==
    /\ screen = {}
    /\ serving' = TRUE
    /\ UNCHANGED <<screen, admitted>>

\* It is told to stop, exits, or dies.
Close ==
    /\ serving' = FALSE
    /\ UNCHANGED <<screen, admitted>>

\* A login is granted while no user has the seat.
Admit ==
    /\ ~admitted
    /\ "user" \notin screen
    /\ admitted' = TRUE
    /\ UNCHANGED <<screen, serving>>

\* The greeter only takes an empty seat nobody was promised.
GreeterUp ==
    /\ screen = {} /\ ~admitted
    /\ screen' = {"greeter"}
    /\ UNCHANGED <<admitted, serving>>

\* The session starts for an admitted user; while the manager serves, only
\* after the greeter has left the screen.
UserUp ==
    /\ admitted /\ "user" \notin screen
    /\ serving => screen = {}
    /\ screen' = screen \cup {"user"}
    /\ UNCHANGED <<admitted, serving>>

\* A party leaves the screen.
Down(x) ==
    /\ x \in screen
    /\ screen' = screen \ {x}
    /\ UNCHANGED <<admitted, serving>>

\* The admission ends, once the session is over.
Discharge ==
    /\ admitted /\ "user" \notin screen
    /\ admitted' = FALSE
    /\ UNCHANGED <<screen, serving>>

Next ==
    \/ Open
    \/ Close
    \/ Admit
    \/ GreeterUp
    \/ UserUp
    \/ \E x \in Parties : Down(x)
    \/ Discharge

Spec == Init /\ [][Next]_vars
=============================================================================
