----------------------------- MODULE PamGrants ------------------------------
(***************************************************************************)
(* The promise of the PAM part, told by its owners ("slots": a PamAuth     *)
(* object, or one of the daemon's unique_ptr<PamAuth>) and what each of    *)
(* them holds.  Grants are won one at a time and only on a live handle, a  *)
(* slot loses its handle only together with all it was granted, and a      *)
(* handle handed to another slot is never held by both.                    *)
(***************************************************************************)
EXTENDS PamTypes

CONSTANT Slots

VARIABLE granted

TypeOK == granted \in [Slots -> SUBSET Grants]

Init == granted = [s \in Slots |-> {}]

\* start(): whatever the slot held is ended, a new handle begins.
Begin(s) == granted' = [granted EXCEPT ![s] = {"handle"}]

\* One PAM call succeeded.
Grant(s, x) ==
    /\ "handle" \in granted[s]
    /\ granted' = [granted EXCEPT ![s] = @ \cup {x}]

\* close_session() or delete_credentials().
Revoke(s, x) == granted' = [granted EXCEPT ![s] = @ \ {x}]

\* end(), the destructor, or a start() that fails.
Finish(s) == granted' = [granted EXCEPT ![s] = {}]

\* Ownership passes from s to t; what t held before is ended.
Move(s, t) ==
    /\ s # t
    /\ granted' = [granted EXCEPT ![t] = granted[s], ![s] = {}]

Next ==
    \E s \in Slots :
        \/ Begin(s)
        \/ \E x \in Grants \ {"handle"} : Grant(s, x)
        \/ \E x \in Revocable : Revoke(s, x)
        \/ Finish(s)
        \/ \E t \in Slots : Move(s, t)

Spec == Init /\ [][Next]_granted
=============================================================================
