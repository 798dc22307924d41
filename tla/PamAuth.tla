------------------------------ MODULE PamAuth -------------------------------
(***************************************************************************)
(* The class PamAuth (src/src/daemon/pam_auth.cpp): what its objects       *)
(* believe (m_pam_handle and two flags) beside what the PAM library really *)
(* holds for each handle.  Every public operation that changes state is    *)
(* one action, for any object and in any order its callers may use.        *)
(***************************************************************************)
EXTENDS PamTypes

CONSTANTS
    Objects,    \* PamAuth objects
    Handles,    \* pam_handle_t values
    NoHandle    \* nullptr

ASSUME NoHandleAssumption == NoHandle \notin Handles

VARIABLES
    m_pam_handle,       \* object -> its handle
    m_session_opened,   \* object -> flag
    m_credentials_set,  \* object -> flag
    lib,                \* handle -> what the library holds ({} is unused)
    refused,            \* handle -> what the library refused to take back
    conv,               \* handle -> where PAM_CONV's appdata points
    wild                \* history: a prompt was answered from a dead buffer

objectVars == <<m_pam_handle, m_session_opened, m_credentials_set>>
vars == <<m_pam_handle, m_session_opened, m_credentials_set,
          lib, refused, conv, wild>>

(***************************************************************************)
(* One type invariant: objects name handles, the library names grants.     *)
(***************************************************************************)
TypeOK ==
    /\ m_pam_handle \in [Objects -> Handles \cup {NoHandle}]
    /\ m_session_opened \in [Objects -> BOOLEAN]
    /\ m_credentials_set \in [Objects -> BOOLEAN]
    /\ lib \in [Handles -> SUBSET Grants]
    /\ refused \in [Handles -> SUBSET Revocable]
    /\ conv \in [Handles -> {"null", "dead"}]
    /\ wild \in BOOLEAN

Init ==
    /\ m_pam_handle = [o \in Objects |-> NoHandle]
    /\ m_session_opened = [o \in Objects |-> FALSE]
    /\ m_credentials_set = [o \in Objects |-> FALSE]
    /\ lib = [h \in Handles |-> {}]
    /\ refused = [h \in Handles |-> {}]
    /\ conv = [h \in Handles |-> "null"]
    /\ wild = FALSE

-----------------------------------------------------------------------------
\* The two flags as the set of grants the object means to take back.
Flagged(o) ==
    {x \in Revocable : \/ x = "session" /\ m_session_opened[o]
                       \/ x = "cred" /\ m_credentials_set[o]}

(***************************************************************************)
(* A PAM module may prompt during any call but pam_start and pam_end.      *)
(* pam_conversation answers PAM_CONV_ERR while appdata is null; after      *)
(* authenticate() it points at a PamUserData whose lifetime has ended, and *)
(* what the prompt reads is undefined.                                     *)
(***************************************************************************)
MayPrompt(h) ==
    IF conv[h] = "dead" THEN wild' \in {wild, TRUE} ELSE wild' = wild

\* Seeded fault: end() that forgets the credentials.
LibAfterEnd_ForgetsCredentials(o, keep) ==
    IF m_pam_handle[o] = NoHandle
    THEN lib
    ELSE [lib EXCEPT ![m_pam_handle[o]] =
            (@ \cap Revocable) \ ((Flagged(o) \ {"cred"}) \ keep)]

(***************************************************************************)
(* end(): close the session, delete the credentials, pam_end.  The library *)
(* may refuse either of the first two (keep); the handle goes regardless.  *)
(***************************************************************************)
LibAfterEnd(o, keep) ==
    IF m_pam_handle[o] = NoHandle
    THEN lib
    ELSE [lib EXCEPT ![m_pam_handle[o]] =
            (@ \cap Revocable) \ (Flagged(o) \ keep)]

RefusedAfterEnd(o, keep) ==
    IF m_pam_handle[o] = NoHandle
    THEN refused
    ELSE [refused EXCEPT ![m_pam_handle[o]] = @ \cup keep]

EndEffects(o, keep) ==
    /\ keep \subseteq Flagged(o)
    /\ IF Flagged(o) # {} THEN MayPrompt(m_pam_handle[o]) ELSE wild' = wild
    /\ refused' = RefusedAfterEnd(o, keep)

\* end(), and the destructor that calls it.
End(o, keep) ==
    /\ EndEffects(o, keep)
    /\ lib' = LibAfterEnd(o, keep)
    /\ m_pam_handle' = [m_pam_handle EXCEPT ![o] = NoHandle]
    /\ m_session_opened' = [m_session_opened EXCEPT ![o] = FALSE]
    /\ m_credentials_set' = [m_credentials_set EXCEPT ![o] = FALSE]
    /\ UNCHANGED conv

\* Seeded fault: start() that does not end() first.
StartOk_WithoutEnd(o, keep, h) ==
    /\ lib[h] = {}
    /\ keep = {}
    /\ lib' = [lib EXCEPT ![h] = {"handle"}]
    /\ m_pam_handle' = [m_pam_handle EXCEPT ![o] = h]
    /\ UNCHANGED <<m_session_opened, m_credentials_set, refused, conv, wild>>

\* Seeded fault: start() that fails and keeps the pointer it passed.
StartOk_KeepsPointer(o, keep, h) ==
    /\ lib[h] = {}
    /\ EndEffects(o, keep)
    /\ lib' = LibAfterEnd(o, keep)
    /\ m_pam_handle' = [m_pam_handle EXCEPT ![o] = "indeterminate"]
    /\ m_session_opened' = [m_session_opened EXCEPT ![o] = FALSE]
    /\ m_credentials_set' = [m_credentials_set EXCEPT ![o] = FALSE]
    /\ UNCHANGED conv

(***************************************************************************)
(* start(): end() first, then pam_start for the service and, when that     *)
(* fails, for "login".  The outcome is a fresh handle with a null appdata; *)
(* when both fail it is what End leaves.                                   *)
(***************************************************************************)
StartOk(o, keep, h) ==
    /\ lib[h] = {}
    /\ EndEffects(o, keep)
    /\ lib' = [LibAfterEnd(o, keep) EXCEPT ![h] = {"handle"}]
    /\ conv' = [conv EXCEPT ![h] = "null"]
    /\ m_pam_handle' = [m_pam_handle EXCEPT ![o] = h]
    /\ m_session_opened' = [m_session_opened EXCEPT ![o] = FALSE]
    /\ m_credentials_set' = [m_credentials_set EXCEPT ![o] = FALSE]

\* A PAM call that grants x on o's handle; every one of them may fail.
Gains(o, x) ==
    lib' = [lib EXCEPT ![m_pam_handle[o]] = @ \cup {x}]

(***************************************************************************)
(* authenticate(): installs a conversation whose data is a local of this   *)
(* call, so the pointer is dead by the time it returns, with or without    *)
(* success.  (pam_set_item failing leaves everything as it was.)           *)
(***************************************************************************)
Authenticate(o) ==
    /\ m_pam_handle[o] # NoHandle
    /\ conv' = [conv EXCEPT ![m_pam_handle[o]] = "dead"]
    /\ \/ Gains(o, "auth")
       \/ UNCHANGED lib
    /\ UNCHANGED <<objectVars, refused, wild>>

CheckAccount(o) ==
    /\ m_pam_handle[o] # NoHandle
    /\ MayPrompt(m_pam_handle[o])
    /\ \/ Gains(o, "acct")
       \/ UNCHANGED lib
    /\ UNCHANGED <<objectVars, refused, conv>>

(***************************************************************************)
(* establish_credentials() and open_session() set their flag only on       *)
(* success.  No caller asks for either twice on one handle.                *)
(***************************************************************************)
EstablishCredentials(o) ==
    /\ m_pam_handle[o] # NoHandle
    /\ "cred" \notin lib[m_pam_handle[o]]
    /\ MayPrompt(m_pam_handle[o])
    /\ \/ /\ Gains(o, "cred")
          /\ m_credentials_set' = [m_credentials_set EXCEPT ![o] = TRUE]
       \/ UNCHANGED <<lib, m_credentials_set>>
    /\ UNCHANGED <<m_pam_handle, m_session_opened, refused, conv>>

OpenSession(o) ==
    /\ m_pam_handle[o] # NoHandle
    /\ "session" \notin lib[m_pam_handle[o]]
    /\ MayPrompt(m_pam_handle[o])
    /\ \/ /\ Gains(o, "session")
          /\ m_session_opened' = [m_session_opened EXCEPT ![o] = TRUE]
       \/ UNCHANGED <<lib, m_session_opened>>
    /\ UNCHANGED <<m_pam_handle, m_credentials_set, refused, conv>>

(***************************************************************************)
(* close_session() and delete_credentials(): nothing without the flag; the *)
(* flag is cleared whatever the library answers.                           *)
(***************************************************************************)
TakesBack(h, x) ==
    \/ lib' = [lib EXCEPT ![h] = @ \ {x}] /\ UNCHANGED refused
    \/ refused' = [refused EXCEPT ![h] = @ \cup {x}] /\ UNCHANGED lib

CloseSession(o) ==
    /\ m_pam_handle[o] # NoHandle
    /\ m_session_opened[o]
    /\ MayPrompt(m_pam_handle[o])
    /\ TakesBack(m_pam_handle[o], "session")
    /\ m_session_opened' = [m_session_opened EXCEPT ![o] = FALSE]
    /\ UNCHANGED <<m_pam_handle, m_credentials_set, conv>>

DeleteCredentials(o) ==
    /\ m_pam_handle[o] # NoHandle
    /\ m_credentials_set[o]
    /\ MayPrompt(m_pam_handle[o])
    /\ TakesBack(m_pam_handle[o], "cred")
    /\ m_credentials_set' = [m_credentials_set EXCEPT ![o] = FALSE]
    /\ UNCHANGED <<m_pam_handle, m_session_opened, conv>>

\* Seeded fault: a move that leaves the source its flags.
MoveAssign_KeepsSourceFlags(src, dst, keep) ==
    /\ src # dst
    /\ EndEffects(dst, keep)
    /\ lib' = LibAfterEnd(dst, keep)
    /\ m_pam_handle' =
         [m_pam_handle EXCEPT ![dst] = m_pam_handle[src], ![src] = NoHandle]
    /\ m_session_opened' = [m_session_opened EXCEPT ![dst] = m_session_opened[src]]
    /\ m_credentials_set' = [m_credentials_set EXCEPT ![dst] = m_credentials_set[src]]
    /\ UNCHANGED conv

\* Seeded fault: a move that leaves the source its handle.
MoveAssign_KeepsSourceHandle(src, dst, keep) ==
    /\ src # dst
    /\ EndEffects(dst, keep)
    /\ lib' = LibAfterEnd(dst, keep)
    /\ m_pam_handle' = [m_pam_handle EXCEPT ![dst] = m_pam_handle[src]]
    /\ m_session_opened' =
         [m_session_opened EXCEPT ![dst] = m_session_opened[src], ![src] = FALSE]
    /\ m_credentials_set' =
         [m_credentials_set EXCEPT ![dst] = m_credentials_set[src], ![src] = FALSE]
    /\ UNCHANGED conv

(***************************************************************************)
(* Move assignment: the target ends what it held, takes handle and flags,  *)
(* and the source is emptied.  The move constructor is the case of a       *)
(* target that held nothing.                                               *)
(***************************************************************************)
MoveAssign(src, dst, keep) ==
    /\ src # dst
    /\ EndEffects(dst, keep)
    /\ lib' = LibAfterEnd(dst, keep)
    /\ m_pam_handle' =
         [m_pam_handle EXCEPT ![dst] = m_pam_handle[src], ![src] = NoHandle]
    /\ m_session_opened' =
         [m_session_opened EXCEPT ![dst] = m_session_opened[src], ![src] = FALSE]
    /\ m_credentials_set' =
         [m_credentials_set EXCEPT ![dst] = m_credentials_set[src], ![src] = FALSE]
    /\ UNCHANGED conv

Next ==
    \E o \in Objects :
        \/ \E keep \in SUBSET Revocable :
              \/ End(o, keep)
              \/ \E h \in Handles : StartOk(o, keep, h)
              \/ \E dst \in Objects : MoveAssign(o, dst, keep)
        \/ Authenticate(o)
        \/ CheckAccount(o)
        \/ EstablishCredentials(o)
        \/ OpenSession(o)
        \/ CloseSession(o)
        \/ DeleteCredentials(o)

Spec == Init /\ [][Next]_vars

-----------------------------------------------------------------------------
(***************************************************************************)
(* The flags tell the truth about the library: an object believes it holds *)
(* a session or credentials exactly when its handle does and the library   *)
(* has not refused to take them back (set after success, cleared by close, *)
(* delete, end and by both sides of a move).                               *)
(***************************************************************************)
Holds(o, x) ==
    /\ m_pam_handle[o] # NoHandle
    /\ x \in lib[m_pam_handle[o]]
    /\ x \notin refused[m_pam_handle[o]]

FlagsMirrorLibrary ==
    \A o \in Objects :
        /\ m_session_opened[o] <=> Holds(o, "session")
        /\ m_credentials_set[o] <=> Holds(o, "cred")

(***************************************************************************)
(* No session and no credentials outlive their handle, on any path through *)
(* end(), the destructor, start() or a move, unless the library itself     *)
(* refused to take them back.                                              *)
(***************************************************************************)
NothingOutlivesHandle ==
    \A h \in Handles :
        "handle" \notin lib[h] => lib[h] \subseteq refused[h]

(***************************************************************************)
(* Every live handle has exactly one owner, and no object names a handle   *)
(* that was ended: none is leaked, ended twice or used after pam_end.      *)
(***************************************************************************)
OneOwner ==
    /\ \A o \in Objects :
          m_pam_handle[o] # NoHandle => "handle" \in lib[m_pam_handle[o]]
    /\ \A h \in Handles :
          "handle" \in lib[h] => \E o \in Objects : m_pam_handle[o] = h
    /\ \A o, p \in Objects :
          m_pam_handle[o] = m_pam_handle[p] => m_pam_handle[o] = NoHandle \/ o = p

(***************************************************************************)
(* The class implements the abstract grants: what an object holds is what  *)
(* the library holds for its handle.                                       *)
(***************************************************************************)
Held == [o \in Objects |-> IF m_pam_handle[o] = NoHandle
                           THEN {}
                           ELSE lib[m_pam_handle[o]]]

Promise == INSTANCE PamGrants WITH Slots <- Objects, granted <- Held

ImplementsGrants == Promise!Spec

(***************************************************************************)
(* What the library refused to take back it still holds, until the handle  *)
(* is gone for good.  The proofs need it.                                  *)
(***************************************************************************)
RefusedIsHeld == \A h \in Handles : refused[h] \subseteq lib[h]

IInv ==
    /\ TypeOK
    /\ FlagsMirrorLibrary
    /\ NothingOutlivesHandle
    /\ OneOwner
    /\ RefusedIsHeld

(***************************************************************************)
(* pam_auth.cpp:121 says the password is wiped once pam_authenticate has   *)
(* returned; no later prompt should then be answered from that buffer.     *)
(***************************************************************************)
NoDeadPasswordRead == ~wild
=============================================================================
