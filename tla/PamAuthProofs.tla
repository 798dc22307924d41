--------------------------- MODULE PamAuthProofs ----------------------------
(***************************************************************************)
(* Theorems about PamAuth, for any number of objects and handles and any   *)
(* answers of the library: IInv of PamAuth is inductive, and every         *)
(* operation is an abstract grant, revocation, hand-over or end.           *)
(***************************************************************************)
EXTENDS PamAuth, TLAPS

LEMMA GrantNames ==
    /\ Grants = {"handle", "auth", "acct", "cred", "session"}
    /\ Revocable = {"cred", "session"}
BY DEF Grants, Revocable

\* What the calls into the library do to the types.
LEMMA PromptType ==
    ASSUME TypeOK, NEW h, MayPrompt(h)
    PROVE  wild' \in BOOLEAN
BY DEF TypeOK, MayPrompt

LEMMA GainsType ==
    ASSUME TypeOK, NEW o \in Objects, m_pam_handle[o] # NoHandle,
           NEW x \in Grants, Gains(o, x)
    PROVE  lib' \in [Handles -> SUBSET Grants]
<1>1. m_pam_handle[o] \in Handles
  BY DEF TypeOK
<1>2. lib[m_pam_handle[o]] \cup {x} \in SUBSET Grants
  BY <1>1 DEF TypeOK
<1> QED
  BY <1>1, <1>2 DEF TypeOK, Gains

LEMMA TakesBackType ==
    ASSUME TypeOK, NEW h \in Handles, NEW x \in Revocable, TakesBack(h, x)
    PROVE  /\ lib' \in [Handles -> SUBSET Grants]
           /\ refused' \in [Handles -> SUBSET Revocable]
<1>1. lib[h] \ {x} \in SUBSET Grants /\ refused[h] \cup {x} \in SUBSET Revocable
  BY DEF TypeOK
<1> QED
  BY <1>1 DEF TypeOK, TakesBack

\* end() leaves in the library whatever it was refused, and nothing flagged
\* is refused already.
LEMMA EndKeepsRefused ==
    ASSUME IInv, NEW o \in Objects, NEW keep \in SUBSET Flagged(o),
           NEW h \in Handles
    PROVE  RefusedAfterEnd(o, keep)[h] \subseteq LibAfterEnd(o, keep)[h]
<1> USE DEF IInv, TypeOK, RefusedIsHeld
<1>1. CASE h # m_pam_handle[o]
  BY <1>1 DEF RefusedAfterEnd, LibAfterEnd
<1>2. CASE h = m_pam_handle[o]
  <2>1. \A x \in Flagged(o) : x \in Revocable /\ x \in lib[h] /\ x \notin refused[h]
    BY <1>2 DEF Flagged, FlagsMirrorLibrary, Holds
  <2>2. m_pam_handle[o] # NoHandle
    BY <1>2, NoHandleAssumption
  <2>3. RefusedAfterEnd(o, keep)[h] = refused[h] \cup keep
    BY <1>2, <2>2 DEF RefusedAfterEnd
  <2>4. LibAfterEnd(o, keep)[h] = (lib[h] \cap Revocable) \ (Flagged(o) \ keep)
    BY <1>2, <2>2 DEF LibAfterEnd
  <2>5. refused[h] \subseteq lib[h] \cap Revocable
    OBVIOUS
  <2> QED
    BY <2>1, <2>3, <2>4, <2>5
<1> QED
  BY <1>1, <1>2

LEMMA InvInit == Init => IInv
BY NoHandleAssumption
   DEF Init, IInv, TypeOK, FlagsMirrorLibrary, NothingOutlivesHandle, OneOwner,
       RefusedIsHeld, Holds

LEMMA InvStep == IInv /\ [Next]_vars => IInv'
<1> SUFFICES ASSUME IInv, [Next]_vars
             PROVE  IInv'
  OBVIOUS
<1> USE NoHandleAssumption, GrantNames DEF IInv, TypeOK
<1>1. ASSUME NEW o \in Objects, NEW keep \in SUBSET Revocable, End(o, keep)
      PROVE  IInv'
  <2>1. TypeOK'
    BY <1>1 DEF End, EndEffects, LibAfterEnd, RefusedAfterEnd, MayPrompt, Flagged
  <2>2. FlagsMirrorLibrary'
    BY <1>1 DEF End, EndEffects, LibAfterEnd, RefusedAfterEnd, MayPrompt, FlagsMirrorLibrary, OneOwner, RefusedIsHeld, Holds, Flagged
  <2>3. NothingOutlivesHandle'
    BY <1>1 DEF End, EndEffects, LibAfterEnd, RefusedAfterEnd, MayPrompt, NothingOutlivesHandle, OneOwner, FlagsMirrorLibrary, Holds, Flagged
  <2>4. OneOwner'
    BY <1>1 DEF End, EndEffects, LibAfterEnd, RefusedAfterEnd, MayPrompt, OneOwner, Flagged
  <2>5. RefusedIsHeld'
    BY <1>1, EndKeepsRefused DEF End, EndEffects, RefusedIsHeld
  <2> QED
    BY <2>1, <2>2, <2>3, <2>4, <2>5
<1>2. ASSUME NEW o \in Objects, NEW keep \in SUBSET Revocable,
             NEW h \in Handles, StartOk(o, keep, h)
      PROVE  IInv'
  <2>1. TypeOK'
    BY <1>2 DEF StartOk, EndEffects, LibAfterEnd, RefusedAfterEnd, MayPrompt, Flagged
  <2>2. FlagsMirrorLibrary'
    BY <1>2 DEF StartOk, EndEffects, LibAfterEnd, RefusedAfterEnd, MayPrompt, FlagsMirrorLibrary, OneOwner, RefusedIsHeld, Holds, Flagged
  <2>3. NothingOutlivesHandle'
    BY <1>2 DEF StartOk, EndEffects, LibAfterEnd, RefusedAfterEnd, MayPrompt, NothingOutlivesHandle, OneOwner, FlagsMirrorLibrary, Holds, Flagged
  <2>4. OneOwner'
    BY <1>2 DEF StartOk, EndEffects, LibAfterEnd, RefusedAfterEnd, MayPrompt, OneOwner, Flagged
  <2>5. RefusedIsHeld'
    <3>1. h # m_pam_handle[o] /\ refused[h] = {}
      BY <1>2 DEF StartOk, OneOwner, RefusedIsHeld
    <3>2. \A g \in Handles : g # h => refused'[g] \subseteq lib'[g]
      BY <1>2, EndKeepsRefused DEF StartOk, EndEffects, LibAfterEnd
    <3>3. refused'[h] = {}
      BY <1>2, <3>1 DEF StartOk, EndEffects, RefusedAfterEnd
    <3> QED
      BY <3>2, <3>3 DEF RefusedIsHeld
  <2> QED
    BY <2>1, <2>2, <2>3, <2>4, <2>5
<1>3. ASSUME NEW o \in Objects, NEW keep \in SUBSET Revocable,
             NEW dst \in Objects, MoveAssign(o, dst, keep)
      PROVE  IInv'
  <2>1. TypeOK'
    BY <1>3 DEF MoveAssign, EndEffects, LibAfterEnd, RefusedAfterEnd, MayPrompt, Flagged
  <2>2. FlagsMirrorLibrary'
    BY <1>3 DEF MoveAssign, EndEffects, LibAfterEnd, RefusedAfterEnd, MayPrompt, FlagsMirrorLibrary, OneOwner, RefusedIsHeld, Holds, Flagged
  <2>3. NothingOutlivesHandle'
    BY <1>3 DEF MoveAssign, EndEffects, LibAfterEnd, RefusedAfterEnd, MayPrompt, NothingOutlivesHandle, OneOwner, FlagsMirrorLibrary, Holds, Flagged
  <2>4. OneOwner'
    BY <1>3 DEF MoveAssign, EndEffects, LibAfterEnd, RefusedAfterEnd, MayPrompt, OneOwner, Flagged
  <2>5. RefusedIsHeld'
    BY <1>3, EndKeepsRefused DEF MoveAssign, EndEffects, RefusedIsHeld
  <2> QED
    BY <2>1, <2>2, <2>3, <2>4, <2>5
<1>4. ASSUME NEW o \in Objects, Authenticate(o)
      PROVE  IInv'
  <2>1. TypeOK'
    BY <1>4 DEF Authenticate, Gains, objectVars
  <2>2. FlagsMirrorLibrary'
    BY <1>4 DEF Authenticate, Gains, objectVars, FlagsMirrorLibrary, OneOwner, RefusedIsHeld, Holds
  <2>3. NothingOutlivesHandle'
    BY <1>4 DEF Authenticate, Gains, objectVars, NothingOutlivesHandle, OneOwner, FlagsMirrorLibrary, Holds
  <2>4. OneOwner'
    BY <1>4 DEF Authenticate, Gains, objectVars, OneOwner
  <2>5. RefusedIsHeld'
    BY <1>4 DEF Authenticate, Gains, objectVars, RefusedIsHeld
  <2> QED
    BY <2>1, <2>2, <2>3, <2>4, <2>5
<1>5. ASSUME NEW o \in Objects, CheckAccount(o)
      PROVE  IInv'
  <2>1. TypeOK'
    BY <1>5, PromptType, GainsType DEF CheckAccount, objectVars
  <2>2. FlagsMirrorLibrary'
    BY <1>5 DEF CheckAccount, Gains, MayPrompt, objectVars, FlagsMirrorLibrary, OneOwner, RefusedIsHeld, Holds
  <2>3. NothingOutlivesHandle'
    BY <1>5 DEF CheckAccount, Gains, MayPrompt, objectVars, NothingOutlivesHandle, OneOwner, FlagsMirrorLibrary, Holds
  <2>4. OneOwner'
    BY <1>5 DEF CheckAccount, Gains, MayPrompt, objectVars, OneOwner
  <2>5. RefusedIsHeld'
    BY <1>5 DEF CheckAccount, Gains, MayPrompt, objectVars, RefusedIsHeld
  <2> QED
    BY <2>1, <2>2, <2>3, <2>4, <2>5
<1>6. ASSUME NEW o \in Objects, EstablishCredentials(o)
      PROVE  IInv'
  <2>1. TypeOK'
    BY <1>6, PromptType, GainsType DEF EstablishCredentials
  <2>2. FlagsMirrorLibrary'
    BY <1>6 DEF EstablishCredentials, Gains, MayPrompt, FlagsMirrorLibrary, OneOwner, RefusedIsHeld, Holds
  <2>3. NothingOutlivesHandle'
    BY <1>6 DEF EstablishCredentials, Gains, MayPrompt, NothingOutlivesHandle, OneOwner, FlagsMirrorLibrary, Holds
  <2>4. OneOwner'
    BY <1>6 DEF EstablishCredentials, Gains, MayPrompt, OneOwner
  <2>5. RefusedIsHeld'
    BY <1>6 DEF EstablishCredentials, Gains, MayPrompt, RefusedIsHeld
  <2> QED
    BY <2>1, <2>2, <2>3, <2>4, <2>5
<1>7. ASSUME NEW o \in Objects, OpenSession(o)
      PROVE  IInv'
  <2>1. TypeOK'
    BY <1>7, PromptType, GainsType DEF OpenSession
  <2>2. FlagsMirrorLibrary'
    BY <1>7 DEF OpenSession, Gains, MayPrompt, FlagsMirrorLibrary, OneOwner, RefusedIsHeld, Holds
  <2>3. NothingOutlivesHandle'
    BY <1>7 DEF OpenSession, Gains, MayPrompt, NothingOutlivesHandle, OneOwner, FlagsMirrorLibrary, Holds
  <2>4. OneOwner'
    BY <1>7 DEF OpenSession, Gains, MayPrompt, OneOwner
  <2>5. RefusedIsHeld'
    BY <1>7 DEF OpenSession, Gains, MayPrompt, RefusedIsHeld
  <2> QED
    BY <2>1, <2>2, <2>3, <2>4, <2>5
<1>8. ASSUME NEW o \in Objects, CloseSession(o)
      PROVE  IInv'
  <2>1. TypeOK'
    BY <1>8, PromptType, TakesBackType DEF CloseSession
  <2>2. FlagsMirrorLibrary'
    BY <1>8 DEF CloseSession, TakesBack, MayPrompt, FlagsMirrorLibrary, OneOwner, RefusedIsHeld, Holds
  <2>3. NothingOutlivesHandle'
    BY <1>8 DEF CloseSession, TakesBack, MayPrompt, NothingOutlivesHandle, OneOwner, FlagsMirrorLibrary, Holds
  <2>4. OneOwner'
    BY <1>8 DEF CloseSession, TakesBack, MayPrompt, OneOwner
  <2>5. RefusedIsHeld'
    BY <1>8 DEF CloseSession, TakesBack, MayPrompt, RefusedIsHeld,
           FlagsMirrorLibrary, Holds
  <2> QED
    BY <2>1, <2>2, <2>3, <2>4, <2>5
<1>9. ASSUME NEW o \in Objects, DeleteCredentials(o)
      PROVE  IInv'
  <2>1. TypeOK'
    BY <1>9, PromptType, TakesBackType DEF DeleteCredentials
  <2>2. FlagsMirrorLibrary'
    BY <1>9 DEF DeleteCredentials, TakesBack, MayPrompt, FlagsMirrorLibrary, OneOwner, RefusedIsHeld, Holds
  <2>3. NothingOutlivesHandle'
    BY <1>9 DEF DeleteCredentials, TakesBack, MayPrompt, NothingOutlivesHandle, OneOwner, FlagsMirrorLibrary, Holds
  <2>4. OneOwner'
    BY <1>9 DEF DeleteCredentials, TakesBack, MayPrompt, OneOwner
  <2>5. RefusedIsHeld'
    BY <1>9 DEF DeleteCredentials, TakesBack, MayPrompt, RefusedIsHeld,
           FlagsMirrorLibrary, Holds
  <2> QED
    BY <2>1, <2>2, <2>3, <2>4, <2>5
<1>10. CASE UNCHANGED vars
  BY <1>10 DEF vars, FlagsMirrorLibrary, NothingOutlivesHandle, OneOwner,
               RefusedIsHeld, Holds
<1> QED
  BY <1>1, <1>2, <1>3, <1>4, <1>5, <1>6, <1>7, <1>8, <1>9, <1>10 DEF Next

LEMMA InvCorrect == Spec => []IInv
BY InvInit, InvStep, PTL DEF Spec

(***************************************************************************)
(* TypeOK: a handle is owned, and holds sessions and credentials, within   *)
(* the types of the library, for any number of objects and handles.        *)
(***************************************************************************)
THEOREM PamTypeCorrect == Spec => []TypeOK
BY InvCorrect, PTL DEF IInv

(***************************************************************************)
(* The object's two flags never disagree with the library, through failed  *)
(* calls, refusals, restarts and moves.                                    *)
(***************************************************************************)
THEOREM FlagsCorrect == Spec => []FlagsMirrorLibrary
BY InvCorrect, PTL DEF IInv

(***************************************************************************)
(* No path through end(), start(), the destructor or a move forgets an     *)
(* open session or established credentials.                                *)
(***************************************************************************)
THEOREM NothingOutlivesHandleCorrect == Spec => []NothingOutlivesHandle
BY InvCorrect, PTL DEF IInv

(***************************************************************************)
(* No handle is leaked, shared, or named after pam_end.                    *)
(***************************************************************************)
THEOREM OneOwnerCorrect == Spec => []OneOwner
BY InvCorrect, PTL DEF IInv

-----------------------------------------------------------------------------
\* Only o's handle is touched: only what o holds changes.
LEMMA HeldFrame ==
    ASSUME IInv, NEW o \in Objects, UNCHANGED m_pam_handle,
           \A h \in Handles : h # m_pam_handle[o] => lib'[h] = lib[h]
    PROVE  \A q \in Objects : q # o => Held'[q] = Held[q]
BY DEF IInv, TypeOK, OneOwner, Held

\* A call that may grant x is that grant, or nothing.
LEMMA GainsGrant ==
    ASSUME IInv, NEW o \in Objects, NEW x \in Grants \ {"handle"},
           m_pam_handle[o] # NoHandle, UNCHANGED m_pam_handle,
           Gains(o, x) \/ UNCHANGED lib
    PROVE  Promise!Next \/ UNCHANGED Held
<1>1. CASE UNCHANGED lib
  BY <1>1 DEF Held
<1>2. CASE Gains(o, x)
  <2>1. m_pam_handle[o] \in Handles
    BY DEF IInv, TypeOK
  <2>2. \A q \in Objects : q # o => Held'[q] = Held[q]
    BY <1>2, <2>1, HeldFrame DEF Gains, IInv, TypeOK
  <2>3. Held'[o] = Held[o] \cup {x} /\ "handle" \in Held[o]
    BY <1>2, <2>1 DEF Gains, Held, IInv, TypeOK, OneOwner
  <2>4. Promise!Grant(o, x)
    BY <2>2, <2>3 DEF Promise!Grant, Held
  <2> QED
    BY <2>4 DEF Promise!Next, Grants, Revocable, Promise!Grants, Promise!Revocable
<1> QED
  BY <1>1, <1>2

\* A call that takes x back revokes it, or nothing.
LEMMA TakesBackRevokes ==
    ASSUME IInv, NEW o \in Objects, NEW x \in Revocable,
           m_pam_handle[o] # NoHandle, UNCHANGED m_pam_handle,
           TakesBack(m_pam_handle[o], x)
    PROVE  Promise!Next \/ UNCHANGED Held
<1>1. CASE UNCHANGED lib
  BY <1>1 DEF Held
<1>2. CASE lib' = [lib EXCEPT ![m_pam_handle[o]] = @ \ {x}]
  <2>1. m_pam_handle[o] \in Handles
    BY DEF IInv, TypeOK
  <2>2. \A q \in Objects : q # o => Held'[q] = Held[q]
    BY <1>2, <2>1, HeldFrame DEF IInv, TypeOK
  <2>3. Held'[o] = Held[o] \ {x}
    BY <1>2, <2>1 DEF Held, IInv, TypeOK
  <2>4. Promise!Revoke(o, x)
    BY <2>2, <2>3 DEF Promise!Revoke, Held
  <2> QED
    BY <2>4 DEF Promise!Next, Revocable, Promise!Revocable
<1> QED
  BY <1>1, <1>2 DEF TakesBack

(***************************************************************************)
(* PamAuth implements PamGrants: each operation wins one grant, takes one  *)
(* back, ends everything, or hands everything over.                        *)
(***************************************************************************)
THEOREM ImplementsGrantsCorrect == Spec => ImplementsGrants
<1>1. Init => Promise!Init
  BY DEF Init, Promise!Init, Held
<1>2. ASSUME IInv, [Next]_vars
      PROVE  Promise!Next \/ UNCHANGED Held
  <2> USE NoHandleAssumption, <1>2
  <2>1. ASSUME NEW o \in Objects, NEW keep \in SUBSET Revocable, End(o, keep)
        PROVE  Promise!Next
    <3>1. \A q \in Objects : q # o => Held'[q] = Held[q]
      BY <2>1 DEF End, LibAfterEnd, Held, IInv, TypeOK, OneOwner
    <3>2. Held'[o] = {}
      BY <2>1 DEF End, Held, IInv, TypeOK
    <3>3. Promise!Finish(o)
      BY <3>1, <3>2 DEF Promise!Finish, Held
    <3> QED
      BY <3>3 DEF Promise!Next
  <2>2. ASSUME NEW o \in Objects, NEW keep \in SUBSET Revocable,
               NEW h \in Handles, StartOk(o, keep, h)
        PROVE  Promise!Next
    <3>1. \A q \in Objects : q # o => Held'[q] = Held[q]
      BY <2>2 DEF StartOk, LibAfterEnd, Held, IInv, TypeOK, OneOwner
    <3>2. Held'[o] = {"handle"}
      BY <2>2 DEF StartOk, LibAfterEnd, Held, IInv, TypeOK
    <3>3. Promise!Begin(o)
      BY <3>1, <3>2 DEF Promise!Begin, Held
    <3> QED
      BY <3>3 DEF Promise!Next
  <2>3. ASSUME NEW o \in Objects, NEW keep \in SUBSET Revocable,
               NEW dst \in Objects, MoveAssign(o, dst, keep)
        PROVE  Promise!Next
    <3>1. \A q \in Objects \ {o, dst} : Held'[q] = Held[q]
      BY <2>3 DEF MoveAssign, LibAfterEnd, Held, IInv, TypeOK, OneOwner
    <3>2. Held'[o] = {} /\ Held'[dst] = Held[o]
      BY <2>3 DEF MoveAssign, LibAfterEnd, Held, IInv, TypeOK, OneOwner
    <3>3. o # dst
      BY <2>3 DEF MoveAssign
    <3>4. Held' = [Held EXCEPT ![dst] = Held[o], ![o] = {}]
      BY <3>1, <3>2, <3>3 DEF Held
    <3>5. Promise!Move(o, dst)
      BY <3>3, <3>4 DEF Promise!Move
    <3> QED
      BY <3>5 DEF Promise!Next
  <2>4. ASSUME NEW o \in Objects,
               \/ Authenticate(o) \/ CheckAccount(o)
               \/ EstablishCredentials(o) \/ OpenSession(o)
        PROVE  Promise!Next \/ UNCHANGED Held
    <3>1. PICK x \in {"auth", "acct", "cred", "session"} :
             Gains(o, x) \/ UNCHANGED lib
      BY <2>4 DEF Authenticate, CheckAccount, EstablishCredentials, OpenSession
    <3>2. m_pam_handle[o] # NoHandle /\ UNCHANGED m_pam_handle
      BY <2>4 DEF Authenticate, CheckAccount, EstablishCredentials, OpenSession,
                  objectVars
    <3> QED
      BY <3>1, <3>2, GainsGrant, GrantNames
  <2>5. ASSUME NEW o \in Objects, CloseSession(o) \/ DeleteCredentials(o)
        PROVE  Promise!Next \/ UNCHANGED Held
    BY <2>5, TakesBackRevokes, GrantNames DEF CloseSession, DeleteCredentials
  <2>6. CASE UNCHANGED vars
    BY <2>6 DEF vars, Held
  <2> QED
    BY <2>1, <2>2, <2>3, <2>4, <2>5, <2>6 DEF Next
<1> QED
  BY <1>1, <1>2, InvCorrect, PTL DEF Spec, ImplementsGrants, Promise!Spec
=============================================================================
