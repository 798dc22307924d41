--------------------------- MODULE DaemonRefines ----------------------------
(***************************************************************************)
(* The daemon implements the two abstract specifications it is held to:    *)
(* the promise of the PAM part (PamGrants) for its three PAM pointers, and *)
(* the abstract seat (Seat).  Each proof maps every action of the daemon   *)
(* to an abstract action or to a stutter, from DaemonInv.                  *)
(***************************************************************************)
EXTENDS DaemonProofs

-----------------------------------------------------------------------------
\* What a step does to one of the three pointers alone, it does to its slot.
LEMMA SlotFrames ==
    /\ UNCHANGED pams => UNCHANGED Granted
    /\ UNCHANGED <<pam, m_active_pam>> =>
          Granted' = [Granted EXCEPT !["greeter"] = m_greeter_pam']
    /\ UNCHANGED <<m_greeter_pam, m_active_pam>> =>
          Granted' = [Granted EXCEPT !["login"] = pam']
    /\ UNCHANGED <<m_greeter_pam, pam>> =>
          Granted' = [Granted EXCEPT !["active"] = m_active_pam']
    /\ UNCHANGED m_greeter_pam =>
          Granted' = [Granted EXCEPT !["active"] = m_active_pam', !["login"] = pam']
BY DEF Granted, PamSlots, pams

LEMMA SlotValues ==
    /\ Granted["greeter"] = m_greeter_pam
    /\ Granted["login"] = pam
    /\ Granted["active"] = m_active_pam
BY DEF Granted, PamSlots

\* A PAM call of the login wins one grant on its handle, or ends it.
LEMMA LoginCallGrants ==
    ASSUME NEW from, NEW x \in Grants \ {"handle"}, NEW to,
           LoginCall(from, x, to), "handle" \in pam
    PROVE  Pam!Next \/ UNCHANGED Granted
<1> "login" \in PamSlots
  BY DEF PamSlots
<1>1. UNCHANGED <<m_greeter_pam, m_active_pam>>
  BY DEF LoginCall
<1>2. CASE pam' = pam \cup {x}
  <2>1. Pam!Grant("login", x)
    BY <1>1, <1>2, SlotFrames, SlotValues DEF Pam!Grant
  <2> QED
    BY <2>1 DEF Pam!Next, Grants, Revocable, Pam!Grants, Pam!Revocable
<1>3. CASE Deny
  <2>1. Pam!Finish("login") \/ UNCHANGED pam
    BY <1>1, <1>3, SlotFrames DEF Pam!Finish, Deny
  <2> QED
    BY <1>1, <2>1, SlotFrames DEF Pam!Next, pams
<1> QED
  BY <1>2, <1>3 DEF LoginCall

(***************************************************************************)
(* The three PAM pointers of the daemon keep the promise of PamGrants.     *)
(***************************************************************************)
THEOREM PamProtocolCorrect == Spec => PamProtocol
<1>1. Init => Pam!Init
  BY DEF Init, Pam!Init, Granted, PamSlots
<1>2. ASSUME DaemonInv, [Next]_vars
      PROVE  Pam!Next \/ UNCHANGED Granted
  <2> USE GrantNames DEF PamSlots
  <2>1. CASE GreeterStart
    <3>1. Pam!Begin("greeter") \/ Pam!Finish("greeter") \/ UNCHANGED Granted
      BY <2>1, SlotFrames DEF GreeterStart, Pam!Begin, Pam!Finish, pams
    <3> QED
      BY <3>1 DEF Pam!Next
  <2>2. CASE GreeterCredentials \/ GreeterOpenSession
    <3>1. "handle" \in m_greeter_pam
      BY <1>2, <2>2 DEF DaemonInv, OtherGrants, GreeterCredentials,
                        GreeterOpenSession, GreeterPam, Goto
    <3>2. PICK x \in {"cred", "session"} :
             m_greeter_pam' \in {m_greeter_pam, m_greeter_pam \cup {x}}
      BY <2>2 DEF GreeterCredentials, GreeterOpenSession, GreeterPam
    <3>3. UNCHANGED <<pam, m_active_pam>>
      BY <2>2 DEF GreeterCredentials, GreeterOpenSession, GreeterPam
    <3>4. Pam!Grant("greeter", x) \/ UNCHANGED Granted
      BY <3>1, <3>2, <3>3, SlotFrames, SlotValues DEF Pam!Grant, pams
    <3> QED
      BY <3>4 DEF Pam!Next, Pam!Grants, Pam!Revocable
  <2>3. CASE LoginStart
    <3>1. pam = {} /\ UNCHANGED <<m_greeter_pam, m_active_pam>>
      BY <1>2, <2>3 DEF DaemonInv, LoginGrants, LoginStart, LoginCall,
                        StopSteps, LoginSteps
    <3>2. Pam!Begin("login") \/ Pam!Finish("login") \/ UNCHANGED pam
      BY <2>3, <3>1, SlotFrames
         DEF LoginStart, LoginCall, Deny, Pam!Begin, Pam!Finish
    <3> QED
      BY <3>1, <3>2, SlotFrames DEF Pam!Next, pams
  <2>4. CASE LoginAuthenticate \/ LoginAccount \/ LoginCredentials \/ LoginOpenSession
    <3>1. "handle" \in pam
      BY <1>2, <2>4 DEF DaemonInv, LoginGrants, LoginAuthenticate, LoginAccount,
                        LoginCredentials, LoginOpenSession, LoginCall
    <3> QED
      BY <2>4, <3>1, LoginCallGrants DEF LoginAuthenticate, LoginAccount,
         LoginCredentials, LoginOpenSession
  <2>5. CASE StopPam
    <3>1. Pam!Finish("greeter")
      BY <2>5, SlotFrames DEF StopPam, Pam!Finish
    <3> QED
      BY <3>1 DEF Pam!Next
  <2>6. CASE (\E p \in Pids : Launch(p)) \/ LaunchFails
    <3>1. m_active_pam' = pam /\ pam' = {} /\ UNCHANGED m_greeter_pam
      BY <2>6 DEF Launch, LaunchFails
    <3>2. Pam!Move("login", "active")
      BY <3>1, SlotFrames, SlotValues DEF Pam!Move
    <3> QED
      BY <3>2 DEF Pam!Next
  <2>7. CASE Logout
    <3>1. Pam!Finish("active")
      BY <2>7, SlotFrames DEF Logout, Pam!Finish
    <3> QED
      BY <3>1 DEF Pam!Next
  <2>8. CASE Terminate
    <3>1. m_greeter_pam = {} /\ pam = {} /\ m_active_pam = {}
      BY <1>2, <2>8 DEF DaemonInv, OtherGrants, LoginGrants, Terminate, Goto,
                        StopSteps, LoginSteps
    <3> QED
      BY <2>8, <3>1, SlotFrames DEF Terminate, pams
  <2>9. \/ UNCHANGED pams
        \/ GreeterStart \/ GreeterCredentials \/ GreeterOpenSession \/ StopPam
        \/ LoginStart \/ LoginAuthenticate \/ LoginAccount \/ LoginCredentials
        \/ LoginOpenSession \/ (\E p \in Pids : Launch(p)) \/ LaunchFails
        \/ Logout \/ Terminate
    <3>1. CASE Thread
      BY <3>1 DEF Thread, InitDaemon, EnterRun, LoopTest, PollIdle, PollFails,
         Accept, Read, Serve, Close, Check, GreeterFork, GreeterForkFails, Stop,
         StopPolled, StopKill, StopReap, LoginReply, WaitForExit, pams
    <3>2. CASE Signals
      BY <3>2 DEF Signals, Signal, SignalInPoll, SignalInRead, SignalInReap
    <3>3. CASE Peer \/ (\E p \in Pids : ProcExits(p) \/ KilledExits(p)) \/ Ended
      BY <3>3 DEF Peer, PeerSends, PeerCloses, ProcExits, KilledExits, Ended, pams, vars
    <3> QED
      BY <1>2, <3>1, <3>2, <3>3 DEF Next, vars, pams
  <2> QED
    BY <2>1, <2>2, <2>3, <2>4, <2>5, <2>6, <2>7, <2>8, <2>9, SlotFrames
<1> QED
  BY <1>1, <1>2, InvCorrect, PTL DEF Spec, PamProtocol, Pam!Spec

-----------------------------------------------------------------------------
\* The screen shows what is alive, and changes with it only.
LEMMA ScreenFrame == UNCHANGED procs => UNCHANGED Screen
BY DEF Screen, Alive, procs

\* Waiting for children that have exited changes nothing on the screen.
LEMMA ReapFrame ==
    ASSUME NEW S, TypeOK, \A p \in S \cap Pids : proc[p] \notin Live, Reap(S)
    PROVE  UNCHANGED Screen
<1>1. \A kind \in {"greeter", "session"} : Alive(kind)' = Alive(kind)
  BY DEF TypeOK, Reap, Children, Alive, Live
<1> QED
  BY <1>1 DEF Screen

\* A process that exits takes its party off the screen, or another remains.
LEMMA ExitFrame ==
    ASSUME NEW p \in Pids, TypeOK, proc[p] # "free", Exits(p)
    PROVE  UNCHANGED Screen \/ \E x \in {"greeter", "user"} :
              x \in Screen /\ Screen' = Screen \ {x}
<1>1. \A kind \in {"greeter", "session"} : Alive(kind)' = Alive(kind) \ {p}
  BY DEF TypeOK, Exits, Reap, Children, Alive, Live
<1>2. \/ Alive("greeter")' = Alive("greeter")
      \/ Alive("session")' = Alive("session")
  BY <1>1 DEF Alive
<1> QED
  BY <1>1, <1>2 DEF Screen

\* The names Seat gives to what the mapping has.
LEMMA SeatNames ==
    /\ UserAdmitted = (reply = "ok" /\ (pam = Grants \/ m_active_pam = Grants))
    /\ Grants # {}
    /\ SeatOf!Parties = {"greeter", "user"}
BY GrantNames DEF UserAdmitted, SeatOf!Parties

\* Nobody is admitted before the answer, nor after the denial.
LEMMA NotAdmitted ==
    /\ pam = {} /\ m_active_pam = {} => ~UserAdmitted
    /\ reply # "ok" => ~UserAdmitted
BY SeatNames

\* An answer other than "ok" to a login leaves the seat as it is, but for a
\* SIGPIPE that ends the service.
LEMMA AnswerSeat ==
    ASSUME ~UserAdmitted, ~UserAdmitted', UNCHANGED <<flags, procs>>, pc \notin Gone
    PROVE  SeatOf!Next \/ UNCHANGED <<Screen, UserAdmitted, Serving>>
<1>1. UNCHANGED Screen
  BY ScreenFrame
<1>2. UserAdmitted' = UserAdmitted
  BY DEF UserAdmitted
<1>3. Serving' = Serving \/ (Serving' = FALSE)
  BY DEF Serving, flags
<1> QED
  BY <1>1, <1>2, <1>3 DEF SeatOf!Next, SeatOf!Close

\* A step that touches neither the children nor the admission can only end
\* the service.
LEMMA QuietSeat ==
    ASSUME TypeOK, UNCHANGED <<procs, reply>>,
           UNCHANGED pams,
           \/ m_running' = m_running /\ pc \notin Gone
           \/ m_running' = FALSE
    PROVE  SeatOf!Next \/ UNCHANGED <<Screen, UserAdmitted, Serving>>
<1>1. UNCHANGED Screen
  BY ScreenFrame
<1>2. UNCHANGED UserAdmitted
  BY DEF UserAdmitted, pams
<1>3. UNCHANGED Serving \/ Serving' = FALSE
  BY DEF Serving, TypeOK
<1> QED
  BY <1>1, <1>2, <1>3 DEF SeatOf!Next, SeatOf!Close

\* A step that reaps children which have exited, and moves on.
LEMMA ReapSeat ==
    ASSUME NEW S, TypeOK, \A p \in S \cap Pids : proc[p] \notin Live, Reap(S),
           UNCHANGED <<m_running, reply>>, UNCHANGED pams,
           pc \notin Gone, pc' \notin Gone
    PROVE  UNCHANGED <<Screen, UserAdmitted, Serving>>
BY ReapFrame DEF UserAdmitted, Serving, pams

\* Every step of a daemon that its invariant describes is one of the seat.
LEMMA SeatStep ==
    ASSUME DaemonInv, [Next]_vars
    PROVE  SeatOf!Next \/ UNCHANGED <<Screen, UserAdmitted, Serving>>
<1>0. TypeOK
  BY DEF DaemonInv
<1>1. CASE EnterRun
  <2>1. Screen = {}
    BY <1>1 DEF DaemonInv, GreeterAt, EnterRun, Goto, Screen, Alive, Live
  <2>2. UNCHANGED Screen /\ UNCHANGED UserAdmitted /\ Serving'
    BY <1>1, ScreenFrame DEF EnterRun, Goto, UserAdmitted, Serving, pams, link, Gone
  <2> QED
    BY <2>1, <2>2 DEF SeatOf!Next, SeatOf!Open
<1>2. ASSUME NEW p \in Pids, GreeterFork(p)
      PROVE  SeatOf!Next
  <2>1. Alive("greeter") = {} /\ Alive("session") = {}
    BY <1>2, NoPidAssumption
       DEF DaemonInv, GreeterFork, Goto, GreeterAt, OneGreeter, SessionPid,
           StartSteps, Alive
  <2>2. Alive("greeter")' = {p} /\ Alive("session")' = {}
    BY <1>0, <1>2, <2>1 DEF TypeOK, GreeterFork, Fork, Children, Alive, Live
  <2>3. Screen = {} /\ Screen' = {"greeter"}
    BY <2>1, <2>2 DEF Screen
  <2>4. ~UserAdmitted /\ UNCHANGED UserAdmitted
    <3>1. pam = {} /\ m_active_pam = {}
      BY <1>2 DEF DaemonInv, GreeterFork, Goto, LoginGrants, OtherGrants,
                        StopSteps, LoginSteps
    <3> QED
      BY <3>1, <1>2, NotAdmitted DEF GreeterFork, UserAdmitted, pams, link
  <2>5. UNCHANGED Serving
    BY <1>2 DEF GreeterFork, Goto, Serving, Gone, flags, DaemonInv,
                      ReturnsTo, StartSteps
  <2> QED
    BY <2>3, <2>4, <2>5 DEF SeatOf!Next, SeatOf!GreeterUp
<1>3. ASSUME NEW p \in Pids, Launch(p)
      PROVE  SeatOf!Next
  <2>1. Alive("session") = {}
    BY <1>3, NoPidAssumption DEF DaemonInv, Launch, Goto, SessionPid, Alive
  <2>2. m_running => Alive("greeter") = {}
    BY <1>3, NoPidAssumption
       DEF DaemonInv, Launch, Goto, GreeterAt, OtherGreeters, Alive
  <2>3. Alive("session")' = {p} /\ Alive("greeter")' = Alive("greeter")
    BY <1>0, <1>3, <2>1 DEF TypeOK, Launch, Children, ExitedSession, Alive, Live
  <2>4. /\ "user" \notin Screen
        /\ m_running => Screen = {}
        /\ Screen' = Screen \cup {"user"}
    BY <2>1, <2>2, <2>3 DEF Screen
  <2>5. UserAdmitted /\ UserAdmitted'
    BY <1>3, SeatNames, GrantNames
       DEF DaemonInv, LoginGrants, Launch, Goto, UserAdmitted, link
  <2>6. UNCHANGED Serving /\ (Serving => m_running)
    BY <1>3 DEF Launch, Goto, Serving, Gone, flags
  <2>7. UNCHANGED UserAdmitted
    BY <2>5 DEF UserAdmitted
  <2> QED
    BY <2>4, <2>5, <2>6, <2>7 DEF SeatOf!Next, SeatOf!UserUp
<1>4. CASE LoginReply
  <2>1. m_active_pam = {} /\ pam = Grants /\ reply = "none"
    BY <1>4, GrantNames DEF DaemonInv, LoginGrants, OtherGrants, LoginReply,
                                  LoginSteps
  <2>2. Alive("session") = {}
    BY <1>4, NoPidAssumption DEF DaemonInv, LoginReply, SessionPid, Alive
  <2>3. UNCHANGED Screen /\ "user" \notin Screen
    BY <1>4, <2>2, ScreenFrame DEF LoginReply, Screen
  <2>4. CASE pc' # "killed"
    <3>1. ~UserAdmitted /\ UserAdmitted'
      BY <1>4, <2>1, <2>4, SeatNames DEF LoginReply, Answer, UserAdmitted, pams,
                                         Admitted
    <3>2. UserAdmitted' = TRUE
      BY <3>1 DEF UserAdmitted
    <3>3. UNCHANGED Serving
      BY <1>4, <2>4 DEF LoginReply, Answer, Serving, Gone, flags
    <3> QED
      BY <2>3, <3>1, <3>2, <3>3 DEF SeatOf!Next, SeatOf!Admit
  <2>5. CASE pc' = "killed"
    BY <1>0, <1>4, <2>5, QuietSeat DEF LoginReply, Answer, flags, Gone
  <2> QED
    BY <2>4, <2>5
<1>5. CASE Logout
  <2>1. Alive("session") = {} /\ UNCHANGED Screen
    BY <1>5, NoPidAssumption, ScreenFrame
       DEF DaemonInv, Logout, SessionPid, Alive
  <2>2. pam = {} /\ m_active_pam = Admitted /\ reply = "ok"
    BY <1>5 DEF DaemonInv, Logout, LoginGrants, OtherGrants, StopSteps,
                      LoginSteps
  <2>3. UserAdmitted /\ ~UserAdmitted'
    BY <1>5, <2>2, GrantNames, SeatNames DEF Logout, UserAdmitted
  <2>4. UserAdmitted' = FALSE
    BY <2>3 DEF UserAdmitted
  <2>5. UNCHANGED Serving
    BY <1>5 DEF Logout, Serving, Gone, flags
  <2>6. "user" \notin Screen
    BY <2>1 DEF Screen
  <2> QED
    BY <2>1, <2>3, <2>4, <2>5, <2>6 DEF SeatOf!Next, SeatOf!Discharge
<1>6. ASSUME NEW p \in Pids, ProcExits(p) \/ KilledExits(p)
      PROVE  SeatOf!Next \/ UNCHANGED <<Screen, UserAdmitted, Serving>>
  <2>1. proc[p] # "free" /\ Exits(p)
    BY <1>6 DEF ProcExits, KilledExits
  <2>2. UNCHANGED UserAdmitted /\ UNCHANGED Serving
    BY <1>6 DEF ProcExits, KilledExits, UserAdmitted, Serving, pams, link, flags
  <2> QED
    BY <1>0, <2>1, <2>2, ExitFrame, SeatNames DEF SeatOf!Next, SeatOf!Down
<1>7. CASE Check \/ StopPolled \/ StopReap \/ WaitForExit
  <2>1. PICK S \in {{}, ExitedSession, ExitedGreeter,
                    ExitedGreeter \cup ExitedSession,
                    {m_greeter_pid}, {m_session_pid}} :
           Reap(S) /\ \A p \in S \cap Pids : proc[p] \notin Live
    BY <1>7 DEF Check, StopPolled, StopReap, WaitForExit, ExitedSession,
                ExitedGreeter, Live
  <2>2. /\ UNCHANGED <<m_running, reply>> /\ UNCHANGED pams
        /\ pc \notin Gone /\ pc' \notin Gone
    BY <1>7 DEF Check, StopPolled, StopReap, WaitForExit, Goto, Gone, flags, link
  <2> QED
    BY <1>0, <2>1, <2>2, ReapSeat
<1>8. CASE LaunchFails
  <2>1. UNCHANGED Screen
    BY <1>0, <1>8, ReapFrame DEF LaunchFails, ExitedSession, Live
  <2>2. pam = Admitted /\ reply = "ok"
    BY <1>8 DEF DaemonInv, LoginGrants, LaunchFails, Goto
  <2>3. UNCHANGED UserAdmitted
    BY <1>8, <2>2 DEF LaunchFails, UserAdmitted, link
  <2>4. UNCHANGED Serving
    BY <1>8 DEF LaunchFails, Goto, Serving, Gone, flags
  <2> QED
    BY <2>1, <2>3, <2>4
<1>9. CASE StopKill
  <2>1. UNCHANGED Alive("greeter") /\ UNCHANGED Alive("session")
    BY <1>0, <1>9 DEF TypeOK, StopKill, Alive, Live
  <2>2. UNCHANGED Screen
    BY <2>1 DEF Screen
  <2> QED
    BY <1>9, <2>2 DEF StopKill, Goto, UserAdmitted, Serving, Gone, pams, link, flags
<1>10. CASE \/ LoginStart \/ LoginAuthenticate \/ LoginAccount
            \/ LoginCredentials \/ LoginOpenSession
  <2>1. reply = "none" /\ m_active_pam = {} /\ pc \notin Gone
    BY <1>10 DEF DaemonInv, LoginGrants, OtherGrants, LoginSteps, Gone,
       LoginStart, LoginAuthenticate, LoginAccount, LoginCredentials,
       LoginOpenSession, LoginCall
  <2>2. UNCHANGED <<flags, procs>>
    BY <1>10 DEF LoginStart, LoginAuthenticate, LoginAccount, LoginCredentials,
       LoginOpenSession, LoginCall
  <2>3. reply' # "ok"
    BY <1>10, <2>1 DEF LoginStart, LoginAuthenticate, LoginAccount,
       LoginCredentials, LoginOpenSession, LoginCall, Deny, Answer, link
  <2>4. ~UserAdmitted /\ ~UserAdmitted'
    BY <2>1, <2>3 DEF UserAdmitted
  <2> QED
    BY <2>1, <2>2, <2>4, AnswerSeat
<1>11. CASE Serve \/ Accept
  <2>1. pam = {} /\ m_active_pam = {} /\ pc \notin Gone
    BY <1>11 DEF DaemonInv, LoginGrants, OtherGrants, Serve, Accept, Goto,
                       StopSteps, LoginSteps, Gone
  <2>2. UNCHANGED <<flags, procs>> /\ UNCHANGED pams
    BY <1>11 DEF Serve, Accept
  <2>3. ~UserAdmitted /\ ~UserAdmitted'
    BY <2>1, <2>2, SeatNames DEF UserAdmitted, pams, Admitted
  <2> QED
    BY <2>1, <2>2, <2>3, AnswerSeat
<1>12. CASE Terminate
  <2>1. /\ m_session_pid = NoPid /\ m_active_pam = {} /\ pam = {}
        /\ m_greeter_pam = {}
    BY <1>12 DEF DaemonInv, SessionPid, OtherGrants, LoginGrants,
                       Terminate, Goto, StopSteps, LoginSteps
  <2>2. UNCHANGED procs
    BY <1>0, <1>12, <2>1, NoPidAssumption
       DEF TypeOK, Terminate, Reap, Children, procs
  <2> QED
    BY <1>0, <1>12, <2>1, <2>2, QuietSeat DEF Terminate, Goto, Gone, pams, flags, link
<1>13. CASE Signals
  BY <1>0, <1>13, QuietSeat DEF Signals, Signal, SignalInPoll, SignalInRead,
     SignalInReap, Caught, link
<1>14. CASE \/ InitDaemon \/ LoopTest \/ PollIdle \/ PollFails \/ Read \/ Close
            \/ GreeterForkFails \/ Stop
  BY <1>0, <1>14, QuietSeat DEF InitDaemon, LoopTest, PollIdle, PollFails, Read,
     Close, GreeterForkFails, Stop, Goto, Gone, flags, link
<1>15. CASE GreeterStart \/ GreeterCredentials \/ GreeterOpenSession \/ StopPam
  <2>1. UNCHANGED <<pam, m_active_pam, reply, m_running>> /\ UNCHANGED procs
    BY <1>15 DEF GreeterStart, GreeterCredentials, GreeterOpenSession, GreeterPam,
                 StopPam, flags, link
  <2>2. pc \notin Gone /\ pc' \notin Gone
    BY <1>15 DEF DaemonInv, ReturnsTo, GreeterStart, GreeterCredentials,
       GreeterOpenSession, GreeterPam, StopPam, Goto, Gone, StartSteps, StopSteps
  <2> QED
    BY <2>1, <2>2, ScreenFrame DEF UserAdmitted, Serving
<1>16. CASE Peer
  BY <1>16, ScreenFrame DEF Peer, PeerSends, PeerCloses, UserAdmitted, Serving,
                            pams, flags
<1>17. CASE UNCHANGED vars
  BY <1>17, ScreenFrame DEF vars, procs, UserAdmitted, Serving
<1> QED
  BY <1>1, <1>2, <1>3, <1>4, <1>5, <1>6, <1>7, <1>8, <1>9, <1>10, <1>11,
     <1>12, <1>13, <1>14, <1>15, <1>16, <1>17 DEF Next, Thread, Ended

LEMMA SeatInit == Init => SeatOf!Init
BY GrantNames DEF Init, SeatOf!Init, Screen, Alive, Live, UserAdmitted, Serving

(***************************************************************************)
(* The daemon is a display manager as Seat describes one: the greeter only *)
(* ever takes an empty seat nobody was promised, a session only follows an *)
(* admission, and the greeter has left before it while the daemon serves.  *)
(***************************************************************************)
THEOREM SeatRefinementCorrect == Spec => SeatRefinement
BY SeatInit, SeatStep, InvCorrect, PTL DEF Spec, SeatRefinement, SeatOf!Spec, SeatOf!vars

(***************************************************************************)
(* What Seat is worth, from its own actions alone: a user on the screen    *)
(* was admitted, and greeter and session do not share the screen of a      *)
(* manager that serves.                                                    *)
(***************************************************************************)
SeatPromise ==
    /\ Screen \subseteq {"greeter", "user"}
    /\ "user" \in Screen => UserAdmitted
    /\ Serving => Screen # {"greeter", "user"}

LEMMA SeatPromiseStep ==
    ASSUME SeatPromise, SeatOf!Next
    PROVE  SeatPromise'
<1>1. CASE SeatOf!Open \/ SeatOf!Close
  <2>1. UNCHANGED Screen /\ UNCHANGED UserAdmitted /\ (Screen = {} \/ Serving' = FALSE)
    BY <1>1 DEF SeatOf!Open, SeatOf!Close
  <2> QED
    BY <2>1 DEF SeatPromise
<1>2. CASE SeatOf!Admit \/ SeatOf!Discharge
  <2>1. UNCHANGED Screen /\ UNCHANGED Serving /\ "user" \notin Screen
    BY <1>2 DEF SeatOf!Admit, SeatOf!Discharge
  <2> QED
    BY <2>1 DEF SeatPromise
<1>3. CASE SeatOf!GreeterUp
  <2>1. Screen' = {"greeter"}
    BY <1>3 DEF SeatOf!GreeterUp
  <2>2. {"greeter"} # {"greeter", "user"} /\ "user" \notin {"greeter"}
    OBVIOUS
  <2> QED
    BY <2>1, <2>2 DEF SeatPromise
<1>4. CASE SeatOf!UserUp
  <2>1. /\ UserAdmitted' /\ Screen' = Screen \cup {"user"}
        /\ Serving' => Screen = {}
    BY <1>4 DEF SeatOf!UserUp
  <2>2. Screen' \subseteq {"greeter", "user"}
    BY <2>1 DEF SeatPromise
  <2>3. Serving' => "greeter" \notin Screen'
    BY <2>1
  <2> QED
    BY <2>1, <2>2, <2>3 DEF SeatPromise
<1>5. ASSUME NEW x \in SeatOf!Parties, SeatOf!Down(x)
      PROVE  SeatPromise'
  BY <1>5, SeatNames DEF SeatPromise, SeatOf!Down
<1> QED
  BY <1>1, <1>2, <1>3, <1>4, <1>5 DEF SeatOf!Next

(***************************************************************************)
(* Whatever implements Seat keeps that promise, as the daemon does.        *)
(***************************************************************************)
THEOREM SeatPromiseKept == SeatRefinement => []SeatPromise
<1>1. SeatOf!Init => SeatPromise
  BY DEF SeatOf!Init, SeatPromise
<1>2. SeatPromise /\ UNCHANGED <<Screen, UserAdmitted, Serving>> => SeatPromise'
  BY DEF SeatPromise
<1> QED
  BY <1>1, <1>2, SeatPromiseStep, PTL DEF SeatRefinement, SeatOf!Spec, SeatOf!vars

-----------------------------------------------------------------------------
\* Where a client is connected, and its request known.
LinkInv ==
    /\ conn = "none" => inbox = "none"
    /\ pc \in {"read", "serve"} \cup LoginSteps => conn # "none"
    /\ pc \in {"serve"} \cup LoginSteps => inbox # "none"
    /\ \/ pc \in {"init", "enter", "loop", "poll", "check", "terminate"}
       \/ pc \in StartSteps /\ ret = "loop"
       \/ pc \in StopSteps /\ ret = "terminate"
       => conn = "none"

\* Only these actions touch the connection.
LEMMA LinkFrame ==
    ASSUME [Next]_vars
    PROVE  \/ UNCHANGED link
           \/ Accept \/ Serve \/ Close \/ LoginReply \/ Peer
           \/ LoginStart \/ LoginAuthenticate \/ LoginAccount
           \/ LoginCredentials \/ LoginOpenSession
<1>1. CASE Thread
  BY <1>1 DEF Thread, InitDaemon, EnterRun, LoopTest, PollIdle, PollFails, Read,
     Check, GreeterStart, GreeterCredentials, GreeterOpenSession, GreeterPam,
     GreeterFork, GreeterForkFails, Stop, StopPolled, StopKill, StopReap, StopPam,
     Launch, LaunchFails, WaitForExit, Logout, Terminate
<1>2. CASE Signals
  BY <1>2 DEF Signals, Signal, SignalInPoll, SignalInRead, SignalInReap
<1>3. CASE Peer \/ (\E p \in Pids : ProcExits(p) \/ KilledExits(p)) \/ Ended
  BY <1>3 DEF ProcExits, KilledExits, Ended, vars, link
<1> QED
  BY <1>1, <1>2, <1>3 DEF Next, vars, link

\* Where control goes while the connection stays as it is.
LEMMA LinkInvQuiet ==
    ASSUME DaemonInv, LinkInv, [Next]_vars, UNCHANGED link
    PROVE  LinkInv'
<1> USE DEF LinkInv, LoginSteps, StartSteps, StopSteps, link
<1>1. CASE Thread
  <2> USE <1>1 DEF DaemonInv, ReturnsTo, Goto
  <2>1. CASE InitDaemon \/ EnterRun \/ LoopTest \/ PollIdle \/ PollFails \/ Accept
             \/ Read \/ Serve \/ Close \/ Check
    BY <2>1 DEF InitDaemon, EnterRun, LoopTest, PollIdle, PollFails, Accept,
       Read, Serve, Close, Check, Answer
  <2>2. CASE GreeterStart \/ GreeterCredentials \/ GreeterOpenSession
             \/ (\E p \in Pids : GreeterFork(p)) \/ GreeterForkFails
    BY <2>2 DEF GreeterStart, GreeterCredentials, GreeterOpenSession, GreeterPam,
       GreeterFork, GreeterForkFails
  <2>3. CASE Stop \/ StopPolled \/ StopKill \/ StopReap \/ StopPam
    BY <2>3 DEF Stop, StopPolled, StopKill, StopReap, StopPam
  <2>4. CASE LoginStart \/ LoginAuthenticate \/ LoginAccount \/ LoginCredentials
             \/ LoginOpenSession \/ LoginReply
    BY <2>4 DEF LoginStart, LoginAuthenticate, LoginAccount, LoginCredentials,
       LoginOpenSession, LoginReply, LoginCall, Deny, Answer
  <2>5. CASE (\E p \in Pids : Launch(p)) \/ LaunchFails \/ WaitForExit \/ Logout
             \/ Terminate
    BY <2>5 DEF Launch, LaunchFails, WaitForExit, Logout, Terminate
  <2> QED
    BY <2>1, <2>2, <2>3, <2>4, <2>5 DEF Thread
<1>2. CASE Signals
  BY <1>2 DEF Signals, Signal, SignalInPoll, SignalInRead, SignalInReap, Goto
<1>3. CASE Peer \/ (\E p \in Pids : ProcExits(p) \/ KilledExits(p)) \/ Ended
  BY <1>3 DEF Peer, PeerSends, PeerCloses, ProcExits, KilledExits, Ended, vars
<1> QED
  BY <1>1, <1>2, <1>3 DEF Next, vars

\* A step of a login answers or lets the connection be.
LEMMA LoginCallLink ==
    ASSUME NEW from \in LoginSteps, NEW x, NEW to \in LoginSteps,
           DaemonInv, LinkInv, LoginCall(from, x, to)
    PROVE  LinkInv' /\ [LinkOf!Next]_link
<1>1. conn # "none" /\ inbox # "none" /\ reply = "none" /\ pc \in LoginSteps
  BY DEF LinkInv, DaemonInv, LoginGrants, LoginCall
<1>2. CASE pc' = to /\ UNCHANGED link
  BY <1>1, <1>2 DEF LinkInv, link, LoginSteps, StartSteps, StopSteps
<1>3. CASE Deny
  <2>1. LinkOf!Answers \/ LinkOf!Ends
    BY <1>1, <1>3 DEF Deny, Answer, LinkOf!Answers, LinkOf!Ends, DaemonInv, TypeOK
  <2>2. LinkInv'
    BY <1>1, <1>3 DEF Deny, Answer, LinkInv, LoginSteps, StartSteps, StopSteps
  <2> QED
    BY <2>1, <2>2 DEF LinkOf!Next
<1> QED
  BY <1>2, <1>3 DEF LoginCall

\* Every step is one of the connection, or none of its business.
LEMMA LinkStep ==
    ASSUME DaemonInv, LinkInv, [Next]_vars
    PROVE  LinkInv' /\ [LinkOf!Next]_link
<1> USE DEF DaemonInv, Goto
<1>1. CASE UNCHANGED link
  BY <1>1, LinkInvQuiet
<1>2. CASE Accept
  <2>1. LinkOf!Accept
    BY <1>2 DEF Accept, LinkOf!Accept, LinkInv
  <2>2. LinkInv'
    BY <1>2 DEF Accept, LinkInv, LoginSteps, StartSteps, StopSteps
  <2> QED
    BY <2>1, <2>2 DEF LinkOf!Next
<1>3. CASE Serve
  <2>1. conn # "none" /\ inbox # "none" /\ reply = "none"
    BY <1>3 DEF Serve, LinkInv, LoginGrants
  <2>2. [LinkOf!Answers \/ LinkOf!Ends]_link
    BY <1>3, <2>1 DEF Serve, Answer, LinkOf!Answers, LinkOf!Ends, TypeOK
  <2>3. LinkInv'
    BY <1>3, <2>1 DEF Serve, Answer, link, LinkInv, LoginSteps, StartSteps, StopSteps
  <2> QED
    BY <2>2, <2>3 DEF LinkOf!Next
<1>4. CASE Close
  <2>1. [LinkOf!Ends]_link
    BY <1>4 DEF Close, LinkInv, LinkOf!Ends, link
  <2>2. LinkInv'
    BY <1>4 DEF Close, LinkInv, LoginSteps, StartSteps, StopSteps
  <2> QED
    BY <2>1, <2>2 DEF LinkOf!Next
<1>5. CASE LoginReply
  <2>1. conn # "none" /\ inbox # "none" /\ reply = "none"
    BY <1>5 DEF LoginReply, LinkInv, LoginGrants, LoginSteps
  <2>2. LinkOf!Answers \/ LinkOf!Ends
    BY <1>5, <2>1 DEF LoginReply, Answer, LinkOf!Answers, LinkOf!Ends
  <2>3. LinkInv'
    BY <1>5, <2>1 DEF LoginReply, Answer, LinkInv, LoginSteps, StartSteps, StopSteps
  <2> QED
    BY <2>2, <2>3 DEF LinkOf!Next
<1>6. CASE Peer
  <2>1. LinkOf!Sends \/ LinkOf!Leaves
    BY <1>6 DEF Peer, PeerSends, PeerCloses, LinkOf!Sends, LinkOf!Leaves
  <2>2. LinkInv'
    BY <1>6 DEF Peer, PeerSends, PeerCloses, LinkInv, Requests
  <2> QED
    BY <2>1, <2>2 DEF LinkOf!Next
<1>7. CASE \/ LoginStart \/ LoginAuthenticate \/ LoginAccount
           \/ LoginCredentials \/ LoginOpenSession
  BY <1>7, LoginCallLink DEF LoginStart, LoginAuthenticate, LoginAccount,
     LoginCredentials, LoginOpenSession, LoginSteps
<1> QED
  BY <1>1, <1>2, <1>3, <1>4, <1>5, <1>6, <1>7, LinkFrame

(***************************************************************************)
(* The daemon keeps the protocol of a connection with any client, wherever *)
(* PAM fails, a signal comes or the client leaves.                         *)
(***************************************************************************)
THEOREM LinkRefinementCorrect == Spec => LinkRefinement
<1>1. Init => LinkOf!Init /\ LinkInv
  BY DEF Init, LinkOf!Init, LinkInv, LoginSteps, StartSteps, StopSteps
<1>2. DaemonInv /\ LinkInv /\ [Next]_vars => LinkInv' /\ [LinkOf!Next]_LinkOf!vars
  BY LinkStep DEF LinkOf!vars, link
<1> QED
  BY <1>1, <1>2, InvCorrect, PTL DEF Spec, LinkRefinement, LinkOf!Spec
=============================================================================
