---------------------------- MODULE DaemonProofs ----------------------------
(***************************************************************************)
(* Theorems about the daemon, for any set of pids, whether or not system   *)
(* calls fail and whether or not a greeter is configured.  Each follows    *)
(* from DaemonInv, which says what every program point may rely on.        *)
(***************************************************************************)
EXTENDS Daemon, TLAPS

\* A pid has a role exactly while the kernel knows it.
RolesMatch == \A p \in Pids : role[p] = "none" <=> proc[p] = "free"

\* m_greeter_pid names a greeter not yet waited for.
GreeterPid ==
    m_greeter_pid # NoPid /\ pc # "killed" =>
        role[m_greeter_pid] = "greeter"

\* A greeter it does not name was sent SIGKILL, during a shutdown.
OtherGreeters ==
    \A p \in Pids :
        role[p] = "greeter" /\ p # m_greeter_pid =>
            ~m_running /\ proc[p] # "running"

\* ... and there is none beside one it names, nor when one is being started.
OneGreeter ==
    m_greeter_pid # NoPid \/ pc \in StartSteps =>
        \A p \in Pids : role[p] = "greeter" => p = m_greeter_pid

\* m_session_pid names the session, and only while it is waited for.
SessionPid ==
    /\ m_session_pid # NoPid <=> pc = "wait"
    /\ pc = "wait" => role[m_session_pid] = "session"
    /\ \A p \in Pids : role[p] = "session" => p = m_session_pid

\* Where the greeter's pid is known to be unset, or set.
GreeterAt ==
    /\ pc \in {"init", "enter", "stop_pam", "launch", "wait", "logout",
               "terminate", "exited"} \cup StartSteps => m_greeter_pid = NoPid
    /\ pc \in {"stop_wait", "stop_reap"} => m_greeter_pid # NoPid
    /\ pc = "stop_reap" => proc[m_greeter_pid] # "running"
    /\ pc \in {"init", "enter"} => \A p \in Pids : proc[p] = "free"
    /\ pc \in {"init", "exited"} => ~listening

\* Where start_greeter and stop_greeter return to.
ReturnsTo ==
    /\ pc \in StartSteps => ret \in {"loop", "close"}
    /\ pc \in StopSteps => ret \in {"launch", "terminate"}

\* The grants a login has collected at each point.
LoginGrants ==
    /\ pc = "login_auth" => pam = {"handle"}
    /\ pc = "login_acct" => pam = {"handle", "auth"}
    /\ pc = "login_cred" => pam = {"handle", "auth", "acct"}
    /\ pc = "login_open" => pam = {"handle", "auth", "acct", "cred"}
    /\ pc = "login_reply" => pam = Admitted
    /\ (pc \in StopSteps /\ ret = "launch") \/ pc = "launch" =>
          pam = Admitted /\ reply = "ok"
    /\ pc \in {"read", "serve"} \cup LoginSteps => reply = "none"
    /\ pc \in StopSteps /\ ret = "terminate" => pam = {}
    /\ pc \notin StopSteps \cup (LoginSteps \ {"login_start"}) \cup {"launch", "killed"}
          => pam = {}

\* Which PAM objects exist besides.
OtherGrants ==
    /\ pc \notin {"wait", "logout"} => m_active_pam = {}
    /\ pc \in {"wait", "logout"} => m_active_pam = Admitted /\ reply = "ok"
    /\ pc \in {"greeter_cred", "greeter_open"} => "handle" \in m_greeter_pam
    /\ pc \in {"init", "enter", "launch", "wait", "logout", "terminate", "exited"}
          => m_greeter_pam = {}

DaemonInv ==
    /\ TypeOK
    /\ RolesMatch
    /\ GreeterPid
    /\ OtherGreeters
    /\ OneGreeter
    /\ SessionPid
    /\ GreeterAt
    /\ ReturnsTo
    /\ LoginGrants
    /\ OtherGrants

-----------------------------------------------------------------------------
(***************************************************************************)
(* Every program point named by an action is one of Steps.  Keeping Steps  *)
(* folded in the proofs below is what keeps them short.                    *)
(***************************************************************************)
LEMMA ControlPoints ==
    /\ {"enter", "loop", "poll", "read", "serve", "close", "check", "launch",
        "wait", "logout", "terminate", "exited", "killed"} \subseteq Steps
    /\ LoginSteps \cup StartSteps \cup StopSteps \subseteq Steps
BY DEF Steps, Gone

LEMMA GrantNames ==
    /\ {"handle", "auth", "acct", "cred", "session"} = Grants
    /\ Admitted = Grants
BY DEF Grants, Admitted, Revocable

\* A PAM call of the login, whatever it asks for, keeps the types.
LEMMA LoginCallType ==
    ASSUME NEW from, NEW x \in Grants, NEW to \in Steps,
           TypeOK, LoginCall(from, x, to)
    PROVE  TypeOK'
<1> "close" \in Steps /\ "killed" \in Steps
  BY ControlPoints
<1> QED
  BY DEF TypeOK, LoginCall, Deny, Answer, flags, pids, procs, link

\* Every step keeps the types.
LEMMA TypeStep == TypeOK /\ [Next]_vars => TypeOK'
<1> SUFFICES ASSUME TypeOK, [Next]_vars
             PROVE  TypeOK'
  OBVIOUS
<1> USE ControlPoints, GrantNames DEF TypeOK, LoginSteps, StartSteps, StopSteps,
        Requests, Live
<1>1. CASE InitDaemon
  <2>1. pc' \in {"enter", "exited"} /\ listening' \in BOOLEAN
    BY <1>1 DEF InitDaemon
  <2> QED
    BY <1>1, <2>1 DEF InitDaemon, flags, pids, pams, procs, link
<1>2. CASE EnterRun
  BY <1>2 DEF EnterRun, pids, pams, procs, link, Goto
<1>3. CASE LoopTest
  BY <1>3 DEF LoopTest, flags, pids, pams, procs, link
<1>4. CASE PollIdle
  BY <1>4 DEF PollIdle, flags, pids, pams, procs, link, Goto
<1>5. CASE PollFails
  BY <1>5 DEF PollFails, flags, pids, pams, procs, link, Goto
<1>6. CASE Accept
  BY <1>6 DEF Accept, flags, pids, pams, procs, Goto
<1>7. CASE Read
  BY <1>7 DEF Read, flags, pids, pams, procs, link
<1>8. CASE Serve
  BY <1>8 DEF Serve, flags, pids, pams, procs, link, Answer
<1>9. CASE Close
  BY <1>9 DEF Close, flags, pids, pams, procs, Goto
<1>10. CASE Check
  BY <1>10 DEF Check, flags, pams, link, Reap, Children, ExitedSession,
     ExitedGreeter, GreeterDied, IsRunning
<1>11. CASE GreeterStart
  BY <1>11 DEF GreeterStart, flags, pids, procs, link
<1>12. CASE GreeterCredentials
  BY <1>12 DEF GreeterCredentials, GreeterPam, flags, pids, procs, link,
     Goto
<1>13. CASE GreeterOpenSession
  BY <1>13 DEF GreeterOpenSession, GreeterPam, flags, pids, procs, link,
     Goto
<1>14. ASSUME NEW p \in Pids, GreeterFork(p)
       PROVE  TypeOK'
  <2>1. /\ proc' \in [Pids -> {"free", "zombie"} \cup Live]
        /\ role' \in [Pids -> {"none", "greeter", "session"}]
    BY <1>14 DEF GreeterFork, Fork, Children
  <2> QED
    BY <1>14, <2>1 DEF GreeterFork, flags, pams, link, Goto
<1>15. CASE GreeterForkFails
  BY <1>15 DEF GreeterForkFails, flags, pids, pams, procs, link, Goto
<1>16. CASE Stop
  BY <1>16 DEF Stop, flags, pids, pams, procs, link
<1>17. CASE StopPolled
  BY <1>17 DEF StopPolled, flags, pams, link, Goto, Reap, Children
<1>18. CASE StopKill
  <2>1. proc' \in [Pids -> {"free", "zombie"} \cup Live]
    BY <1>18 DEF StopKill
  <2> QED
    BY <1>18, <2>1 DEF StopKill, flags, pids, pams, link, Goto
<1>19. CASE StopReap
  BY <1>19 DEF StopReap, flags, pams, link, Goto, Reap, Children
<1>20. CASE StopPam
  BY <1>20 DEF StopPam, flags, pids, procs, link, Goto
<1>21. CASE LoginStart
  BY <1>21, LoginCallType DEF LoginStart
<1>22. CASE LoginAuthenticate
  BY <1>22, LoginCallType DEF LoginAuthenticate
<1>23. CASE LoginAccount
  BY <1>23, LoginCallType DEF LoginAccount
<1>24. CASE LoginCredentials
  BY <1>24, LoginCallType DEF LoginCredentials
<1>25. CASE LoginOpenSession
  BY <1>25, LoginCallType DEF LoginOpenSession
<1>26. CASE LoginReply
  BY <1>26 DEF LoginReply, flags, pids, pams, procs, Answer
<1>27. ASSUME NEW p \in Pids, Launch(p)
       PROVE  TypeOK'
  BY <1>27 DEF Launch, flags, link, Goto, Children, IsRunning, ExitedSession
<1>28. CASE LaunchFails
  BY <1>28 DEF LaunchFails, flags, pids, link, Goto, Reap, Children,
     IsRunning, ExitedSession
<1>29. CASE WaitForExit
  BY <1>29 DEF WaitForExit, flags, pams, link, Goto, Reap, Children
<1>30. CASE Logout
  BY <1>30 DEF Logout, flags, pids, procs, link
<1>31. CASE Terminate
  BY <1>31 DEF Terminate, flags, link, Goto, Reap, Children
<1>32. CASE Signal
  BY <1>32 DEF Signal, pids, pams, procs, link, Caught
<1>33. CASE SignalInPoll
  BY <1>33 DEF SignalInPoll, pids, pams, procs, link, Goto, Caught
<1>34. CASE SignalInRead
  BY <1>34 DEF SignalInRead, pids, pams, procs, link, Goto, Caught
<1>35. CASE SignalInReap
  BY <1>35 DEF SignalInReap, pams, procs, link, Goto, Caught
<1>36. CASE PeerSends
  BY <1>36 DEF PeerSends, flags, pids, pams, procs
<1>37. CASE PeerCloses
  BY <1>37 DEF PeerCloses, flags, pids, pams, procs
<1>38. ASSUME NEW p \in Pids, ProcExits(p)
       PROVE  TypeOK'
  BY <1>38 DEF ProcExits, flags, pids, pams, link, Exits, Reap, Children
<1>39. ASSUME NEW p \in Pids, KilledExits(p)
       PROVE  TypeOK'
  BY <1>39 DEF KilledExits, flags, pids, pams, link, Exits, Reap, Children
<1>40. CASE UNCHANGED vars
  BY <1>40 DEF vars
<1> QED
  BY <1>1, <1>2, <1>3, <1>4, <1>5, <1>6, <1>7, <1>8, <1>9, <1>10, <1>11,
     <1>12, <1>13, <1>14, <1>15, <1>16, <1>17, <1>18, <1>19, <1>20, <1>21,
     <1>22, <1>23, <1>24, <1>25, <1>26, <1>27, <1>28, <1>29, <1>30, <1>31,
     <1>32, <1>33, <1>34, <1>35, <1>36, <1>37, <1>38, <1>39, <1>40 DEF Next,
     Thread, Signals, Peer, Ended

(***************************************************************************)
(* Type correctness: every variable keeps the type its code gives it.      *)
(***************************************************************************)
THEOREM TypeCorrect == Spec => []TypeOK
<1>1. Init => TypeOK
  BY DEF Init, TypeOK, Steps
<1> QED
  BY <1>1, TypeStep, PTL DEF Spec

-----------------------------------------------------------------------------
\* The strengthening holds at the start, ...
LEMMA InvInit == Init => DaemonInv
BY NoPidAssumption
   DEF Init, DaemonInv, TypeOK, RolesMatch, GreeterPid, OtherGreeters, OneGreeter,
        SessionPid,
       GreeterAt, ReturnsTo, LoginGrants, OtherGrants, Steps, LoginSteps,
       StartSteps, StopSteps

\* ... and every step keeps it.
LEMMA InvStep == DaemonInv /\ [Next]_vars => DaemonInv'
<1> SUFFICES ASSUME DaemonInv, [Next]_vars
             PROVE  DaemonInv'
  OBVIOUS
<1>0. TypeOK /\ TypeOK'
  BY TypeStep DEF DaemonInv
<1> USE <1>0, NoPidAssumption, GrantNames
    DEF RolesMatch, GreeterPid, OtherGreeters, OneGreeter,
        SessionPid, GreeterAt,
        ReturnsTo, LoginGrants, OtherGrants,
        LoginSteps, StartSteps, StopSteps, Gone, Live
<1>a. RolesMatch /\ GreeterPid /\ OtherGreeters /\ OneGreeter /\ SessionPid /\ GreeterAt
         /\ ReturnsTo /\ LoginGrants /\ OtherGrants
  BY DEF DaemonInv
<1> DEFINE Rest == /\ RolesMatch
                   /\ GreeterPid
                   /\ OtherGreeters
                   /\ OneGreeter
                   /\ SessionPid
                   /\ GreeterAt
                   /\ ReturnsTo
                   /\ LoginGrants
                   /\ OtherGrants
<1>1. ASSUME InitDaemon PROVE Rest'
  BY <1>1, <1>a DEF InitDaemon, flags, pids, pams, procs, link, TypeOK
<1>2. ASSUME EnterRun PROVE Rest'
  BY <1>2, <1>a DEF EnterRun, pids, pams, procs, link, Goto, TypeOK
<1>3. ASSUME LoopTest PROVE Rest'
  BY <1>3, <1>a DEF LoopTest, flags, pids, pams, procs, link, TypeOK
<1>4. ASSUME PollIdle PROVE Rest'
  BY <1>4, <1>a DEF PollIdle, flags, pids, pams, procs, link, Goto, TypeOK
<1>5. ASSUME PollFails PROVE Rest'
  BY <1>5, <1>a DEF PollFails, flags, pids, pams, procs, link, Goto, TypeOK
<1>6. ASSUME Accept PROVE Rest'
  BY <1>6, <1>a DEF Accept, flags, pids, pams, procs, Goto, TypeOK
<1>7. ASSUME Read PROVE Rest'
  BY <1>7, <1>a DEF Read, flags, pids, pams, procs, link, TypeOK
<1>8. ASSUME Serve PROVE Rest'
  BY <1>8, <1>a DEF Serve, flags, pids, pams, procs, link, Answer, TypeOK
<1>9. ASSUME Close PROVE Rest'
  BY <1>9, <1>a DEF Close, flags, pids, pams, procs, Goto, TypeOK
<1>10. ASSUME Check PROVE Rest'
  BY <1>10, <1>a DEF Check, flags, pams, link, Reap, Children, ExitedSession,
     ExitedGreeter, GreeterDied, IsRunning, TypeOK
<1>11. ASSUME GreeterStart PROVE Rest'
  BY <1>11, <1>a DEF GreeterStart, flags, pids, procs, link, TypeOK
<1>12. ASSUME GreeterCredentials PROVE Rest'
  BY <1>12, <1>a DEF GreeterCredentials, GreeterPam, flags, pids, procs, link,
     Goto, TypeOK
<1>13. ASSUME GreeterOpenSession PROVE Rest'
  BY <1>13, <1>a DEF GreeterOpenSession, GreeterPam, flags, pids, procs, link,
     Goto, TypeOK
<1>14. ASSUME NEW p \in Pids, GreeterFork(p)
       PROVE  Rest'
  BY <1>14, <1>a DEF GreeterFork, flags, pams, link, Goto, Fork, Children, TypeOK
<1>15. ASSUME GreeterForkFails PROVE Rest'
  BY <1>15, <1>a DEF GreeterForkFails, flags, pids, pams, procs, link, Goto,
     TypeOK
<1>16. ASSUME Stop PROVE Rest'
  BY <1>16, <1>a DEF Stop, flags, pids, pams, procs, link, TypeOK
<1>17. ASSUME StopPolled PROVE Rest'
  BY <1>17, <1>a DEF StopPolled, flags, pams, link, Goto, Reap, Children, TypeOK
<1>18. ASSUME StopKill PROVE Rest'
  BY <1>18, <1>a DEF StopKill, flags, pids, pams, link, Goto, TypeOK
<1>19. ASSUME StopReap PROVE Rest'
  BY <1>19, <1>a DEF StopReap, flags, pams, link, Goto, Reap, Children, TypeOK
<1>20. ASSUME StopPam PROVE Rest'
  BY <1>20, <1>a DEF StopPam, flags, pids, procs, link, Goto, TypeOK
<1>21. ASSUME LoginStart PROVE Rest'
  BY <1>21, <1>a DEF LoginStart, LoginCall, flags, pids, procs, link, Deny,
     Answer, TypeOK
<1>22. ASSUME LoginAuthenticate PROVE Rest'
  BY <1>22, <1>a DEF LoginAuthenticate, LoginCall, flags, pids, procs, link, Deny,
     Answer, TypeOK
<1>23. ASSUME LoginAccount PROVE Rest'
  BY <1>23, <1>a DEF LoginAccount, LoginCall, flags, pids, procs, link, Deny,
     Answer, TypeOK
<1>24. ASSUME LoginCredentials PROVE Rest'
  BY <1>24, <1>a DEF LoginCredentials, LoginCall, flags, pids, procs, link, Deny,
     Answer, TypeOK
<1>25. ASSUME LoginOpenSession PROVE Rest'
  BY <1>25, <1>a DEF LoginOpenSession, LoginCall, flags, pids, procs, link, Deny,
     Answer, TypeOK
<1>26. ASSUME LoginReply PROVE Rest'
  BY <1>26, <1>a DEF LoginReply, flags, pids, pams, procs, Answer, TypeOK
<1>27. ASSUME NEW p \in Pids, Launch(p)
       PROVE  Rest'
  BY <1>27, <1>a DEF Launch, flags, link, Goto, Children, IsRunning,
     ExitedSession, TypeOK
<1>28. ASSUME LaunchFails PROVE Rest'
  BY <1>28, <1>a DEF LaunchFails, flags, pids, link, Goto, Reap, Children,
     IsRunning, ExitedSession, TypeOK
<1>29. ASSUME WaitForExit PROVE Rest'
  BY <1>29, <1>a DEF WaitForExit, flags, pams, link, Goto, Reap, Children, TypeOK
<1>30. ASSUME Logout PROVE Rest'
  BY <1>30, <1>a DEF Logout, flags, pids, procs, link, TypeOK
<1>31. ASSUME Terminate PROVE Rest'
  BY <1>31, <1>a DEF Terminate, flags, link, Goto, Reap, Children, TypeOK
<1>32. ASSUME Signal PROVE Rest'
  BY <1>32, <1>a DEF Signal, pids, pams, procs, link, Caught, TypeOK
<1>33. ASSUME SignalInPoll PROVE Rest'
  BY <1>33, <1>a DEF SignalInPoll, pids, pams, procs, link, Goto, Caught, TypeOK
<1>34. ASSUME SignalInRead PROVE Rest'
  BY <1>34, <1>a DEF SignalInRead, pids, pams, procs, link, Goto, Caught, TypeOK
<1>35. ASSUME SignalInReap PROVE Rest'
  BY <1>35, <1>a DEF SignalInReap, pams, procs, link, Goto, Caught, TypeOK
<1>36. ASSUME PeerSends PROVE Rest'
  BY <1>36, <1>a DEF PeerSends, flags, pids, pams, procs, TypeOK
<1>37. ASSUME PeerCloses PROVE Rest'
  BY <1>37, <1>a DEF PeerCloses, flags, pids, pams, procs, TypeOK
<1>38. ASSUME NEW p \in Pids, ProcExits(p)
       PROVE  Rest'
  BY <1>38, <1>a DEF ProcExits, flags, pids, pams, link, Exits, Reap, Children,
     TypeOK
<1>39. ASSUME NEW p \in Pids, KilledExits(p)
       PROVE  Rest'
  BY <1>39, <1>a DEF KilledExits, flags, pids, pams, link, Exits, Reap, Children,
     TypeOK
<1>40. ASSUME UNCHANGED vars PROVE Rest'
  BY <1>40, <1>a DEF vars, TypeOK
<1> Rest'
  BY <1>1, <1>2, <1>3, <1>4, <1>5, <1>6, <1>7, <1>8, <1>9, <1>10, <1>11,
     <1>12, <1>13, <1>14, <1>15, <1>16, <1>17, <1>18, <1>19, <1>20, <1>21,
     <1>22, <1>23, <1>24, <1>25, <1>26, <1>27, <1>28, <1>29, <1>30, <1>31,
     <1>32, <1>33, <1>34, <1>35, <1>36, <1>37, <1>38, <1>39, <1>40 DEF Next,
     Thread, Signals, Peer, Ended
<1> QED
  BY <1>0 DEF DaemonInv

THEOREM InvCorrect == Spec => []DaemonInv
BY InvInit, InvStep, PTL DEF Spec

-----------------------------------------------------------------------------
\* A session runs only in "wait", where the greeter's pid is unset.
LEMMA SeatFromInv == DaemonInv => SeatExclusive
<1> SUFFICES ASSUME DaemonInv, NEW q \in Alive("session"),
                    NEW p \in Alive("greeter")
             PROVE  proc[p] = "doomed" /\ ~m_running
  BY DEF SeatExclusive
<1>1. pc = "wait" /\ m_greeter_pid = NoPid
  BY NoPidAssumption DEF DaemonInv, SessionPid, GreeterAt, Alive
<1>2. p # m_greeter_pid /\ role[p] = "greeter" /\ proc[p] \in Live
  BY <1>1, NoPidAssumption DEF Alive
<1> QED
  BY <1>2 DEF DaemonInv, OtherGreeters, Alive, Live

(***************************************************************************)
(* stop_greeter before launch, and start_greeter after the wait, keep the  *)
(* greeter and the session apart on the seat.                              *)
(***************************************************************************)
THEOREM SeatExclusiveCorrect == Spec => []SeatExclusive
BY SeatFromInv, InvCorrect, PTL

(***************************************************************************)
(* Every child that was forked and not waited for is still known to the    *)
(* daemon, or is a greeter killed during a shutdown.                       *)
(***************************************************************************)
THEOREM ChildrenTrackedCorrect == Spec => []ChildrenTracked
<1>1. DaemonInv => ChildrenTracked
  <2> SUFFICES ASSUME DaemonInv, NEW p \in Pids, proc[p] # "free",
                      p \notin {m_greeter_pid, m_session_pid}
               PROVE  role[p] = "greeter" /\ proc[p] # "running" /\ ~m_running
    BY DEF ChildrenTracked
  <2>1. role[p] = "greeter"
    BY DEF DaemonInv, TypeOK, RolesMatch, SessionPid
  <2> QED
    BY <2>1 DEF DaemonInv, OtherGreeters
<1> QED
  BY <1>1, InvCorrect, PTL

(***************************************************************************)
(* Neither pid the daemon keeps can name a process that is not its child.  *)
(***************************************************************************)
THEOREM PidsAreChildrenCorrect == Spec => []PidsAreChildren
<1>1. DaemonInv => PidsAreChildren
  BY DEF DaemonInv, PidsAreChildren, GreeterPid, SessionPid, Gone
<1> QED
  BY <1>1, InvCorrect, PTL

(***************************************************************************)
(* No session process exists but for a login that PAM granted in full,     *)
(* whatever call fails and wherever a signal or a SIGPIPE strikes.         *)
(***************************************************************************)
THEOREM SessionIsAdmittedCorrect == Spec => []SessionIsAdmitted
<1>1. DaemonInv => SessionIsAdmitted
  BY NoPidAssumption DEF DaemonInv, SessionIsAdmitted, SessionPid, OtherGrants
<1> QED
  BY <1>1, InvCorrect, PTL

(***************************************************************************)
(* Every way out of main leaves PAM closed, the socket gone, no session    *)
(* and no greeter that was not killed.                                     *)
(***************************************************************************)
THEOREM CleanExitCorrect == Spec => []CleanExit
<1>1. DaemonInv => CleanExit
  <2> SUFFICES ASSUME DaemonInv, pc = "exited"
               PROVE  /\ m_greeter_pam = {} /\ pam = {} /\ m_active_pam = {}
                      /\ ~listening
                      /\ \A p \in Pids : role[p] # "session" /\ proc[p] # "running"
    BY DEF CleanExit
  <2>1. m_greeter_pid = NoPid /\ m_session_pid = NoPid /\ ~listening
    BY DEF DaemonInv, GreeterAt, SessionPid
  <2>2. m_greeter_pam = {} /\ pam = {} /\ m_active_pam = {}
    BY DEF DaemonInv, OtherGrants, LoginGrants, StopSteps, LoginSteps
  <2>3. \A p \in Pids : role[p] # "session" /\ proc[p] # "running"
    BY <2>1, NoPidAssumption
       DEF DaemonInv, TypeOK, RolesMatch, SessionPid, OtherGreeters
  <2> QED
    BY <2>1, <2>2, <2>3
<1> QED
  BY <1>1, InvCorrect, PTL

(***************************************************************************)
(* m_greeter_pam only loses grants in start_greeter, with no greeter       *)
(* running, and in stop_greeter, after the wait.                           *)
(***************************************************************************)
THEOREM GreeterPamCorrect == Spec => GreeterPamOutlivesGreeter
<1>1. ASSUME DaemonInv, [Next]_vars
      PROVE  [PamStaysWithGreeter]_vars
  <2>1. m_greeter_pid = NoPid => \A p \in Pids : role[p] = "greeter" => proc[p] # "running"
    BY <1>1, NoPidAssumption DEF DaemonInv, OtherGreeters
  <2>2. CASE GreeterStart \/ StopPam \/ Terminate
    <3>1. m_greeter_pid = NoPid
      BY <1>1, <2>2 DEF DaemonInv, GreeterAt, GreeterStart, StopPam, Terminate,
                        Goto, StartSteps
    <3> QED
      BY <2>1, <3>1 DEF PamStaysWithGreeter
  <2>3. CASE GreeterCredentials \/ GreeterOpenSession
    BY <2>3 DEF GreeterCredentials, GreeterOpenSession, GreeterPam,
                PamStaysWithGreeter
  <2>4. CASE m_greeter_pam' = m_greeter_pam
    BY <2>4 DEF PamStaysWithGreeter
  <2>5. \/ GreeterStart \/ StopPam \/ Terminate
        \/ GreeterCredentials \/ GreeterOpenSession
        \/ m_greeter_pam' = m_greeter_pam
    <3>1. CASE Thread
      BY <3>1 DEF Thread, InitDaemon, EnterRun, LoopTest, PollIdle, PollFails,
         Accept, Read, Serve, Close, Check, GreeterFork, GreeterForkFails, Stop,
         StopPolled, StopKill, StopReap, LoginStart, LoginAuthenticate,
         LoginAccount, LoginCredentials, LoginOpenSession, LoginCall, LoginReply,
         Launch, LaunchFails, WaitForExit, Logout, pams
    <3>2. CASE Signals
      BY <3>2 DEF Signals, Signal, SignalInPoll, SignalInRead, SignalInReap, pams
    <3>3. CASE Peer \/ (\E p \in Pids : ProcExits(p) \/ KilledExits(p)) \/ Ended
      BY <3>3 DEF Peer, PeerSends, PeerCloses, ProcExits, KilledExits, Ended, pams, vars
    <3> QED
      BY <1>1, <3>1, <3>2, <3>3 DEF Next, vars
  <2> QED
    BY <2>2, <2>3, <2>4, <2>5
<1> QED
  BY <1>1, InvCorrect, PTL DEF Spec, GreeterPamOutlivesGreeter
=============================================================================
