----------------------------- MODULE UnitProofs -----------------------------
(***************************************************************************)
(* The daemon's invariant survives systemd: it holds in every life of the  *)
(* daemon, for any set of pids and any limit on the starts, whether or not *)
(* the PAM stack takes the daemon out of its control group.  A daemon that *)
(* was killed keeps less of it, what the kernel itself guarantees, and the *)
(* next life starts with children of its own only: nothing is asked of the *)
(* survivors of the last one.                                              *)
(***************************************************************************)
EXTENDS Unit, DaemonProofs

\* A session process has the PAM session of its login, dead daemon or not.
SessionHeld == \A p \in Pids : role[p] = "session" => m_active_pam = Admitted

UnitInv ==
    /\ UnitTypeOK
    /\ RolesMatch
    /\ SessionHeld
    /\ pc # "killed" => DaemonInv
    /\ SurvivorKeepsLogin

LEMMA InvHolds == DaemonInv => TypeOK /\ RolesMatch /\ SessionHeld
BY NoPidAssumption DEF DaemonInv, SessionPid, OtherGrants, SessionHeld

LEMMA UnitInvInit == UnitInit => UnitInv
<1> SUFFICES ASSUME UnitInit
             PROVE  UnitInv
  OBVIOUS
<1>1. DaemonInv
  BY InvInit DEF UnitInit
<1>2. 1 \in 0 .. StartLimitBurst
  BY BurstAssumption
<1> QED
  BY <1>1, <1>2, InvHolds DEF UnitInit, UnitInv, UnitTypeOK, SurvivorKeepsLogin

\* A dead daemon takes no step: only its children still exit.
LEMMA DeadStep ==
    ASSUME TypeOK, RolesMatch, SessionHeld, pc = "killed", [Next]_vars
    PROVE  pc' = "killed" /\ RolesMatch' /\ SessionHeld'
<1>1. CASE \E p \in Pids : ProcExits(p) \/ KilledExits(p)
  <2>1. PICK p \in Pids : ProcExits(p) \/ KilledExits(p)
    BY <1>1
  <2>2. /\ pc' = "killed" /\ Exits(p) /\ proc[p] # "free"
        /\ m_active_pam' = m_active_pam
    BY <2>1 DEF ProcExits, KilledExits, pams
  <2> QED
    BY <2>2 DEF TypeOK, RolesMatch, SessionHeld, Exits, Reap, Children, Gone
<1>2. CASE Peer
  BY <1>2 DEF Peer, PeerSends, PeerCloses, RolesMatch, SessionHeld, procs, pams
<1>3. CASE Signals
  BY <1>3 DEF Signals, Signal, SignalInPoll, SignalInRead, SignalInReap, Goto, Gone
<1>4. CASE Thread
  BY <1>4 DEF Thread, InitDaemon, EnterRun, LoopTest, PollIdle, PollFails, Accept,
     Read, Serve, Close, Check, GreeterStart, GreeterPam, GreeterCredentials,
     GreeterOpenSession, GreeterFork, GreeterForkFails, Stop, StopPolled, StopKill,
     StopReap, StopPam, LoginCall, LoginStart, LoginAuthenticate, LoginAccount,
     LoginCredentials, LoginOpenSession, LoginReply, Launch, LaunchFails,
     WaitForExit, Logout, Terminate, Goto
<1>5. CASE Ended \/ UNCHANGED vars
  BY <1>5 DEF Ended, vars, RolesMatch, SessionHeld
<1> QED
  BY <1>1, <1>2, <1>3, <1>4, <1>5 DEF Next

\* What a life of the daemon does to the invariant, whatever systemd wants.
LEMMA LifeStep ==
    ASSUME TypeOK, RolesMatch, SessionHeld, pc # "killed" => DaemonInv, [Next]_vars
    PROVE  TypeOK' /\ RolesMatch' /\ SessionHeld' /\ (pc' # "killed" => DaemonInv')
<1>1. TypeOK'
  BY TypeStep
<1>2. CASE pc = "killed"
  BY <1>1, <1>2, DeadStep
<1>3. CASE pc # "killed"
  <2>1. DaemonInv'
    BY <1>3, InvStep
  <2>2. RolesMatch' /\ SessionHeld'
    BY <2>1, InvHolds, PTL
  <2> QED
    BY <1>1, <2>1, <2>2
<1> QED
  BY <1>2, <1>3

\* A new life starts with no child, whoever is left of the last one.
LEMMA FreshLife ==
    ASSUME TypeOK, Fresh
    PROVE  DaemonInv'
<1>1. /\ proc' = [p \in Pids |-> "free"]
      /\ role' = [p \in Pids |-> "none"]
  BY DEF Fresh, Reap, Children
<1>2. TypeOK'
  BY <1>1 DEF Fresh, TypeOK, Steps, Live
<1>3. RolesMatch' /\ GreeterPid' /\ OtherGreeters' /\ OneGreeter'
  BY <1>1 DEF Fresh, RolesMatch, GreeterPid, OtherGreeters, OneGreeter, StartSteps
<1>4. SessionPid' /\ GreeterAt' /\ ReturnsTo'
  BY <1>1 DEF Fresh, SessionPid, GreeterAt, ReturnsTo, StartSteps, StopSteps
<1>5. LoginGrants' /\ OtherGrants'
  BY DEF Fresh, LoginGrants, OtherGrants, LoginSteps, StopSteps
<1> QED
  BY <1>2, <1>3, <1>4, <1>5 DEF DaemonInv

\* A daemon that returned from run() has left no running child.
LEMMA ExitedAlone ==
    ASSUME DaemonInv, pc = "exited", NEW p \in Pids
    PROVE  proc[p] # "running"
<1>1. m_greeter_pid = NoPid /\ m_session_pid = NoPid
  BY DEF DaemonInv, GreeterAt, SessionPid
<1> QED
  BY <1>1, NoPidAssumption DEF DaemonInv, TypeOK, RolesMatch, SessionPid, OtherGreeters

\* What one life hands to the next: a session only with its PAM session.
LEMMA Handed ==
    ASSUME UnitInv, LifeEnds
    PROVE  /\ leaked' \subseteq {"greeter", "user"}
           /\ lingering' \subseteq {"greeter", "session"}
           /\ SurvivorKeepsLogin'
<1>1. LeftOpen \subseteq {"greeter", "user"}
  BY DEF LeftOpen
<1>2. \A p \in Survivors : role[p] \in {"greeter", "session"}
  BY DEF Survivors, UnitInv, UnitTypeOK, TypeOK, RolesMatch
<1>3. (\E p \in Survivors : role[p] = "session") => "user" \in LeftOpen
  BY GrantNames DEF Survivors, UnitInv, UnitTypeOK, SessionHeld, LeftOpen
<1> QED
  BY <1>1, <1>2, <1>3 DEF LifeEnds, UnitInv, UnitTypeOK, SurvivorKeepsLogin

LEMMA UnitInvStep == UnitInv /\ [UnitNext]_allVars => UnitInv'
<1> SUFFICES ASSUME UnitInv, [UnitNext]_allVars
             PROVE  UnitInv'
  OBVIOUS
<1>a. /\ TypeOK /\ RolesMatch /\ SessionHeld /\ (pc # "killed" => DaemonInv)
      /\ unit \in {"up", "stopping", "stopped", "failed"}
      /\ starts \in 0 .. StartLimitBurst
      /\ leaked \subseteq {"greeter", "user"}
      /\ lingering \subseteq {"greeter", "session"}
      /\ scoped \in BOOLEAN /\ away \subseteq Pids
      /\ SurvivorKeepsLogin
  BY DEF UnitInv, UnitTypeOK
\* Steps of the daemon, or of nobody: only systemd's variables may change besides.
<1>b. ASSUME [Next]_vars, unit' \in {"up", "stopping", "stopped", "failed"},
             starts' \in 0 .. StartLimitBurst, leaked' \subseteq {"greeter", "user"},
             lingering' \subseteq {"greeter", "session"}, scoped' \in BOOLEAN,
             away' \subseteq Pids, SurvivorKeepsLogin'
      PROVE  UnitInv'
  BY <1>a, <1>b, LifeStep DEF UnitInv, UnitTypeOK
<1>1. CASE DaemonRuns
  <2>1. scoped' \in BOOLEAN /\ away' \subseteq Pids
    BY <1>1, <1>a DEF DaemonRuns, Runs, Grouped, ForkedAway
  <2>2. SurvivorKeepsLogin'
    BY <1>1, <1>a DEF DaemonRuns, Runs, unitVars, SurvivorKeepsLogin
  <2> QED
    BY <1>1, <1>a, <1>b, <2>1, <2>2 DEF DaemonRuns, Runs, unitVars
<1>2. CASE KillRemaining
  <2>1. \A p \in Pids : proc[p] = "free" <=> proc'[p] = "free"
    BY <1>2, <1>a DEF KillRemaining, Remaining, TypeOK
  <2>2. TypeOK'
    BY <1>2, <1>a DEF KillRemaining, TypeOK, flags, pids, pams, link, Live
  <2>3. RolesMatch' /\ SessionHeld'
    BY <1>2, <1>a, <2>1 DEF KillRemaining, RolesMatch, SessionHeld, pams
  <2>4. pc = "killed" /\ pc' = "killed"
    BY <1>2, <1>a, ExitedAlone DEF KillRemaining, Remaining, Gone
  <2>5. SurvivorKeepsLogin'
    BY <1>2, <1>a DEF KillRemaining, unitVars, SurvivorKeepsLogin
  <2> QED
    BY <1>2, <1>a, <2>2, <2>3, <2>4, <2>5
       DEF KillRemaining, UnitInv, UnitTypeOK, unitVars, groupVars
<1>3. CASE Restart
  <2>1. DaemonInv'
    BY <1>3, <1>a, FreshLife DEF Restart
  <2>2. starts' \in 0 .. StartLimitBurst
    BY <1>3, <1>a, BurstAssumption DEF Restart
  <2>3. scoped' \in BOOLEAN /\ away' \subseteq Pids
    BY <1>3 DEF Restart, Fresh
  <2>4. TypeOK' /\ RolesMatch' /\ SessionHeld'
    BY <2>1, InvHolds, PTL
  <2> QED
    BY <1>3, <1>a, <2>1, <2>2, <2>3, <2>4, Handed DEF Restart, UnitInv, UnitTypeOK
<1>4. CASE GiveUp \/ Stopped
  BY <1>4, <1>a, <1>b, Handed DEF GiveUp, Stopped, groupVars
<1>5. CASE IntervalPasses
  BY <1>5, <1>a, <1>b, BurstAssumption DEF IntervalPasses, groupVars, SurvivorKeepsLogin
<1>6. CASE StopUnit
  BY <1>6, <1>a, <1>b DEF StopUnit, Next, groupVars, SurvivorKeepsLogin
<1>7. CASE Crash \/ StopTimeout
  <2>1. TypeOK' /\ RolesMatch' /\ SessionHeld'
    BY <1>7, <1>a DEF Crash, StopTimeout, Dies, TypeOK, RolesMatch, SessionHeld,
                      Steps, Gone, flags, pids, pams, procs
  <2>2. SurvivorKeepsLogin'
    BY <1>7, <1>a DEF Crash, StopTimeout, Dies, unitVars, SurvivorKeepsLogin
  <2> QED
    BY <1>7, <1>a, <2>1, <2>2
       DEF Crash, StopTimeout, Dies, UnitInv, UnitTypeOK, unitVars, groupVars
<1>8. ASSUME NEW x \in lingering, LingererLeaves(x)
      PROVE  UnitInv'
  BY <1>8, <1>a, <1>b DEF LingererLeaves, groupVars, SurvivorKeepsLogin
<1>9. CASE Rest \/ UNCHANGED allVars
  <2>1. UNCHANGED vars /\ UNCHANGED unitVars /\ UNCHANGED groupVars
    BY <1>9 DEF Rest, allVars
  <2> QED
    BY <1>a, <1>b, <2>1 DEF unitVars, groupVars, SurvivorKeepsLogin
<1> QED
  BY <1>1, <1>2, <1>3, <1>4, <1>5, <1>6, <1>7, <1>8, <1>9 DEF UnitNext

(***************************************************************************)
(* In every life of the daemon its invariant holds, from init() to the     *)
(* step that ends it, with survivors of earlier lives around or not.       *)
(***************************************************************************)
THEOREM UnitInvCorrect == UnitSpec => []UnitInv
BY UnitInvInit, UnitInvStep, PTL DEF UnitSpec

(***************************************************************************)
(* UnitTypeOK: the daemon's types hold across its deaths and restarts.     *)
(***************************************************************************)
THEOREM UnitTypeCorrect == UnitSpec => []UnitTypeOK
BY UnitInvCorrect, PTL DEF UnitInv

(***************************************************************************)
(* A session that the unit's kill did not reach has its PAM session still  *)
(* open.                                                                   *)
(***************************************************************************)
THEOREM SurvivorKeepsLoginCorrect == UnitSpec => []SurvivorKeepsLogin
BY UnitInvCorrect, PTL DEF UnitInv

(***************************************************************************)
(* Whoever returns from run() has closed every PAM session and taken every *)
(* party off the screen: only a daemon that was killed leaves one.         *)
(***************************************************************************)
THEOREM OnlyTheKilledLeakCorrect == UnitSpec => OnlyTheKilledLeak
<1>1. ASSUME UnitInv, [UnitNext]_allVars
      PROVE  [leaked' # leaked \/ ~(lingering' \subseteq lingering)
                => pc = "killed"]_allVars
  <2> SUFFICES ASSUME UnitNext, leaked' # leaked \/ ~(lingering' \subseteq lingering)
               PROVE  pc = "killed"
    BY <1>1 DEF allVars, unitVars
  <2>1. LifeEnds
    BY DEF UnitNext, DaemonRuns, Runs, Crash, Dies, KillRemaining, Restart, GiveUp,
           IntervalPasses, LingererLeaves, StopUnit, StopTimeout, Stopped, Rest,
           unitVars, allVars
  <2>2. ASSUME pc = "exited"
        PROVE  FALSE
    <3>1. DaemonInv /\ away \subseteq Pids
      BY <1>1, <2>2 DEF UnitInv, UnitTypeOK
    <3>2. LeftOpen = {}
      BY <2>2, <3>1 DEF DaemonInv, OtherGrants, LoginGrants, StopSteps, LoginSteps,
                        LeftOpen
    <3>3. Survivors = {}
      BY <2>2, <3>1, ExitedAlone DEF Survivors
    <3> QED
      BY <2>1, <3>2, <3>3 DEF LifeEnds
  <2> QED
    BY <2>1, <2>2 DEF LifeEnds, Gone
<1> QED
  BY <1>1, UnitInvCorrect, PTL DEF UnitSpec, OnlyTheKilledLeak
=============================================================================
