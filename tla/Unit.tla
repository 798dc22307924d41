-------------------------------- MODULE Unit --------------------------------
(***************************************************************************)
(* The daemon under systemd, as src/assets/miqudm.service runs it: a death *)
(* is followed by a new start, two starts within the interval at the most; *)
(* a stop sends SIGTERM to the daemon and, after TimeoutSec, SIGKILL; and  *)
(* what a dead daemon leaves in the unit's control group is killed before  *)
(* the next one starts (KillMode=mixed).  The PAM stack may take the daemon*)
(* out of that group: pam_systemd (miqudm-greeter.pam:13) puts the process *)
(* that opens a session into the session's scope, and the daemon opens     *)
(* them itself (daemon.cpp:152).  Children it forks from then on are not   *)
(* reached by the unit's kill and may outlive it.  systemd and pam_systemd *)
(* are external: their side is modelled from the unit file and PAM files.  *)
(***************************************************************************)
EXTENDS Daemon, Naturals

CONSTANT StartLimitBurst

ASSUME BurstAssumption == StartLimitBurst \in Nat \ {0}

VARIABLES
    unit,       \* what systemd makes of the service
    starts,     \* starts counted against the limit
    leaked,     \* PAM sessions whose daemon died before it closed them
    lingering,  \* parties of an earlier life that are still on the screen
    scoped,     \* this daemon was moved out of the unit's control group
    away        \* its children that were forked after that

unitVars == <<unit, starts, leaked, lingering>>
groupVars == <<scoped, away>>
allVars == <<vars, unitVars, groupVars>>

UnitTypeOK ==
    /\ TypeOK
    /\ unit \in {"up", "stopping", "stopped", "failed"}
    /\ starts \in 0 .. StartLimitBurst
    /\ leaked \subseteq {"greeter", "user"}
    /\ lingering \subseteq {"greeter", "session"}
    /\ scoped \in BOOLEAN
    /\ away \subseteq Pids

UnitInit ==
    /\ Init
    /\ unit = "up"
    /\ starts = 1
    /\ leaked = {}
    /\ lingering = {}
    /\ scoped = FALSE
    /\ away = {}

\* What the daemon's PAM objects hold open when it is gone.
LeftOpen ==
    (IF "session" \in m_greeter_pam THEN {"greeter"} ELSE {})
        \cup (IF "session" \in pam \cup m_active_pam THEN {"user"} ELSE {})

\* A session is opened, for the greeter or for a login.
OpensSession ==
    "session" \in (m_greeter_pam' \ m_greeter_pam) \cup (pam' \ pam)

\* A process is forked into the control group its parent is in.
ForkedAway == {p \in Pids : scoped /\ proc[p] = "free" /\ proc'[p] = "running"}

\* pam_systemd is optional, and does nothing for a process it moved before.
Grouped ==
    /\ scoped' \in {scoped} \cup (IF OpensSession THEN {TRUE} ELSE {})
    /\ away' = {p \in away : proc'[p] # "free"} \cup ForkedAway

\* The daemon, its children and its client go on as they do without systemd.
Runs ==
    /\ unit \in {"up", "stopping"}
    /\ Grouped
    /\ UNCHANGED unitVars

DaemonRuns == Next /\ Runs

\* The daemon dies where it stands; the kernel closes its end of the socket.
Dies ==
    /\ pc \notin Gone
    /\ pc' = "killed"
    /\ conn' = "none"
    /\ inbox' = "none"
    /\ UNCHANGED <<ret, flags, listening, pids, pams, procs, reply, unitVars,
                   groupVars>>

\* A fault of its own or of a PAM module, an exception, want of memory.
Crash == unit = "up" /\ Dies

-----------------------------------------------------------------------------
\* What is left in the control group; what was sent SIGKILL has the time to
\* die before systemd goes on (RestartSec).
Remaining ==
    {p \in Pids : proc[p] = "doomed" \/ (proc[p] = "running" /\ p \notin away)}

\* What the unit's kill does not reach.
Survivors == {p \in away : proc[p] = "running"}

\* KillMode=mixed: when the main process is gone the others get SIGKILL.
KillRemaining ==
    /\ unit \in {"up", "stopping"}
    /\ pc \in Gone
    /\ \E p \in Remaining : proc[p] = "running"
    /\ proc' = [p \in Pids |-> IF p \in Remaining THEN "doomed" ELSE proc[p]]
    /\ UNCHANGED <<pc, ret, flags, listening, pids, pams, role, link, unitVars,
                   groupVars>>

\* The control group is empty: this life of the daemon is over.
LifeEnds ==
    /\ pc \in Gone
    /\ Remaining = {}
    /\ leaked' = leaked \cup LeftOpen
    /\ lingering' = lingering \cup {role[p] : p \in Survivors}

\* The next one knows nothing of the last, nor of its survivors.
Fresh ==
    /\ pc' = "init"
    /\ ret' = "loop"
    /\ m_running' = FALSE
    /\ signalled' = FALSE
    /\ listening' = FALSE
    /\ m_greeter_pid' = NoPid
    /\ m_session_pid' = NoPid
    /\ m_greeter_pam' = {}
    /\ pam' = {}
    /\ m_active_pam' = {}
    /\ conn' = "none"
    /\ inbox' = "none"
    /\ reply' = "none"
    /\ Reap(Pids)
    /\ scoped' = FALSE
    /\ away' = {}

\* Seeded fault: Restart=on-failure.
Restart_OnFailure ==
    /\ unit = "up"
    /\ pc = "killed"
    /\ LifeEnds
    /\ starts < StartLimitBurst
    /\ starts' = starts + 1
    /\ Fresh
    /\ UNCHANGED unit

\* Seeded fault: no limit on the starts.
Restart_Uncounted ==
    /\ unit = "up"
    /\ LifeEnds
    /\ starts' = starts + 1
    /\ Fresh
    /\ UNCHANGED unit

(***************************************************************************)
(* Restart=always, whatever the daemon died of.  The socket it left at its *)
(* path is unlinked by the next setup_ipc_socket().                        *)
(***************************************************************************)
Restart ==
    /\ unit = "up"
    /\ LifeEnds
    /\ starts < StartLimitBurst
    /\ starts' = starts + 1
    /\ Fresh
    /\ UNCHANGED unit

\* StartLimitBurst starts within StartLimitIntervalSec: the unit has failed.
GiveUp ==
    /\ unit = "up"
    /\ LifeEnds
    /\ starts = StartLimitBurst
    /\ unit' = "failed"
    /\ UNCHANGED <<vars, groupVars, starts>>

\* The interval passes; a daemon that fails in init() is restarted too soon
\* for that, and so is one that dies before it has put anything on the screen.
IntervalPasses ==
    /\ unit = "up"
    /\ m_running /\ Screen # {}
    /\ starts' = 0
    /\ UNCHANGED <<vars, groupVars, unit, leaked, lingering>>

\* A survivor leaves the screen when it likes.
LingererLeaves(x) ==
    /\ x \in lingering
    /\ lingering' = lingering \ {x}
    /\ UNCHANGED <<vars, groupVars, unit, starts, leaked>>

-----------------------------------------------------------------------------
\* A stop of the unit: SIGTERM to the main process, blocked or not.
StopUnit ==
    /\ unit = "up"
    /\ unit' = "stopping"
    /\ \/ Signals
       \/ pc \in Gone /\ UNCHANGED vars
    /\ UNCHANGED <<starts, leaked, lingering, groupVars>>

\* Seeded fault: a stop that leaves a daemon with a session alone.
StopTimeout_SparesSession ==
    /\ unit = "stopping"
    /\ pc # "wait"
    /\ Dies

\* TimeoutSec has passed and the daemon is still there: SIGKILL, wherever it
\* has been moved to.
StopTimeout == unit = "stopping" /\ Dies

Stopped ==
    /\ unit = "stopping"
    /\ LifeEnds
    /\ unit' = "stopped"
    /\ UNCHANGED <<vars, groupVars, starts>>

Rest ==
    /\ unit \in {"stopped", "failed"}
    /\ UNCHANGED allVars

UnitNext ==
    \/ DaemonRuns
    \/ Crash
    \/ KillRemaining
    \/ Restart
    \/ GiveUp
    \/ IntervalPasses
    \/ \E x \in lingering : LingererLeaves(x)
    \/ StopUnit
    \/ StopTimeout
    \/ Stopped
    \/ Rest

UnitSpec == UnitInit /\ [][UnitNext]_allVars

(***************************************************************************)
(* Fairness: that of the daemon in each of its lives, and systemd does     *)
(* what it has to.  Nobody has to stop the unit, and no survivor to leave. *)
(***************************************************************************)
UnitLiveSpec ==
    /\ UnitSpec
    /\ WF_allVars(Thread /\ Runs)
    /\ WF_allVars(SilentPeer /\ Runs)
    /\ \A p \in Pids : WF_allVars(KilledExits(p) /\ Runs)
    /\ WF_allVars(KillRemaining)
    /\ WF_allVars(Restart)
    /\ WF_allVars(GiveUp)
    /\ WF_allVars(StopTimeout)
    /\ WF_allVars(Stopped)

-----------------------------------------------------------------------------
(***************************************************************************)
(* Only a daemon that was killed (a crash, or SIGKILL after TimeoutSec)    *)
(* leaves a PAM session open or a party on the screen for the next life;   *)
(* one that returns from run(), whatever it was told and whatever failed,  *)
(* leaves neither, although the unit's kill may not reach its children.    *)
(***************************************************************************)
OnlyTheKilledLeak ==
    [][leaked' # leaked \/ ~(lingering' \subseteq lingering) => pc = "killed"]_allVars

(***************************************************************************)
(* A session that outlives its daemon is one PAM granted, and its login    *)
(* was not closed under it: the PAM session its daemon had opened for it   *)
(* is still open.                                                          *)
(***************************************************************************)
SurvivorKeepsLogin == "session" \in lingering => "user" \in leaked

(***************************************************************************)
(* A unit that is up serves: an empty seat gets a greeter or a session,    *)
(* across deaths of the daemon, until it is stopped or the limit is hit.   *)
(***************************************************************************)
SeatServed ==
    unit = "up" /\ Screen = {} ~> Screen # {} \/ unit # "up"

(***************************************************************************)
(* A stop completes although a session keeps the daemon in wait_for_exit() *)
(* (it is systemd that then ends the daemon).                              *)
(***************************************************************************)
StopCompletes == unit = "stopping" ~> unit = "stopped"
=============================================================================
