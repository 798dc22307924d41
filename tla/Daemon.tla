------------------------------- MODULE Daemon -------------------------------
(***************************************************************************)
(* The miqudm daemon (src/src/daemon/daemon.cpp with main.cpp and the      *)
(* SessionLauncher of session.cpp): one thread that runs the greeter,      *)
(* answers one IPC client at a time and, for a successful login, hands the *)
(* seat to the user's session and waits for its end.  Around it, signals   *)
(* arrive between any two steps, children exit when they like, and the     *)
(* client sends its request or gives up.                                   *)
(*                                                                         *)
(* pc names the call the thread is about to make, ret where it returns to  *)
(* from start_greeter or stop_greeter.                                     *)
(***************************************************************************)
EXTENDS PamTypes

CONSTANTS
    Pids,               \* process ids the kernel may hand out
    NoPid,              \* -1
    SyscallsMayFail,    \* fork and poll may fail
    SigpipeMayKill,     \* SIGPIPE may have its default disposition
    GreeterCommand      \* the configuration names a greeter command

ASSUME NoPidAssumption == NoPid \notin Pids
ASSUME OptionsAssumption ==
    /\ SyscallsMayFail \in BOOLEAN
    /\ SigpipeMayKill \in BOOLEAN
    /\ GreeterCommand \in BOOLEAN

VARIABLES
    pc, ret,            \* control of the daemon's thread
    m_running,          \* std::atomic<bool>
    signalled,          \* history: SIGINT or SIGTERM was caught
    listening,          \* the IPC socket is bound at its path
    m_greeter_pid,
    m_session_pid,      \* SessionLauncher::m_session_pid
    m_greeter_pam,      \* grants of m_greeter_pam; {} is a null pointer
    pam,                \* grants of handle_login_request's own pam
    m_active_pam,       \* grants of m_active_pam
    proc,               \* kernel: pid -> state of that process
    role,               \* pid -> what was forked under it
    conn,               \* the accepted client: its end of the socket
    inbox,              \* the request it sent, read or not
    reply               \* what the daemon answered it

flags == <<m_running, signalled>>
pids == <<m_greeter_pid, m_session_pid>>
pams == <<m_greeter_pam, pam, m_active_pam>>
procs == <<proc, role>>
link == <<conn, inbox, reply>>
vars == <<pc, ret, m_running, signalled, listening, m_greeter_pid,
          m_session_pid, m_greeter_pam, pam, m_active_pam, proc, role,
          conn, inbox, reply>>

\* Login, or one of the requests that are answered on the spot (Ping,
\* GetUsers, GetSessions, PowerAction, unknown).
Requests == {"login", "other"}

LoginSteps == {"login_start", "login_auth", "login_acct", "login_cred",
               "login_open", "login_reply"}
StartSteps == {"greeter_start", "greeter_cred", "greeter_open", "greeter_fork"}
StopSteps == {"stop", "stop_wait", "stop_reap", "stop_pam"}
Gone == {"exited", "killed"}
Steps == {"init", "enter", "loop", "poll", "read", "serve", "close", "check",
          "launch", "wait", "logout", "terminate"}
            \cup LoginSteps \cup StartSteps \cup StopSteps \cup Gone

Live == {"running", "doomed"}

(***************************************************************************)
(* One type invariant.  A pid is "doomed" once it was sent SIGKILL, and a  *)
(* "zombie" from its exit until the daemon waits for it.                   *)
(***************************************************************************)
TypeOK ==
    /\ pc \in Steps
    /\ ret \in {"loop", "close", "launch", "terminate"}
    /\ m_running \in BOOLEAN
    /\ signalled \in BOOLEAN
    /\ listening \in BOOLEAN
    /\ m_greeter_pid \in Pids \cup {NoPid}
    /\ m_session_pid \in Pids \cup {NoPid}
    /\ m_greeter_pam \subseteq Grants
    /\ pam \subseteq Grants
    /\ m_active_pam \subseteq Grants
    /\ proc \in [Pids -> {"free", "zombie"} \cup Live]
    /\ role \in [Pids -> {"none", "greeter", "session"}]
    /\ conn \in {"none", "open", "closed"}
    /\ inbox \in Requests \cup {"none"}
    /\ reply \in {"none", "ok", "error"}

Init ==
    /\ pc = "init"
    /\ ret = "loop"
    /\ m_running = FALSE
    /\ signalled = FALSE
    /\ listening = FALSE
    /\ m_greeter_pid = NoPid
    /\ m_session_pid = NoPid
    /\ m_greeter_pam = {}
    /\ pam = {}
    /\ m_active_pam = {}
    /\ proc = [p \in Pids |-> "free"]
    /\ role = [p \in Pids |-> "none"]
    /\ conn = "none"
    /\ inbox = "none"
    /\ reply = "none"

-----------------------------------------------------------------------------
\* Control moves from one call to the next.
Goto(from, to) == pc = from /\ pc' = to

\* The kernel's table after some children were waited for and one forked.
Children(reaped, forked, kind) ==
    /\ proc' = [p \in Pids |-> IF p \in forked THEN "running"
                               ELSE IF p \in reaped THEN "free" ELSE proc[p]]
    /\ role' = [p \in Pids |-> IF p \in forked THEN kind
                               ELSE IF p \in reaped THEN "none" ELSE role[p]]

\* fork(): some free pid becomes a running child of that kind.
Fork(kind, p) == proc[p] = "free" /\ Children({}, {p}, kind)

\* waitpid() returned for these.
Reap(S) == Children(S, {}, "none")

(***************************************************************************)
(* write() of an answer, whose result nobody looks at.  The unit leaves    *)
(* SIGPIPE ignored, as systemd does unless told otherwise: an answer to a  *)
(* client that has closed its end is lost, and the handler goes on.  Where *)
(* the signal has its default disposition (a daemon started by hand) it    *)
(* kills the daemon where it stands.                                       *)
(***************************************************************************)
Answer(answer, next) ==
    \/ /\ pc' = next
       /\ reply' = answer
       /\ UNCHANGED <<conn, inbox>>
    \/ /\ SigpipeMayKill /\ conn = "closed"
       /\ pc' = "killed"
       /\ conn' = "none"
       /\ inbox' = "none"
       /\ UNCHANGED reply

-----------------------------------------------------------------------------
\* init(): only the socket can make it fail; main then returns 1.
InitDaemon ==
    /\ pc = "init"
    /\ \/ pc' = "enter" /\ listening' = TRUE
       \/ pc' = "exited" /\ UNCHANGED listening
    /\ UNCHANGED <<ret, flags, pids, pams, procs, link>>

\* run() begins by setting m_running, whatever a signal did to it before.
EnterRun ==
    /\ Goto("enter", "greeter_start")
    /\ m_running' = TRUE
    /\ ret' = "loop"
    /\ UNCHANGED <<signalled, listening, pids, pams, procs, link>>

\* Seeded fault: run() that returns without its teardown.
LoopTest_Returns ==
    /\ pc = "loop"
    /\ pc' = IF m_running THEN "poll" ELSE "exited"
    /\ UNCHANGED <<ret, flags, listening, pids, pams, procs, link>>

\* Seeded fault: a loop that does not look at m_running.
LoopTest_Forever ==
    /\ Goto("loop", "poll")
    /\ UNCHANGED <<ret, flags, listening, pids, pams, procs, link>>

LoopTest ==
    /\ pc = "loop"
    /\ IF m_running
       THEN pc' = "poll" /\ UNCHANGED ret
       ELSE pc' = "stop" /\ ret' = "terminate"
    /\ UNCHANGED <<flags, listening, pids, pams, procs, link>>

\* poll() timed out, or accept() found nobody after all.
PollIdle ==
    /\ Goto("poll", "check")
    /\ UNCHANGED <<ret, flags, listening, pids, pams, procs, link>>

PollFails ==
    /\ SyscallsMayFail
    /\ Goto("poll", "stop")
    /\ ret' = "terminate"
    /\ UNCHANGED <<flags, listening, pids, pams, procs, link>>

\* The next client of the backlog: it may have sent its request, or left.
Accept ==
    /\ Goto("poll", "read")
    /\ conn' \in {"open", "closed"}
    /\ inbox' \in Requests \cup {"none"}
    /\ reply' = "none"
    /\ UNCHANGED <<ret, flags, listening, pids, pams, procs>>

\* handle_client_connection(): a request is served, end of file is not; an
\* open client that has sent nothing keeps the daemon in read().
Read ==
    /\ pc = "read"
    /\ \/ inbox # "none" /\ pc' = "serve"
       \/ inbox = "none" /\ conn = "closed" /\ pc' = "close"
    /\ UNCHANGED <<ret, flags, listening, pids, pams, procs, link>>

Serve ==
    /\ pc = "serve"
    /\ IF inbox = "login"
       THEN pc' = "login_start" /\ UNCHANGED link
       ELSE \E answer \in {"ok", "error"} : Answer(answer, "close")
    /\ UNCHANGED <<ret, flags, listening, pids, pams, procs>>

Close ==
    /\ Goto("close", "check")
    /\ conn' = "none"
    /\ inbox' = "none"
    /\ UNCHANGED <<ret, flags, listening, pids, pams, procs, reply>>

-----------------------------------------------------------------------------
(***************************************************************************)
(* The check for a greeter that died (daemon.cpp:316) asks the launcher    *)
(* first, and is_running() reaps an exited session as it looks.            *)
(***************************************************************************)
IsRunning == m_session_pid # NoPid /\ proc[m_session_pid] \in Live

ExitedSession == {p \in Pids : p = m_session_pid /\ proc[p] = "zombie"}

ExitedGreeter == {p \in Pids : p = m_greeter_pid /\ proc[p] = "zombie"}

GreeterDied == ExitedGreeter # {} /\ ~IsRunning

\* Seeded fault: a dead greeter reaped and not restarted.
Check_LosesGreeter ==
    /\ pc = "check"
    /\ pc' = "loop"
    /\ IF GreeterDied
       THEN m_greeter_pid' = NoPid /\ Reap(ExitedGreeter)
       ELSE UNCHANGED <<m_greeter_pid, procs>>
    /\ UNCHANGED <<ret, flags, listening, m_session_pid, pams, link>>

Check ==
    /\ pc = "check"
    /\ IF GreeterDied
       THEN /\ pc' = "greeter_start"
            /\ ret' = "loop"
            /\ m_greeter_pid' = NoPid
            /\ Reap(ExitedGreeter \cup ExitedSession)
       ELSE /\ pc' = "loop"
            /\ UNCHANGED <<ret, m_greeter_pid>>
            /\ Reap(IF m_greeter_pid # NoPid THEN ExitedSession ELSE {})
    /\ UNCHANGED <<flags, listening, m_session_pid, pams, link>>

-----------------------------------------------------------------------------
\* start_greeter(): nothing to do, or a new PamAuth (the old one, if any, is
\* ended by its destructor) whose start may fail.
GreeterStart ==
    /\ pc = "greeter_start"
    /\ IF m_greeter_pid # NoPid \/ ~GreeterCommand
       THEN pc' = ret /\ UNCHANGED m_greeter_pam
       ELSE \/ pc' = "greeter_cred" /\ m_greeter_pam' = {"handle"}
            \/ pc' = "greeter_fork" /\ m_greeter_pam' = {}
    /\ UNCHANGED <<ret, flags, listening, pids, pam, m_active_pam, procs, link>>

\* The results of the greeter's PAM calls are ignored.
GreeterPam(from, x, to) ==
    /\ Goto(from, to)
    /\ m_greeter_pam' \in {m_greeter_pam, m_greeter_pam \cup {x}}
    /\ UNCHANGED <<ret, flags, listening, pids, pam, m_active_pam, procs, link>>

GreeterCredentials == GreeterPam("greeter_cred", "cred", "greeter_open")

GreeterOpenSession == GreeterPam("greeter_open", "session", "greeter_fork")

GreeterFork(p) ==
    /\ Goto("greeter_fork", ret)
    /\ Fork("greeter", p)
    /\ m_greeter_pid' = p
    /\ UNCHANGED <<ret, flags, listening, m_session_pid, pams, link>>

GreeterForkFails ==
    /\ SyscallsMayFail
    /\ Goto("greeter_fork", ret)
    /\ UNCHANGED <<ret, flags, listening, pids, pams, procs, link>>

-----------------------------------------------------------------------------
\* Seeded fault: stop_greeter() that waits for nobody.
Stop_SkipsWait ==
    /\ pc = "stop"
    /\ pc' = "stop_pam"
    /\ UNCHANGED <<ret, flags, listening, pids, pams, procs, link>>

\* Seeded fault: stop_greeter() that closes PAM before it waits.
Stop_ClosesPamFirst ==
    /\ pc = "stop"
    /\ pc' = IF m_greeter_pid # NoPid THEN "stop_wait" ELSE "stop_pam"
    /\ m_greeter_pam' = {}
    /\ UNCHANGED <<ret, flags, listening, pids, pam, m_active_pam, procs, link>>

(***************************************************************************)
(* stop_greeter(): SIGTERM, twenty polls of waitpid, then SIGKILL and a    *)
(* blocking waitpid.  The greeter may exit on SIGTERM or take no notice.   *)
(***************************************************************************)
Stop ==
    /\ pc = "stop"
    /\ pc' = IF m_greeter_pid # NoPid THEN "stop_wait" ELSE "stop_pam"
    /\ UNCHANGED <<ret, flags, listening, pids, pams, procs, link>>

\* One of the twenty polls finds that the greeter has exited.
StopPolled ==
    /\ Goto("stop_wait", "stop_pam")
    /\ proc[m_greeter_pid] = "zombie"
    /\ Reap({m_greeter_pid})
    /\ m_greeter_pid' = NoPid
    /\ UNCHANGED <<ret, flags, listening, m_session_pid, pams, link>>

\* Seeded fault: a greeter given up without SIGKILL.
StopKill_Forgets ==
    /\ Goto("stop_wait", "stop_pam")
    /\ proc[m_greeter_pid] \in Live
    /\ m_greeter_pid' = NoPid
    /\ UNCHANGED <<ret, flags, listening, m_session_pid, pams, procs, link>>

\* Seeded fault: a wait for SIGTERM without end.
StopKill_Retries ==
    /\ Goto("stop_wait", "stop_wait")
    /\ proc[m_greeter_pid] \in Live
    /\ UNCHANGED <<ret, flags, listening, pids, pams, procs, link>>

\* The last poll finds it alive.
StopKill ==
    /\ Goto("stop_wait", "stop_reap")
    /\ proc[m_greeter_pid] \in Live
    /\ proc' = [proc EXCEPT ![m_greeter_pid] = "doomed"]
    /\ UNCHANGED <<ret, flags, listening, pids, pams, role, link>>

StopReap ==
    /\ Goto("stop_reap", "stop_pam")
    /\ proc[m_greeter_pid] = "zombie"
    /\ Reap({m_greeter_pid})
    /\ m_greeter_pid' = NoPid
    /\ UNCHANGED <<ret, flags, listening, m_session_pid, pams, link>>

StopPam ==
    /\ Goto("stop_pam", ret)
    /\ m_greeter_pam' = {}
    /\ UNCHANGED <<ret, flags, listening, pids, pam, m_active_pam, procs, link>>

-----------------------------------------------------------------------------
\* Seeded fault: an error return that answers nobody.
Deny_Silent ==
    /\ pc' = "close"
    /\ pam' = {}
    /\ UNCHANGED link

(***************************************************************************)
(* handle_login_request().  A PAM call that fails is answered and the      *)
(* local PamAuth is ended by its destructor (not when the answer kills).   *)
(***************************************************************************)
Deny ==
    /\ Answer("error", "close")
    /\ pam' = IF pc' = "killed" THEN pam ELSE {}

\* Seeded fault: an error return without its return.
LoginCall_NoReturn(from, x, to) ==
    /\ pc = from
    /\ \/ /\ pc' = to
          /\ pam' = pam \cup {x}
          /\ UNCHANGED link
       \/ /\ Answer("error", to)
          /\ UNCHANGED pam
    /\ UNCHANGED <<ret, flags, listening, pids, m_greeter_pam, m_active_pam, procs>>

LoginCall(from, x, to) ==
    /\ pc = from
    /\ \/ /\ pc' = to
          /\ pam' = pam \cup {x}
          /\ UNCHANGED link
       \/ Deny
    /\ UNCHANGED <<ret, flags, listening, pids, m_greeter_pam, m_active_pam, procs>>

LoginStart == LoginCall("login_start", "handle", "login_auth")

LoginAuthenticate == LoginCall("login_auth", "auth", "login_acct")

LoginAccount == LoginCall("login_acct", "acct", "login_cred")

\* Seeded fault: establish_credentials() unchecked, as in start_greeter().
LoginCredentials_IgnoresFailure ==
    /\ Goto("login_cred", "login_open")
    /\ pam' \in {pam, pam \cup {"cred"}}
    /\ UNCHANGED <<ret, flags, listening, pids, m_greeter_pam, m_active_pam, procs, link>>

LoginCredentials == LoginCall("login_cred", "cred", "login_open")

\* Seeded fault: a login that opens no PAM session.
LoginOpenSession_Skipped ==
    /\ Goto("login_open", "login_reply")
    /\ UNCHANGED <<ret, flags, listening, pids, pams, procs, link>>

LoginOpenSession == LoginCall("login_open", "session", "login_reply")

\* Success is answered before the greeter is stopped, heard or not.
LoginReply ==
    /\ pc = "login_reply"
    /\ Answer("ok", "stop")
    /\ ret' = IF pc' = "killed" THEN ret ELSE "launch"
    /\ UNCHANGED <<flags, listening, pids, pams, procs>>

-----------------------------------------------------------------------------
\* Seeded fault: a PAM object shared instead of moved.
Launch_CopiesPam(p) ==
    /\ Goto("launch", "wait")
    /\ ~IsRunning
    /\ m_active_pam' = pam
    /\ Fork("session", p)
    /\ m_session_pid' = p
    /\ UNCHANGED <<ret, flags, listening, m_greeter_pid, m_greeter_pam, pam, link>>

\* The PAM object moves to m_active_pam, then SessionLauncher::launch().
Launch(p) ==
    /\ Goto("launch", "wait")
    /\ ~IsRunning
    /\ m_active_pam' = pam
    /\ pam' = {}
    /\ proc[p] = "free"
    /\ Children(ExitedSession, {p}, "session")
    /\ m_session_pid' = p
    /\ UNCHANGED <<ret, flags, listening, m_greeter_pid, m_greeter_pam, link>>

LaunchFails ==
    /\ SyscallsMayFail \/ IsRunning
    /\ Goto("launch", "logout")
    /\ m_active_pam' = pam
    /\ pam' = {}
    /\ Reap(ExitedSession)
    /\ UNCHANGED <<ret, flags, listening, pids, m_greeter_pam, link>>

\* Seeded fault: the status stored over the pid.
WaitForExit_KeepsStatus ==
    /\ Goto("wait", "logout")
    /\ proc[m_session_pid] = "zombie"
    /\ Reap({m_session_pid})
    /\ m_session_pid' = "status"
    /\ UNCHANGED <<ret, flags, listening, m_greeter_pid, pams, link>>

\* Seeded fault: the pid kept after its process was waited for.
WaitForExit_KeepsPid ==
    /\ Goto("wait", "logout")
    /\ proc[m_session_pid] = "zombie"
    /\ Reap({m_session_pid})
    /\ UNCHANGED <<ret, flags, listening, pids, pams, link>>

\* wait_for_exit() goes back to waitpid() after a signal.
WaitForExit ==
    /\ Goto("wait", "logout")
    /\ proc[m_session_pid] = "zombie"
    /\ Reap({m_session_pid})
    /\ m_session_pid' = NoPid
    /\ UNCHANGED <<ret, flags, listening, m_greeter_pid, pams, link>>

\* The session's PAM is closed; the greeter comes back unless stopping.
Logout ==
    /\ pc = "logout"
    /\ m_active_pam' = {}
    /\ IF m_running
       THEN pc' = "greeter_start" /\ ret' = "close"
       ELSE pc' = "close" /\ UNCHANGED ret
    /\ UNCHANGED <<flags, listening, pids, m_greeter_pam, pam, procs, link>>

\* terminate(), cleanup_ipc_socket(), and the destructors at main's return.
Terminate ==
    /\ Goto("terminate", "exited")
    /\ Reap({m_session_pid})
    /\ m_session_pid' = NoPid
    /\ listening' = FALSE
    /\ m_greeter_pam' = {}
    /\ pam' = {}
    /\ m_active_pam' = {}
    /\ UNCHANGED <<ret, flags, m_greeter_pid, link>>

-----------------------------------------------------------------------------
\* SIGINT or SIGTERM: the handler calls stop() between any two steps.
Caught ==
    /\ m_running' = FALSE
    /\ signalled' = TRUE

Signal ==
    /\ pc \notin Gone
    /\ Caught
    /\ UNCHANGED <<pc, ret, listening, pids, pams, procs, link>>

\* The handler is installed without SA_RESTART: a blocked poll() fails with
\* EINTR and the loop goes round, ...
SignalInPoll ==
    /\ Goto("poll", "loop")
    /\ Caught
    /\ UNCHANGED <<ret, listening, pids, pams, procs, link>>

\* ... a blocked read() fails and the client is given up, ...
SignalInRead ==
    /\ Goto("read", "close")
    /\ inbox = "none" /\ conn = "open"
    /\ Caught
    /\ UNCHANGED <<ret, listening, pids, pams, procs, link>>

\* ... and stop_greeter's last waitpid() returns with the greeter unreaped.
SignalInReap ==
    /\ Goto("stop_reap", "stop_pam")
    /\ proc[m_greeter_pid] \in Live
    /\ m_greeter_pid' = NoPid
    /\ Caught
    /\ UNCHANGED <<ret, listening, m_session_pid, pams, procs, link>>

-----------------------------------------------------------------------------
\* A child exits; once the daemon is gone it is reaped by the system.
Exits(p) ==
    IF pc \in Gone
    THEN Reap({p})
    ELSE proc' = [proc EXCEPT ![p] = "zombie"] /\ UNCHANGED role

ProcExits(p) ==
    /\ proc[p] = "running"
    /\ Exits(p)
    /\ UNCHANGED <<pc, ret, flags, listening, pids, pams, link>>

KilledExits(p) ==
    /\ proc[p] = "doomed"
    /\ Exits(p)
    /\ UNCHANGED <<pc, ret, flags, listening, pids, pams, link>>

\* The client sends its one request, or closes: done, timed out or dead.
PeerSends ==
    /\ conn = "open" /\ inbox = "none"
    /\ inbox' \in Requests
    /\ UNCHANGED <<pc, ret, flags, listening, pids, pams, procs, conn, reply>>

PeerCloses ==
    /\ conn = "open"
    /\ conn' = "closed"
    /\ UNCHANGED <<pc, ret, flags, listening, pids, pams, procs, inbox, reply>>

\* The daemon has ended; nothing restarts it in this module.
Ended ==
    /\ pc \in Gone
    /\ UNCHANGED vars

-----------------------------------------------------------------------------
Thread ==
    \/ InitDaemon
    \/ EnterRun
    \/ LoopTest
    \/ PollIdle
    \/ PollFails
    \/ Accept
    \/ Read
    \/ Serve
    \/ Close
    \/ Check
    \/ GreeterStart
    \/ GreeterCredentials
    \/ GreeterOpenSession
    \/ \E p \in Pids : GreeterFork(p)
    \/ GreeterForkFails
    \/ Stop
    \/ StopPolled
    \/ StopKill
    \/ StopReap
    \/ StopPam
    \/ LoginStart
    \/ LoginAuthenticate
    \/ LoginAccount
    \/ LoginCredentials
    \/ LoginOpenSession
    \/ LoginReply
    \/ \E p \in Pids : Launch(p)
    \/ LaunchFails
    \/ WaitForExit
    \/ Logout
    \/ Terminate

Signals ==
    \/ Signal
    \/ SignalInPoll
    \/ SignalInRead
    \/ SignalInReap

Peer == PeerSends \/ PeerCloses

Next ==
    \/ Thread
    \/ Signals
    \/ Peer
    \/ \E p \in Pids : ProcExits(p) \/ KilledExits(p)
    \/ Ended

Spec == Init /\ [][Next]_vars

(***************************************************************************)
(* Fairness.  The thread is scheduled whenever it is not blocked; a client *)
(* that has sent nothing sends or closes in the end, as ipc_client.cpp     *)
(* does; and a process sent SIGKILL dies.  Nothing is promised of the      *)
(* greeter, the session or the user, nor of a client that was read: it may *)
(* wait for its answer for ever.                                           *)
(***************************************************************************)
SilentPeer == inbox = "none" /\ Peer

LiveSpec ==
    /\ Spec
    /\ WF_vars(Thread)
    /\ WF_vars(SilentPeer)
    /\ \A p \in Pids : WF_vars(KilledExits(p))

-----------------------------------------------------------------------------
Alive(kind) == {p \in Pids : role[p] = kind /\ proc[p] \in Live}

(***************************************************************************)
(* The session is only given a screen the greeter has left (stop_greeter   *)
(* before launch, start_greeter after the wait): both are up together only *)
(* when a signal cut short the wait for a greeter already killed.          *)
(***************************************************************************)
SeatExclusive ==
    Alive("session") # {} =>
        \A p \in Alive("greeter") : proc[p] = "doomed" /\ ~m_running

(***************************************************************************)
(* No child is forgotten: whatever was forked and not reaped is known by   *)
(* m_greeter_pid or m_session_pid, so it can be waited for and killed.     *)
(* The exception is a greeter already sent SIGKILL during a shutdown.      *)
(***************************************************************************)
ChildrenTracked ==
    \A p \in Pids :
        proc[p] # "free" /\ p \notin {m_greeter_pid, m_session_pid} =>
            role[p] = "greeter" /\ proc[p] # "running" /\ ~m_running

(***************************************************************************)
(* A pid the daemon keeps is that of its own child, not yet waited for: so *)
(* stop_greeter() and terminate() never signal a process that was given    *)
(* the pid since: every wait clears the pid it was for.                    *)
(***************************************************************************)
PidsAreChildren ==
    pc \notin Gone =>
        /\ m_greeter_pid # NoPid => role[m_greeter_pid] = "greeter"
        /\ m_session_pid # NoPid => role[m_session_pid] = "session"

(***************************************************************************)
(* A session process exists only for a login that PAM granted in full,     *)
(* whose success was written to its client (which may have left), with its *)
(* PAM session still open, and after the greeter's own was closed.         *)
(***************************************************************************)
SessionIsAdmitted ==
    \A p \in Pids :
        role[p] = "session" =>
            m_active_pam = Admitted /\ m_greeter_pam = {} /\ reply = "ok"

(***************************************************************************)
(* When main returns nothing is left behind: no PAM transaction, no        *)
(* socket, no session, no greeter that was not sent SIGKILL.               *)
(***************************************************************************)
CleanExit ==
    pc = "exited" =>
        /\ m_greeter_pam = {} /\ pam = {} /\ m_active_pam = {}
        /\ ~listening
        /\ \A p \in Pids : role[p] # "session" /\ proc[p] # "running"

(***************************************************************************)
(* The greeter's PAM session is never closed or replaced under a running   *)
(* greeter: logind would take its seat away while it draws.                *)
(***************************************************************************)
PamStaysWithGreeter ==
    \/ m_greeter_pam \subseteq m_greeter_pam'
    \/ \A p \in Pids : role[p] = "greeter" => proc[p] # "running"

GreeterPamOutlivesGreeter == [][PamStaysWithGreeter]_vars

(***************************************************************************)
(* The three unique_ptr<PamAuth> follow the promise of the PAM part: grants*)
(* on live handles only, and a handle owned by one of them at a time.      *)
(***************************************************************************)
PamSlots == {"greeter", "login", "active"}

Granted == [s \in PamSlots |-> CASE s = "greeter" -> m_greeter_pam
                                 [] s = "login" -> pam
                                 [] s = "active" -> m_active_pam]

Pam == INSTANCE PamGrants WITH Slots <- PamSlots, granted <- Granted

PamProtocol == Pam!Spec

(***************************************************************************)
(* The daemon implements the abstract seat: who is on the screen are the   *)
(* living children, a user is admitted from the answer "ok" to the end of  *)
(* the PAM session, and it serves while it runs.                           *)
(***************************************************************************)
Screen ==
    (IF Alive("greeter") # {} THEN {"greeter"} ELSE {})
        \cup (IF Alive("session") # {} THEN {"user"} ELSE {})

UserAdmitted == reply = "ok" /\ Admitted \in {pam, m_active_pam}

Serving == m_running /\ pc \notin Gone

SeatOf == INSTANCE Seat WITH
            screen <- Screen, admitted <- UserAdmitted, serving <- Serving

SeatRefinement == SeatOf!Spec

(***************************************************************************)
(* Whatever its clients do, the daemon keeps the protocol of a connection: *)
(* one request, and one answer at most, to a request that came.            *)
(***************************************************************************)
LinkOf == INSTANCE Link

LinkRefinement == LinkOf!Spec

-----------------------------------------------------------------------------
(***************************************************************************)
(* While the daemon runs, a seat without a greeter gets one, or a session  *)
(* (first start, death of the greeter, logout).                            *)
(***************************************************************************)
GreeterComesBack ==
    m_running /\ Alive("greeter") = {} ~>
        Alive("greeter") \cup Alive("session") # {} \/ ~m_running

(***************************************************************************)
(* After run() has begun, a signal ends the daemon unless a session is     *)
(* holding it, and then as soon as that session ends.                      *)
(***************************************************************************)
StopHonoured ==
    ~m_running /\ pc \notin {"init", "enter"} ~>
        pc \in Gone \/ Alive("session") # {}

(***************************************************************************)
(* A request that was sent is answered, whatever PAM says and whether its  *)
(* client waits or has left, unless the daemon is told to stop (a signal   *)
(* makes read() give the client up): no error path forgets to write.       *)
(***************************************************************************)
EveryRequestAnswered ==
    inbox # "none" /\ reply = "none" ~> reply # "none" \/ ~m_running

(***************************************************************************)
(* Once success is answered the session starts, whatever the greeter does  *)
(* about SIGTERM and whatever signals arrive meanwhile.                    *)
(***************************************************************************)
AdmittedGetsSession ==
    pam = Admitted /\ reply = "ok" ~> Alive("session") # {}

-----------------------------------------------------------------------------
(***************************************************************************)
(* main.cpp:9 announces "shutting down display manager" for every signal   *)
(* it catches: the daemon should then not be running.                      *)
(***************************************************************************)
StopIsFinal == signalled => ~m_running

(***************************************************************************)
(* session.cpp:162: when the daemon is stopped a session is given "up to 2 *)
(* seconds to gracefully exit before SIGKILL"; it should then end.         *)
(***************************************************************************)
StopEndsSession ==
    ~m_running /\ Alive("session") # {} ~> Alive("session") = {}
=============================================================================
