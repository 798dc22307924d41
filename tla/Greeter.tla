------------------------------- MODULE Greeter ------------------------------
(***************************************************************************)
(* From the login screen to the session: GreeterApp                        *)
(* (src/src/greeter/greeter_app.cpp), the socket, the daemon's dispatch of *)
(* its requests (src/src/daemon/daemon.cpp), the lists of users and        *)
(* sessions both of them keep, and logind.  PAM, signals and processes are *)
(* in Daemon; here a login is granted or not, the greeter runs or not, and *)
(* the daemon is killed and started again with a new greeter, the requests *)
(* of an older one being left out from then on.  Around them, accounts and *)
(* desktop files change and the system bus comes and goes.                 *)
(***************************************************************************)
EXTENDS Messages, Catalog, Logind, Ipc

CONSTANTS
    Worlds,         \* what accounts and desktop files may be
    MaxEdits,       \* how often they change
    PowerActions,   \* the greeter's power buttons
    NoSession,      \* nobody is logged in
    NoChoice        \* nobody has chosen from the daemon's lists

VARIABLES
    dpc,            \* where the daemon is
    m_cached_users, m_cached_sessions,
    result,         \* the response about to be written
    session,        \* the session that runs
    gpc,            \* where the greeter is
    m_users, m_sessions,
    source,         \* history: where those two lists come from
    edits           \* history: changes of the world so far

caches == <<m_cached_users, m_cached_sessions>>
daemon == <<dpc, m_cached_users, m_cached_sessions, result, session>>
lists == <<m_users, m_sessions>>
greeter == <<gpc, m_users, m_sessions, source>>
vars == <<world, scans, busVars, socket, daemon, greeter, edits>>

Request == Received(client.line)

RequestsOf(types, users, commands, names, actions) ==
    [type : types, success : {FALSE}, username : users,
     session_exec : commands, desktop_name : names, power_action : actions,
     users : {{}}, sessions : {<<>>}]

\* What the greeter can ask for.
Requests ==
    RequestsOf({"get_users", "get_sessions"}, {NoText}, {NoText}, {NoText}, {NoText})
        \cup RequestsOf({"login"}, Texts, Texts, Texts, {NoText})
        \cup RequestsOf({"power_action"}, {NoText}, {NoText}, {NoText}, PowerActions)

ASSUME WorldsAssumption ==
    \A w \in Worlds :
        /\ w.accounts \subseteq Accounts
        /\ \A a, b \in w.accounts : a.username = b.username => a = b
        /\ w.desktops \in Seq(SessionInfo)

ASSUME PowerAssumption == PowerActions \subseteq Actions

Lines == {Sent(m) : m \in Requests}

\* What the user chose: whom, and what, of the list up to there.
Choices == [user : UserInfo, desktop : SessionInfo, upto : SUBSET SessionInfo]

\* A line with, as a history, the choice behind it.
Entries == [line : Lines, choice : Choices \cup {NoChoice}]

Entry(m, choice) == [line |-> Sent(m), choice |-> choice]

ASSUME NoLineAssumption == NoLine \notin Entries /\ NoChoice \notin Choices

Responses == [type : {"response"}, success : BOOLEAN, username : {NoText},
              session_exec : {NoText}, desktop_name : {NoText}, power_action : {NoText},
              users : SUBSET UserInfo, sessions : Seq(SessionInfo)]

TypeOK ==
    /\ accounts \subseteq Accounts
    /\ desktops \in Seq(SessionInfo)
    /\ cursor \in [Scanners -> 0 .. Len(desktops) + 1]
    /\ found \in [Scanners -> Seq(SessionInfo)]
    /\ bus \in {"up", "down"}
    /\ m_bus \in {"null", "live", "dead"}
    /\ logind \in {"none", "done", "refused", "unreached"}
    /\ backlog \in Seq(Entries)
    /\ Len(backlog) <= Backlog
    /\ client \in Entries \cup {NoLine}
    /\ at \in {"none", "queued", "accepted"}
    /\ call \in {"none", "connecting", "waiting", "failed"}
    /\ asked \in Entries \cup {NoLine}
    /\ answer \in {Nothing, EndOfFile} \/ Received(answer) \in Responses
    /\ dpc \in {"down", "init", "poll", "serve", "scan", "answer", "close",
                "stopping", "session", "check"}
    /\ m_cached_users \subseteq UserInfo
    /\ m_cached_sessions \in Seq(SessionInfo)
    /\ result \in Responses
    /\ session = NoSession \/ session \in [user : UserInfo, desktop : SessionInfo]
    /\ gpc \in {"off", "users", "sessions", "scan", "ready", "login", "power"}
    /\ m_users \subseteq UserInfo
    /\ m_sessions \in Seq(SessionInfo)
    /\ source \in {"daemon", "greeter"}
    /\ edits \in Nat

NoResult == Response(FALSE)

\* The daemon is about to be started for the first time.
Init ==
    /\ \E w \in Worlds : accounts = w.accounts /\ desktops = w.desktops
    /\ cursor = [p \in Scanners |-> 0]
    /\ found = [p \in Scanners |-> <<>>]
    /\ bus \in {"up", "down"}
    /\ m_bus = "null"
    /\ logind = "none"
    /\ backlog = <<>>
    /\ client = NoLine
    /\ at = "none"
    /\ call = "none"
    /\ asked = NoLine
    /\ answer = Nothing
    /\ dpc = "down"
    /\ m_cached_users = {}
    /\ m_cached_sessions = <<>>
    /\ result = NoResult
    /\ session = NoSession
    /\ gpc = "off"
    /\ m_users = {}
    /\ m_sessions = <<>>
    /\ source = "daemon"
    /\ edits = 0

-----------------------------------------------------------------------------
\* The daemon's thread.
Goto(from, to) == dpc = from /\ dpc' = to

\* It is killed, by a fault of its own or of a PAM module, or by a write to a
\* client that has left where nothing ignores SIGPIPE.
Killed ==
    /\ dpc # "down" /\ dpc' = "down"
    /\ CloseClient
    /\ ScanForgotten("daemon")
    /\ m_bus' = "null"
    /\ logind' = "none"
    /\ m_cached_users' = {}
    /\ m_cached_sessions' = <<>>
    /\ result' = NoResult
    /\ session' = NoSession
    /\ UNCHANGED <<world, bus, greeter, edits>>

\* systemd starts it; init() opens with the scans.
Start ==
    /\ Goto("down", "init")
    /\ m_cached_users' = ScanUsers(0)
    /\ ScanOpens("daemon")
    /\ UNCHANGED <<world, busVars, socket, m_cached_sessions, result, session,
                   greeter, edits>>

DaemonScans ==
    /\ dpc \in {"init", "scan"}
    /\ ScanEntry("daemon")
    /\ UNCHANGED <<world, busVars, socket, daemon, greeter, edits>>

\* start_greeter(): a new process, whose init() has yet to ask.
StartGreeter ==
    /\ gpc' = "users"
    /\ m_users' = {}
    /\ m_sessions' = <<>>
    /\ source' = "daemon"

\* ... and ends with a new socket, where no greeter calls yet.
InitDone ==
    /\ Goto("init", "check")
    /\ cursor["daemon"] > Len(desktops)
    /\ m_cached_sessions' = Scanned("daemon")
    /\ ScansForgotten
    /\ InitLogind
    /\ NewSocket
    /\ gpc' = "off"
    /\ UNCHANGED <<world, m_cached_users, result, session, lists, source, edits>>

\* One round of run(): poll() finds a client or nobody, ...
Accept ==
    /\ Goto("poll", "serve")
    /\ AcceptNext
    /\ UNCHANGED <<world, scans, busVars, caches, result, session,
                   greeter, edits>>

PollIdle ==
    /\ Goto("poll", "check")
    /\ backlog = <<>>
    /\ UNCHANGED <<world, scans, busVars, socket, caches, result, session,
                   greeter, edits>>

\* ... then a greeter that has died is replaced.  run() starts the first.
Check ==
    /\ Goto("check", "poll")
    /\ IF gpc = "off" THEN StartGreeter ELSE UNCHANGED greeter
    /\ UNCHANGED <<world, scans, busVars, socket, caches, result, session,
                   edits>>

-----------------------------------------------------------------------------
\* process_message() of a request whose caller may have given up since.
Serves(type, to) ==
    /\ Goto("serve", to)
    /\ Request.type = type
    /\ UNCHANGED <<world, socket, session, greeter, edits>>

\* Seeded fault: the cache moved into the response.
ServeUsers_MovesCache ==
    /\ Serves("get_users", "answer")
    /\ m_cached_users' = {}
    /\ result' = UsersAre(ScanUsers(0))
    /\ UNCHANGED <<scans, busVars, m_cached_sessions>>

ServeUsers ==
    /\ Serves("get_users", "answer")
    /\ m_cached_users' = ScanUsers(0)
    /\ result' = UsersAre(ScanUsers(0))
    /\ UNCHANGED <<scans, busVars, m_cached_sessions>>

ServeSessions ==
    /\ Serves("get_sessions", "scan")
    /\ ScanOpens("daemon")
    /\ UNCHANGED <<busVars, caches, result>>

SessionsScanned ==
    /\ Goto("scan", "answer")
    /\ ScanDone("daemon")
    /\ m_cached_sessions' = Scanned("daemon")
    /\ result' = SessionsAre(Scanned("daemon"))
    /\ UNCHANGED <<world, busVars, socket, m_cached_users, session,
                   greeter, edits>>

\* handle_power_action(): an action it does not know is not tried.
ServePower ==
    /\ Serves("power_action", "answer")
    /\ \E ok \in BOOLEAN :
          /\ result' = Response(ok)
          /\ IF Request.power_action \in Actions
             THEN CallManager(ok)
             ELSE ~ok /\ UNCHANGED busVars
    /\ UNCHANGED <<scans, caches>>

\* PAM takes what time it likes; only accounts pass it.
ServeLogin ==
    /\ Serves("login", "answer")
    /\ \E ok \in BOOLEAN :
          /\ ok => \E a \in accounts : a.username = Request.username
          /\ result' = Response(ok)
    /\ UNCHANGED <<scans, busVars, caches>>

\* The response, whether its reader has stayed or not.
Answer ==
    /\ dpc = "answer"
    /\ Write(Sent(result))
    /\ dpc' = IF Request.type = "login" /\ result.success
              THEN "stopping" ELSE "close"
    /\ UNCHANGED <<world, scans, busVars, caches, result, session,
                   greeter, edits>>

Close ==
    /\ Goto("close", "check")
    /\ CloseClient
    /\ result' = NoResult
    /\ logind' = "none"
    /\ UNCHANGED <<world, scans, bus, m_bus, caches, session, greeter, edits>>

\* The rest of handle_login_request(): stop_greeter() has returned, ...
Launch ==
    /\ Goto("stopping", "session")
    /\ gpc = "off"
    /\ session' = [user |-> FindUser(m_cached_users, Request.username),
                   desktop |-> FindSession(m_cached_sessions,
                                   Request.desktop_name, Request.session_exec)]
    /\ UNCHANGED <<world, scans, busVars, socket, caches, result,
                   greeter, edits>>

\* ... and the session ends.
Logout ==
    /\ Goto("session", "check")
    /\ session' = NoSession
    /\ CloseClient
    /\ result' = NoResult
    /\ StartGreeter
    /\ UNCHANGED <<world, scans, busVars, caches, edits>>

-----------------------------------------------------------------------------
\* The greeter's calls.
Dials ==
    /\ Connect
    /\ UNCHANGED <<world, scans, busVars, daemon, greeter, edits>>

DialFails ==
    /\ ConnectFails
    /\ UNCHANGED <<world, scans, busVars, daemon, greeter, edits>>

\* init(): the lists are asked for, ...
Asks(type, where) ==
    /\ gpc = where
    /\ Begin(Entry(Ask(type), NoChoice))
    /\ UNCHANGED <<world, scans, busVars, daemon, greeter, edits>>

AskUsers == Asks("get_users", "users")

AskSessions == Asks("get_sessions", "sessions")

\* What IpcClient makes of send_request() and of the response.
Granted == HasReply /\ Received(answer).success

Refused == CallFails \/ (HasReply /\ ~Received(answer).success)

\* The call returns, and control goes on there.
Returns(from, to) ==
    /\ gpc = from /\ gpc' = to
    /\ HangUp
    /\ UNCHANGED <<world, busVars, backlog, client, daemon, edits>>

UsersReturn ==
    /\ Returns("users", "sessions")
    /\ Granted
    /\ m_users' = Received(answer).users
    /\ UNCHANGED <<scans, m_sessions, source>>

SessionsReturn ==
    /\ Returns("sessions", "ready")
    /\ Granted
    /\ m_sessions' = Received(answer).sessions
    /\ UNCHANGED <<scans, m_users, source>>

\* ... and both scanned for when one call fails.
InitFails ==
    /\ \E from \in {"users", "sessions"} : Returns(from, "scan")
    /\ Refused
    /\ m_users' = ScanUsers(GreeterUid)
    /\ m_sessions' = <<>>
    /\ source' = "greeter"
    /\ ScanOpens("greeter")

GreeterScans ==
    /\ gpc = "scan"
    /\ ScanEntry("greeter")
    /\ UNCHANGED <<world, busVars, socket, daemon, greeter, edits>>

InitScanned ==
    /\ gpc = "scan" /\ gpc' = "ready"
    /\ ScanDone("greeter")
    /\ m_sessions' = Scanned("greeter")
    /\ UNCHANGED <<world, busVars, socket, daemon, m_users, source, edits>>

\* A user and a session of the lists are selected; a click or a key sends them.
ChoiceOf(u, i) ==
    IF source = "daemon"
    THEN [user |-> u, desktop |-> m_sessions[i],
          upto |-> {m_sessions[k] : k \in 1 .. i}]
    ELSE NoChoice

AttemptLogin(u, i) ==
    /\ gpc = "ready" /\ gpc' = "login"
    /\ Begin(Entry(Login(u.username, m_sessions[i].exec, m_sessions[i].id),
                   ChoiceOf(u, i)))
    /\ UNCHANGED <<world, scans, busVars, daemon, lists, source, edits>>

PressPower(action) ==
    /\ gpc = "ready" /\ gpc' = "power"
    /\ Begin(Entry(Power(action), NoChoice))
    /\ UNCHANGED <<world, scans, busVars, daemon, lists, source, edits>>

\* A granted login ends the greeter, ...
LoginSucceeds ==
    /\ Returns("login", "off")
    /\ Granted
    /\ UNCHANGED <<scans, lists, source>>

\* ... one that was refused, or not answered in time, can be tried again.
LoginFails ==
    /\ Returns("login", "ready")
    /\ Refused
    /\ UNCHANGED <<scans, lists, source>>

\* What became of a power action is not shown.
PowerReturns ==
    /\ Returns("power", "ready")
    /\ Granted \/ Refused
    /\ UNCHANGED <<scans, lists, source>>

\* Seeded fault: poll() without a timeout.
PollTimesOut_Never ==
    /\ gpc # "login"
    /\ TimesOut
    /\ UNCHANGED <<world, scans, busVars, daemon, greeter, edits>>

PollTimesOut ==
    /\ TimesOut
    /\ UNCHANGED <<world, scans, busVars, daemon, greeter, edits>>

\* It crashes, or is ended by stop_greeter() or by systemd.
GreeterEnds ==
    /\ gpc # "off" /\ gpc' = "off"
    /\ HangUp
    /\ ScanForgotten("greeter")
    /\ UNCHANGED <<world, busVars, backlog, client, daemon, lists, source, edits>>

-----------------------------------------------------------------------------
\* Packages and accounts come and go.
Edit ==
    /\ edits < MaxEdits
    /\ edits' = edits + 1
    /\ \E w \in Worlds : accounts' = w.accounts /\ desktops' = w.desktops
    /\ ScansDisturbed
    /\ UNCHANGED <<busVars, socket, daemon, greeter>>

Bus ==
    /\ BusStarts \/ BusStops
    /\ UNCHANGED <<world, scans, socket, daemon, greeter, edits>>

-----------------------------------------------------------------------------
DaemonSteps ==
    \/ DaemonScans \/ InitDone \/ Accept \/ PollIdle \/ Check
    \/ ServeUsers \/ ServeSessions \/ SessionsScanned \/ ServePower
    \/ Answer \/ Close \/ Launch

GreeterSteps ==
    \/ Dials \/ AskUsers \/ UsersReturn \/ AskSessions \/ SessionsReturn
    \/ InitFails \/ GreeterScans \/ InitScanned
    \/ LoginSucceeds \/ LoginFails \/ PowerReturns \/ PollTimesOut

UserSteps ==
    \/ \E u \in m_users, i \in DOMAIN m_sessions : AttemptLogin(u, i)
    \/ \E a \in PowerActions : PressPower(a)

Next ==
    \/ DaemonSteps \/ ServeLogin \/ Logout \/ Killed \/ Start
    \/ GreeterSteps \/ UserSteps \/ DialFails \/ GreeterEnds
    \/ Edit \/ Bus

Spec == Init /\ [][Next]_vars

(***************************************************************************)
(* The scheduler runs the daemon and the greeter, a poll with a timeout    *)
(* ends, and stop_greeter() gets rid of the greeter.  PAM may never come   *)
(* back, a session may last, nobody has to log in, a daemon that died need *)
(* not be started again, and a connect() need not fail.                    *)
(***************************************************************************)
LiveSpec ==
    /\ Spec
    /\ WF_vars(DaemonSteps)
    /\ WF_vars(GreeterSteps)
    /\ WF_vars(dpc = "stopping" /\ GreeterEnds)

-----------------------------------------------------------------------------
Distinct(list) ==
    \A i, j \in DOMAIN list :
        i # j => list[i].id # list[j].id /\ list[i].name # list[j].name

(***************************************************************************)
(* No list ever shows two sessions under one id or one name, wherever the  *)
(* files lie and however they change, also between two entries of one scan *)
(* that then misses files or reads one twice: not the daemon's cache, not  *)
(* the greeter's, not a scan that is not over (scan_directory()).          *)
(***************************************************************************)
ListsDistinct ==
    /\ Distinct(m_cached_sessions)
    /\ Distinct(m_sessions)
    /\ \A p \in Scanners : Distinct(found[p])

Runs(f) == Parsed(f).exec # ""

Installed == {desktops[i] : i \in DOMAIN desktops}

Offered(f, list) ==
    \E i \in DOMAIN list : list[i].id = Parsed(f).id \/ list[i].name = Parsed(f).name

\* The list offers every file that runs something, perhaps by another that
\* has its id or its name, and nothing else.
Offers(list, files) ==
    LET runnable == {f \in files : Runs(f)}
    IN IF runnable = {}
       THEN list = <<FallbackSession>>
       ELSE /\ \A f \in runnable : Offered(f, list)
            /\ \A i \in DOMAIN list : \E f \in runnable : list[i] = Parsed(f)

(***************************************************************************)
(* While the desktop files stay as they are, the login screen offers every *)
(* session that is installed and nothing else, or the one that is made up  *)
(* when there is none: whether its list is the daemon's or its own, whose  *)
(* calls failed and who was restarted.  And the daemon's cache, in which a *)
(* login is looked up, does so too (SessionScanner::scan_all()).           *)
(***************************************************************************)
EverySessionOffered ==
    edits = 0 =>
        /\ dpc \notin {"down", "init"} => Offers(m_cached_sessions, Installed)
        /\ gpc \in {"ready", "login", "power"} => Offers(m_sessions, Installed)

(***************************************************************************)
(* What a user chose from the daemon's lists is what runs, although the    *)
(* daemon looks it up again by name, perhaps long after the user gave up,  *)
(* the greeter was replaced and others were served: the record of that     *)
(* user, and the session chosen or, of those above it in the list, the     *)
(* first with its command or with its id for a name                        *)
(* (attempt_login(), handle_login_request()).                              *)
(***************************************************************************)
ChoiceRuns(choice) ==
    /\ session'.user = choice.user
    /\ session'.desktop \in choice.upto
    /\ \/ session'.desktop.exec = choice.desktop.exec
       \/ session'.desktop.name = choice.desktop.id

ServedChoiceRuns ==
    [][(dpc = "stopping" /\ dpc' = "session" /\ client.choice # NoChoice)
           => ChoiceRuns(client.choice)]_vars

(***************************************************************************)
(* While accounts stay as they are, a session has the uid of its account,  *)
(* and never the uid 0 of a UserInfo nobody filled in, also for a greeter  *)
(* that listed the users itself.  Not said of an account that is called    *)
(* like the one scan_users() makes up.                                     *)
(***************************************************************************)
SessionRunsAsAccount ==
    (session # NoSession /\ edits = 0 /\ session.user.username # "user")
        => \E a \in accounts : /\ a.username = session.user.username
                               /\ a.uid = session.user.uid

(***************************************************************************)
(* A greeter that reads of success in its login call, and ends, can rely   *)
(* on it: the daemon that said so is about to launch the session of that   *)
(* call and waits for its end, or has died since.  No answer to a call     *)
(* that timed out is read by the next (send_request()'s close()).          *)
(***************************************************************************)
GrantedIsLaunched ==
    (gpc = "login" /\ Granted)
        => \/ dpc = "stopping" /\ Request.type = "login" /\ at = "accepted"
           \/ dpc \in {"down", "init"}

(***************************************************************************)
(* daemon.cpp:496, "Authentication succeeded! Send success reply before    *)
(* tearing down greeter": the greeter that is torn down, unless it has     *)
(* died, is the one that waits for this reply, and its user has not been   *)
(* told that the login failed.  Nobody looks at what write() returns.      *)
(***************************************************************************)
SuccessReachesItsCaller ==
    [][(dpc = "answer" /\ dpc' = "stopping" /\ gpc # "off")
           => gpc = "login" /\ call = "waiting"]_vars

(***************************************************************************)
(* A power action reaches logind whenever the bus is up, also one that     *)
(* came up after the daemon, unless a bus it was connected to went away    *)
(* (LogindManager::init(), which call_manager_method() calls each time).   *)
(***************************************************************************)
PowerReachesLogind ==
    [][(dpc = "serve" /\ Request.type = "power_action" /\ dpc' = "answer"
            /\ bus = "up" /\ m_bus # "dead")
           => logind' \in {"done", "refused"}]_vars

(***************************************************************************)
(* Every call of the greeter returns, and its init() with it, even while   *)
(* PAM keeps the daemon or the daemon is dead (send_request()'s timeout);  *)
(* unless so many calls were given up before that connect(), which has no  *)
(* timeout, finds the backlog full.                                        *)
(***************************************************************************)
Blocked == call = "connecting" /\ Len(backlog) = Backlog

CallsReturn ==
    gpc \in {"users", "sessions", "scan", "login", "power"}
        ~> gpc \in {"ready", "off"} \/ Blocked

-----------------------------------------------------------------------------
LinkOf == INSTANCE Link WITH
    Requests <- {"get_users", "get_sessions", "login", "power_action"},
    conn <- IF client = NoLine THEN "none"
            ELSE IF at = "accepted" THEN "open" ELSE "closed",
    inbox <- IF client = NoLine THEN "none" ELSE Request.type,
    reply <- IF client # NoLine /\ dpc \in {"close", "stopping", "session"}
             THEN IF result.success THEN "ok" ELSE "error"
             ELSE "none"

(***************************************************************************)
(* The greeter, its socket and the daemon keep the protocol of Link: one   *)
(* client, one request, one answer at most, heard or not.                  *)
(***************************************************************************)
LinkRefinement == LinkOf!Spec
=============================================================================
