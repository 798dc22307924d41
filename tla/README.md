# miqudm in TLA+

miqudm is a display manager for one seat, on a virtual terminal
(`vt`, 1 by default). A root daemon starts a greeter
as the user `greeter`, the greeter sends it login requests over a Unix socket,
and for a login that PAM grants the daemon stops the greeter, runs the user's
Wayland session, waits for it and brings the greeter back. This directory holds
TLA+ models of that daemon, the TLC configurations that check them, and proofs
that TLAPS checks. File and line references are to the repository
(`src/src/daemon/daemon.cpp:316` and so on).

## 1. Inventory

| component | state | operations | why it is hard |
|---|---|---|---|
| **Daemon main loop** `daemon/daemon.cpp`, `main.cpp` | `m_running` (atomic, written by the signal handler), `m_server_socket_fd`, `m_greeter_pid`, three owners of PAM objects (`m_greeter_pam`, the local `pam`, `m_active_pam`), the cached users and sessions | `init`, `run`, `handle_client_connection`, `handle_login_request`, `start_greeter`, `stop_greeter`, `stop` | one thread blocks in `poll`, `accept`, `read`, `waitpid`; signals arrive between any two steps and interrupt blocked calls (no `SA_RESTART`); children exit when they like; clients leave before they are answered |
| **PamAuth** `daemon/pam_auth.cpp` | `m_pam_handle`, `m_session_opened`, `m_credentials_set` | `start`, `authenticate`, `check_account`, `establish_credentials`, `open_session`, `close_session`, `delete_credentials`, `end`, move, destructor | every call can fail, objects are moved and destroyed; the library keeps a pointer to a conversation of `authenticate` |
| **SessionLauncher** `daemon/session.cpp` | `m_session_pid` | `launch`, `is_running`, `wait_for_exit`, `terminate` | fork, reaping in several places, pids that are handed out again |
| **IPC client** `greeter/ipc_client.cpp` | one socket per request | `send_request`: connect, write, wait, read, close; `get_users`, `get_sessions` (1 s), `power_action` (2 s), `login` (10 s) | times out while the daemon goes on; what it gave up stays in the listen backlog and is carried out; `connect` has no timeout |
| **IPC messages** `common/ipc.cpp` | none | `IpcMessage`: `serialize` and `deserialize`, by jsoncpp | empty fields are left out and come back as the defaults of the struct |
| **Configuration** `common/config.cpp` | the configuration file, `m_loaded_path`, `general`, `autologin` | `load`, `save`, `find_config_file` | rewritten in place on every login; a crash or a full disk in between; three places to look |
| **User and session discovery** `common/user_scanner.hpp`, `session_scanner.hpp` | the caches in the daemon | `scan_users`, `scan_all`, and the lookups of `handle_login_request` | read while files change; two processes list at different times; first match wins; a default record for a user who is not cached |
| **Logind client** `daemon/logind.cpp` | `m_bus` | `init`, `shutdown`, `power_off`, `reboot`, `suspend`, `hibernate`, `switch_to_vt` | a connection that is never renewed |
| **Greeter UI** `greeter/greeter_app.cpp` | miqutoolkit widgets, the lists of users and sessions, what is selected | event handlers, `attempt_login`, the power buttons | single-threaded: a request blocks the window for up to 10 s; lists of its own when the daemon does not answer |
| **Deployment** `assets/` | systemd unit, PAM stacks, session wrapper | start, restart, kill | restart limits, inherited descriptors; `pam_systemd` moves the daemon and its children out of the unit's control group |

How they interact. The greeter writes one JSON request per connection and waits;
the daemon accepts one connection at a time and answers on it before it goes
back to `poll`. A login is executed *inside* that handler: PAM start,
authenticate, account, credentials, session; the answer; `stop_greeter`; the PAM
object is moved to `m_active_pam`; `launch`; `wait_for_exit` until logout; PAM
closed; `start_greeter`. Until then nobody polls, accepts or looks at
`m_running`. Signals reach the daemon through one handler that calls `stop()`.
The children are noticed by `waitpid` at four places (daemon.cpp:316,
daemon.cpp:253-270, session.cpp:129, session.cpp:147).

What makes each correct:

* *Daemon*: never a session and a greeter on the screen together; no child that
  nobody knows of; a session only for a login PAM granted in full, with its PAM
  session open for as long as it runs; the greeter's PAM session open for as long
  as the greeter runs; nothing left at exit; the greeter comes back, a stop is
  honoured, requests are answered, an admitted user gets a session.
* *PamAuth*: the flags say what the library holds; nothing opened outlives its
  handle; a handle has one owner.
* *SessionLauncher*: the pid names the session until it is reaped, and a signal
  is only sent to that process.
* *Configuration*: a start finds what was put last where it looks; after an interrupted
  save it finds the defaults, after one that a full disk cut nothing that was not saved, a
  default or a beginning of a text.
* *Deployment*: only a daemon that was killed leaves PAM open or somebody on the screen, and
  who is left still has the PAM session of his login; an empty seat is
  served again until the unit is stopped or its start limit is hit; a stop completes.
* *IPC*: a connection has one request and at most one answer; a call returns whatever the
  daemon does, as long as the backlog has room; an answer is read by the call it is for.
* *Discovery*: a list shows an id and a name once, and every session that is installed; the user and the desktop that were
  chosen are those that run.
* *Logind*: an action reaches logind whenever the bus can be reached.
* *Greeter*: who is told that a login succeeded gets the session; a greeter becomes ready,
  with the daemon's lists or with its own.

`PROJECT.json` lists the same components with their status, and the hazards of
this code with the line where each one bites and the properties that watch it.

## 2. Modules

| module | models | uses |
|---|---|---|
| `PamTypes` | the grants a PAM handle can carry | |
| `PamGrants` | abstract: what a set of owners of PAM handles may do | `PamTypes` |
| `PamAuth` | class `PamAuth`, every method, and the library's answers; implements `PamGrants` | `PamTypes`, `PamGrants` |
| `PamAuthProofs` | theorems about `PamAuth` | `PamAuth` |
| `Seat` | abstract: what a display manager promises of its seat | |
| `Link` | abstract: one connection after the other, one request and at most one answer on each | |
| `Daemon` | the daemon's thread, signals, children, the client at the socket; implements `PamGrants`, `Seat` and `Link` | `PamTypes`, `PamGrants`, `Seat`, `Link` |
| `DaemonProofs` | the inductive invariant and the safety theorems | `Daemon` |
| `DaemonRefines` | that `Daemon` implements the three abstract specifications; what `Seat` is worth | `DaemonProofs` |
| `Unit` | the daemon's lives under systemd: death, restart, start limit, stop with its timeout, control group and session scopes | `Daemon` |
| `UnitProofs` | the daemon's invariant in every life; what one life leaves to the next | `Unit`, `DaemonProofs` |
| `ConfigFile` | class `Config`: search, load and save, crashes, a full disk, edits | |
| `MCConfigFile` | the files an administrator writes in the runs | `ConfigFile` |
| `ConfigProofs` | what a start finds, for any users and files | `ConfigFile` |
| `Messages` | `IpcMessage`: the requests, the responses, what crosses the socket | |
| `Catalog` | `UserScanner`, `SessionScanner`, the lookups of a login | |
| `Logind` | `LogindManager` and the system bus | |
| `Ipc` | the socket: `IpcClient::send_request` with a `connect` that blocks or fails, the listen backlog, `accept`, `write`, `close`, end of file | |
| `Greeter` | `GreeterApp` and the daemon that serves it, composed over the four above; implements `Link` | `Messages`, `Catalog`, `Logind`, `Ipc`, `Link` |
| `MCGreeter` | the accounts and desktop files of the run | `Greeter` |
| `GreeterProofs` | messages and lists, the control invariant, the safety theorems | `Greeter` |
| `GreeterRefines` | that `Greeter` implements `Link`; that the choice is what runs | `GreeterProofs` |
| `GreeterLists` | that every list offers what is installed | `GreeterRefines` |

### PamAuth and PamGrants

`PamAuth` keeps for each object `o` the three members of the class
(`m_pam_handle[o]`, `m_session_opened[o]`, `m_credentials_set[o]`), and for each
handle `h` what the library has granted on it (`lib[h]`). Every action is one
method (an operation and all the library calls it makes), with the library's
answer chosen freely. `end()` is a step that occurs inside `StartOk`,
`StartFails`, the move assignment and the destructor, as in the code. `conv`
tells which conversation the library has been given and whether its password
buffer still exists; `wild` becomes true when a module prompts through a dead
one. `refused` remembers what a close call could not undo.

`PamGrants` says the same of "slots" and what each holds: grants are won one at a
time on a live handle, a slot loses a handle only with all it was granted, and a
handle moves as a whole. It is shared: `PamAuth` implements it with its objects
as slots, `Daemon` with its three `unique_ptr<PamAuth>` as slots. `Daemon` then
does not repeat the class, it takes its promise.

### Daemon and Seat

The daemon's only thread is a program counter `pc` that names the call about to
be made, and `ret`, where `start_greeter` or `stop_greeter` return to. The steps
follow the calls at which something else can happen:

| steps | code |
|---|---|
| `init`, `enter`, `loop`, `poll`, `check` | `main`, `init`, and the loop of `run` |
| `read`, `serve`, `close` | `handle_client_connection` |
| `login_start` ... `login_reply` | `handle_login_request` up to its answer |
| `greeter_start` ... `greeter_fork` | `start_greeter` |
| `stop`, `stop_wait`, `stop_reap`, `stop_pam` | `stop_greeter` |
| `launch`, `wait`, `logout` | `SessionLauncher::launch`, `wait_for_exit`, and the end of a login |
| `terminate`, `exited`, `killed` | the end of `run` and of `main`; death by a signal |

Around the thread: `Signal` (the handler, between any two steps) and
`SignalInPoll`, `SignalInRead`, `SignalInReap` (the blocking calls it
interrupts); `ProcExits`, `KilledExits` (children); `PeerSends`, `PeerCloses`
(the client). A child that exited is a `"zombie"` until it is waited for, and
`"doomed"` from SIGKILL to its exit. The client's next connection is any of those a
backlog can hold: nothing sent yet, a request, a request whose sender has left.

An answer to a client that has left (`Answer`): nothing in the code sets the disposition of
SIGPIPE, so it is what the daemon inherits. `miqudm.service` does not say
`IgnoreSIGPIPE=no`, so systemd leaves it ignored: `write` fails with EPIPE, no caller looks
at its result (daemon.cpp:368, 452, 502), and the handler goes on, for a login to
`stop_greeter` and `launch`. A daemon started by hand has the default disposition and is
killed there. `SigpipeMayKill` is TRUE where the model has both.

`Seat` is the abstract promise: a screen with at most the greeter and the user
on it, a user who is admitted or not, a manager that serves or not. While it
serves, the session only starts on an empty screen; the greeter never starts
over anybody or while a user is admitted. The refinement reads the screen off
the living children, the admission off the answer and the PAM grants.

### Unit

`Unit` takes a daemon with all its steps and adds systemd around it, from
`assets/miqudm.service`. `unit` is what systemd makes of the service, `starts` the
starts counted against `StartLimitBurst`. The daemon may die of itself (`Crash`: a fault of
its own or of a PAM module). What it leaves in the unit's control group is killed
(`KillRemaining`, `KillMode=mixed`) and only then a new life begins (`Restart`, or
`GiveUp` at the limit), with every variable of the daemon as `main` finds it (`Fresh`).
`IntervalPasses` forgets the starts; a daemon that has not come as far as a greeter is
restarted after `RestartSec` and meets the limit before the interval ends.
`StopUnit` is the SIGTERM of a stop, `StopTimeout` the SIGKILL after `TimeoutSec`.

Which processes are in that group is up to PAM. The greeter's stack has `pam_systemd`
(miqudm-greeter.pam:13), the call that opens the session is made by the daemon itself
(daemon.cpp:152), and `pam_systemd` moves its caller into the session's scope. From then on
(`scoped`) the daemon and the children it forks (`away`) are not reached by the unit's kill:
a new daemon may start over a greeter or a session of the last one, which it knows
nothing of (`lingering`), and which leaves when it likes (`LingererLeaves`). The module is
optional in the stack, so `Grouped` has both cases. `Unit` therefore does not promise
one party on the screen across lives, nor that it implements `Seat`; each life does on its
own, for its own children (`UnitInvCorrect` with the theorems of `Daemon`). What is left is
what the code can answer for: `leaked` and `lingering`, histories of the PAM sessions and
parties that outlived their daemon, grow only when it was killed (`OnlyTheKilledLeak`), and
a session among them still has its PAM session (`SurvivorKeepsLogin`).

### ConfigFile

`disk` gives each path its file, a file gives each key a text or `Absent`. Four keys
stand for the ten: two texts (`last_user`, which logins change, and
`greeter_command`, which nothing does), a Boolean and the number. Two of the three
search paths stand for them, and `custom` is the file of `--config`. `Loaded` does
what `load` makes of the lines: absent keys keep what was in memory, `parse_bool` takes
anything unknown for true, and a `vt` that `std::stoi` throws on is left alone.
A save is two steps, the truncation (`SaveOpens`) and the write when the stream is
flushed (`SaveWrites`), or a write cut by a full disk (`SaveIsCut`); the daemon may
die between them (`Stop`). `kept` is a history: what the next start may find. A save that
goes where the search will look (`SaveInForce`) sets it to the defaults while the file is
empty, then to what was saved, or, when the disk was full after some key, to the mixtures of
saved values, defaults and blanks that may come of it (`Mixtures`; blank stands for any
beginning of a text). A save to a file that an earlier one now hides leaves it alone: the next start
finds the other file. So does an edit of a hidden file; one of the file that is looked at
sets it to what that file loads as. Only the removal of a file that hid another makes it
`{}`, unknown.

### Greeter, with Messages, Catalog, Logind and Ipc

`Daemon` sees an arbitrary client and knows two kinds of request. `Greeter` is the other
half: the program at the other end, with its requests by name, and of the daemon what
they read and change. PAM, signals and processes are left to `Daemon`: here a login is
granted or not, `stop_greeter` is over when the greeter is `"off"`, and the daemon may
be killed at any step (`Killed`). Both implement `Link`, which is what they say in common of a
connection.

| state | code |
|---|---|
| `dpc` | the daemon: `init`; `poll`, `check` (`run`); `serve`, `scan` (a list of sessions), `answer` (the `write`), `close`; `stopping`, `session` (the end of a login); `down` |
| `m_cached_users`, `m_cached_sessions`, `result` | the caches; the response about to be written |
| `gpc` | the greeter: `users`, `sessions`, `scan` (`GreeterApp::init`); `ready`; `login`, `power` (inside a call, from the click on); `off` |
| `m_users`, `m_sessions`, `source` | its lists; a history of where they come from |
| `backlog`, `client` | requests not accepted yet, oldest first; the one accepted. Each with, as a history, the choice it was made from |
| `call`, `asked` | where `send_request` is: `connecting` (with what it was called for), `waiting` for an answer, `failed` and about to close |
| `at`, `answer` | the greeter's open connection (`queued`, `accepted` or `none`), what it can read |
| `cursor`, `found` | for each process the directory entry its scan reads next, and the list so far |
| `bus`, `m_bus` | the system bus, the daemon's connection |

A call that has timed out closes its connection, and the request stays in the backlog
with nobody behind it. The daemon accepts it and carries it out; its `write` is lost
(`Write`) and the handler goes on, so a login that was given up still ends the greeter
and starts a session. `connect` has no timeout: with a full backlog the call stays
`connecting` and the greeter hangs in it (`Blocked`); `ConnectFails` has the error returns of
`socket`, `connect` and `write`. After the daemon's death the greeter still holds the
listening socket it was forked with, so a call connects and is not answered, until a new
daemon binds the path again (`InitDone`, `NewSocket`).

`Catalog` reads accounts in one step and desktop files one per step. A scan is a `cursor`
in the directories, and each file is read as it is when its turn comes (`ScanEntry`): an
edit between two entries is seen by the rest of the scan, and may make it miss
files or read one twice (`ScansDisturbed`: where a changed directory puts its readers is not
specified). A message is a record; `Sent` drops the fields that `serialize` finds empty
(`Empty`), `Received` fills absent ones with what `deserialize` falls back on (`Blank`).

### Conventions

An operator preceded by `\* Seeded fault:` and named `<Action>_<Change>` is a
plausible defect of the action it precedes. It is not part of any specification;
`PROJECT.json` "mutants" says which property fails when it takes the place of
that action. Each checked property has at least one.

## 3. Runs

| run | module, configuration | shows |
|---|---|---|
| `pam_auth` | `PamAuth`, `PamAuth.cfg` | any sequence of operations on two objects with any answers: flags, handles and owners agree, and `PamGrants` is implemented |
| `daemon_safety` | `Daemon`, `Daemon.cfg` | every interleaving of the thread, signals, children and client, with system calls that fail: the safety properties and the three refinements |
| `daemon_liveness` | `Daemon`, `DaemonLive.cfg` | what must happen under fairness |
| `unit_safety` | `Unit`, `Unit.cfg` | crashes and restarts at any step of the daemon, stops with and without a session, children in the unit's control group or in scopes of their own: only a daemon that was killed leaves PAM open or somebody on the screen, and a session that survives has its PAM session |
| `unit_liveness` | `Unit`, `UnitLive.cfg` | an empty seat is served again across deaths, whoever survives them; a stop completes |
| `config` | `MCConfigFile`, `ConfigFile.cfg` | loads and saves with crashes, a full disk that cuts at any key, and edits of every place, in any order |
| `greeter` | `MCGreeter`, `Greeter.cfg` | the greeter and the daemon from `init` to a session and back, with timeouts, a full backlog, answers to nobody, deaths of both, accounts and files that change (under a scan, too), and a bus that comes and goes: what is listed, chosen, asked for and run agrees, and calls return |
| `pam_dead_password`, `stop_is_final`, `stop_ends_session`, `custom_file`, `success_reaches_caller` | | a counterexample each, see section 6 |

Bounds, and why they suffice.

* `PamAuth`: 2 objects and 3 handles. A defect of ownership needs a source and a
  target; with three handles an object can start over a handle while the other holds
  one, so a leaked, doubly ended or shared handle has a place to show. A handle
  may be given out again once it was ended.
* `Daemon`: 3 pids. At most a session, a greeter that was killed and left unreaped, and
  a further child can exist together; a pid is reused once it has been reaped.
  One request per connection (as the client and the daemon do); connections
  follow one another without bound. No counter grows, so the state space is finite and
  nothing else is cut.
* `SyscallsMayFail` is TRUE for safety and FALSE for liveness. With a `fork` that
  fails, `start_greeter` logs and nothing retries (daemon.cpp:180 and 316), so the
  greeter does not come back and that promise cannot be made. A `poll` that fails for
  another reason than a signal ends the loop.
* `SigpipeMayKill` is TRUE in `daemon_safety`, which so has the lost and the fatal answer,
  and FALSE in the other runs, which are about the daemon as the unit runs it. The theorems hold for both.
* `Unit`: `StartLimitBurst` is 2, as in the unit file, so that a run has a restart
  before the limit, one after the interval has passed, and the failed unit. 3 pids in
  `unit_safety`, as for `Daemon`; 2 in `unit_liveness`, where `fork` does not fail and a
  greeter and a session are all the children that are waited for at a time.
* `ConfigFile`: two users, so that the last user changes; three files to write, of
  which one is shipped, one switches remembering off and has a bad `vt`, and one has
  another `vt`; a file for each place of the search. Values are opaque, so further ones
  add nothing; saves, starts and edits follow one another without bound.
* `Greeter`: a backlog of 1 for the 10 of `listen` (daemon.cpp:64): with the request in
  service and one behind it, both possibly given up, a third caller finds the queue full. Two worlds of
  accounts and files, and one change between them (`MaxEdits`). In the first two files
  share an id, two a command, and one is named like another's id; a scan passes over a file
  before it comes to one that it keeps, so that one which stops there loses a session
  (`EverySessionOffered`). The second has nobody to list and nothing to run, so that both lists are made
  up. One power action stands for the three buttons,
  which differ only in the method that is called. Calls, logins, deaths and restarts
  follow one another without bound.
* `GreeterCommand` is TRUE in the runs (a daemon without a greeter starts none); the
  theorems hold for both values of both options.

Fairness (`LiveSpec`). The thread is weakly fair as a whole: it is the only thread and
takes its next step whenever it is not blocked. The client is weakly fair only while it has
sent nothing (`SilentPeer`): ipc_client.cpp sends right after `connect`, or closes. Once its
request is there it may wait for its answer for ever, so that `EveryRequestAnswered` rests
on the daemon alone. A process that was sent SIGKILL exits. Nothing is assumed of a
greeter, a session or a user: they may run for ever or die at any time. Signals
are not fair. `poll` is always enabled, its timeout of 500 ms being
enough for a step.

`UnitLiveSpec` gives each life of the daemon the same fairness and adds that systemd does
what the unit file says: it kills, restarts, gives up, and ends a stop. `StopUnit`, `Crash`,
`LingererLeaves` and `IntervalPasses` are not fair: nobody has to stop the unit, no daemon
to crash, no survivor to leave, and the interval only matters if it passes.

In `Greeter` the daemon's own steps and the greeter's own steps are weakly fair (each is
one thread), and so is the end of a greeter that `stop_greeter` is waiting for.
A poll with a timeout ends, and a `connect` goes through once there is room. PAM
(`ServeLogin`), a session (`Logout`), the user, deaths, restarts, edits and
the bus are not fair, nor is the failure of a call. `CallsReturn` then says that each call returns and that `init` comes
to an end, also while PAM keeps the daemon, or nobody is left to answer; the one call that
need not return is a `connect` on a full backlog.

What liveness says. `GreeterComesBack` (first start, death, logout),
`StopHonoured` (with a session running, after it: the code waits for logout),
`EveryRequestAnswered` (whether its client waits or has left), `AdmittedGetsSession` (once
"ok" was written the session starts, even when the greeter ignores SIGTERM and signals
arrive). The exception in their statements is a stop, which is part of what the code does.

## 4. Proofs

All theorems hold for every set of pids or handles and every value of the
options, any accounts, desktop files and number of edits, and any length of the
backlog. The assumptions are `NoPidAssumption` (`-1` is not a pid),
`OptionsAssumption`, `NoHandleAssumption` (the null pointer is not a handle), and those
named below.

**PamAuth** (`PamAuthProofs`). The inductive invariant `IInv` adds three facts to
the type: an object's flags equal what the library granted on its handle, up to what a
close call refused (`RefusedIsHeld` says that only a live handle refuses);
handles no object owns carry nothing; no two objects share a handle. None of these is
inductive alone: an `end` on a shared handle would break the flags of the other
owner. `InvStep` has a step per method; `FlagsCorrect`,
`NothingOutlivesHandleCorrect`, `OneOwnerCorrect` and `PamTypeCorrect` follow, and
`ImplementsGrantsCorrect` maps each method to one step of `PamGrants` or to none.

**Daemon** (`DaemonProofs`). The properties speak of children and PAM grants, and
are lost at once without the program points: that no session runs over a greeter is only
true because `stop_greeter` ran before `launch`, so the proof has to say what holds
at each `pc`. `DaemonInv` is the conjunction of `TypeOK` with

* `RolesMatch`, `GreeterPid`, `OtherGreeters`, `OneGreeter`, `SessionPid`: the
  kernel's children against `m_greeter_pid` and `m_session_pid`;
* `GreeterAt`, `ReturnsTo`: where those are set, and who called `stop_greeter`;
* `LoginGrants`, `OtherGrants`: the grants of the three PAM objects at each point of a
  login and of the greeter's start and stop.

The theorem of each action's step is a lemma, one conjunct at a time;
`TypeCorrect`, `SeatExclusiveCorrect`, `ChildrenTrackedCorrect`,
`SessionIsAdmittedCorrect`, `CleanExitCorrect`, `GreeterPamCorrect` and
`PidsAreChildrenCorrect` follow.

**Refinements** (`DaemonRefines`). `PamProtocolCorrect` (`Spec => PamProtocol`),
`SeatRefinementCorrect` (`Spec => SeatRefinement`) and `LinkRefinementCorrect`
(`Spec => LinkRefinement`): each step of the daemon is a step of
the abstract specification or a stutter. The step for the seat uses lemmas on how the
screen changes when a child is forked, reaped or exits; the one for the link uses
`LinkInv`, which says at which program points the client has its answer.
`SeatPromiseKept` is about `Seat` alone: from its seven actions, whatever implements it only
has an admitted user on the screen, and one party at most while it serves (`SeatPromise`).

**Unit** (`UnitProofs`, with `BurstAssumption`: the limit is a positive number). The
invariant `UnitInv` is `UnitTypeOK`, `RolesMatch`, `SessionHeld` (a session process has the PAM
session of its login, its daemon dead or not), `pc # "killed" => DaemonInv` and
`SurvivorKeepsLogin`: a daemon may be killed at any step, so of a dead one only the kernel's
bookkeeping is left, and the next life gets all of `DaemonInv` back because its variables
are reset and it has no child yet (`FreshLife`). Nothing is asked of the control group:
`Restart` may find survivors, which become `lingering` and are no child of the new daemon.
`LifeStep` reuses the daemon's own step lemma. From it `UnitInvCorrect`, `UnitTypeCorrect`
and `SurvivorKeepsLoginCorrect`; `OnlyTheKilledLeakCorrect` adds that a daemon which returned
from `run` has no running child (`ExitedAlone`), in its control group or out of it.

**ConfigFile** (`ConfigProofs`, with `ConfigAssumption`: the defaults are among the
texts, the administrator's files are files). `RoundTrip` says that `load` of what `save`
wrote is what was saved; `CutLoads` what it makes of a save that a full disk cut, key by key:
if it was cut at `greeter_command=` the next start has a blank command, which
neither the saved configuration nor the defaults had. `ConfigInv` says that whenever `kept`
claims to know what the next start may find, a search and a load of the disk as it is would
give one of it; and that a file being saved is empty, which a death in between turns into the
defaults (`EmptyIsDefault`). `SaveFound` says what a save does to the search,
`CutIsMixture` what it leaves when it is cut. `ConfigTypeCorrect` and `StartFindsCorrect` follow.

**Greeter** (`GreeterProofs`, `GreeterRefines`, `GreeterLists`; with `WorldsAssumption`, `PowerAssumption`
and `CatalogAssumption` on the types of the constants, `BacklogAssumption`: the kernel
queues at least one connection, and `NoLineAssumption`: no request is the mark for none).

* `MessageSurvives`, a lemma: what `serialize` leaves out `deserialize` restores. The
  rest speaks of messages and not of lines because of it.
* `ControlInv` is `TypeOK` with `CallInv`, `SocketInv` and `PlaceInv`: the greeter's only open
  connection is the youngest, in the backlog or accepted, and the greeter is in the call that
  sent its request (`CallerAt`). `GrantedInv` adds where the daemon is when a greeter can read
  of success: `GrantedIsLaunchedCorrect`. With the types, `PowerReachesLogindCorrect`.
* `DistinctInv` follows the lists through scans, caches, responses and the socket;
  `KeptList` says that a scan never adds a duplicate, whatever the next file turns out to be.
  `ListsDistinctCorrect`.
* `AnswersInv` and `AgreeInv` say that the greeter's lists are the daemon's caches, from
  the moment they are read until a request for them is served again, and that no such
  request can be left in the socket by then (`NoneQueued`). `QueueInv` follows a login that was
  chosen from the daemon's lists, wherever it is (not connected yet, in the backlog, accepted) and
  whether its caller is still there: its choice lies in the caches (`Sound`), and no request that
  could refresh them is ahead of it (`ClearAhead`). This is the point of the argument: an
  abandoned login may be served long after, but a refresh only comes from a newer greeter,
  behind it in the queue. With `NamesInv` (a cache has a user once) and
  `FirstMatch` (the lookup gives the least index that matches) this is
  `ServedChoiceRunsCorrect`. `SessionRunsAsAccountCorrect` adds `SameWorldInv` and `KnownInv`: without
  edits all lists of users are scans of the same accounts, and every login under way names
  a user of such a scan.
* `ListsInv` follows the desktop files, from the directories to the login screen: while
  nothing is edited, a scan on its way has lost no file that runs something, each being
  still ahead of its cursor or offered by the list (`Underway`), and so has neither cache nor response nor
  the greeter's list. Its steps are lemmas about `Catalog`: what a file adds and what it
  leaves (`KeptOffers`), how a scan begins, goes on and ends. `EverySessionOfferedCorrect`.
* `LinkRefinementCorrect`: the connection of `Link` is the accepted one, and closed as
  soon as the greeter has left it.

Only model-checked: the liveness properties (`GreeterComesBack`, `StopHonoured`,
`EveryRequestAnswered`, `AdmittedGetsSession`, `SeatServed`, `StopCompletes`, `CallsReturn`),
whose proofs need fairness and ENABLED, for which there is no backend here; and the
five counterexamples, which are behaviours. Every other checked property is a theorem.

## 5. What is abstracted

* Text, logging, JSON layout, environment variables, the tty and VT switch: no
  property here depends on them. In `Daemon` requests are `"login"` or `"other"`; those of the second kind
  are answered on the spot and change no state of the daemon.
* The twenty polls of `stop_greeter` are one step that finds the greeter exited or
  not: between two of them nothing else of the daemon happens.
* Death by SIGPIPE, where it is not ignored, is in `Daemon`; any other crash, SIGKILL after a
  stop's timeout, and the restart are in `Unit`.
* In `Unit` a survivor is only its presence on the screen; that it may still be a client of the next
  daemon is left out. In `Greeter` a new daemon serves its own greeter only, and the one it
  replaces ends with the old socket. PAM modules run inside the daemon: what one does to
  it beyond the move to a scope is a `Crash` or nothing.
* In `Ipc` a `write` that falls short and a `connect` that a signal interrupts are calls that
  fail; the beginning of a line that the daemon then reads is no request.
* In `Unit` time is only order: an interval passes or does not, a timeout may
  come as soon as there is a stop.
* In `ConfigFile` an edit is one step, and not in the moment between truncation and write;
  a cut write ends after a key's `=`; other cuts leave the beginning of a text, which blank
  stands for, or, of a Boolean or a one-digit `vt`, nothing that `load` takes.
* `terminate` in `run` is modelled by what it does where it is called, with no
  session running, where it finds no pid (`PidsAreChildren`).
* `Greeter`: a fork or a launch that fails, and signals, are in `Daemon` only. `UserInfo` is a
  name and a uid, `SessionInfo` an id, a name and a command. An account has one record.
  `getlogin()` is taken to fail, as it does without a terminal, so that the made-up user
  is `"user"`; both shells that `scan_users` refuses are one. The files of both directories
  are one sequence.
* A power action outside the four is never sent by the greeter; the daemon would answer it
  with an error without calling logind.
* The child side of `fork` ends in `execve` or `_exit` and is a process that may
  exit at any time.

## 6. Where the code and its promises differ

Each has a run that finds the behaviour.

1. `NoDeadPasswordRead` (pam_auth.cpp:113): `authenticate` leaves the library with a
   conversation that points to a local variable; a module that prompts in a later call
   reads it after its end.
2. `StopIsFinal` (daemon.cpp:283): `run` sets `m_running` after the handlers were
   installed, so a SIGTERM caught during `init` is announced and forgotten.
3. `StopEndsSession` (daemon.cpp:550): a stop during a session waits for the user to
   log out; the two seconds before SIGKILL that session.cpp:162 speaks of are never
   reached with a session running.
4. `CustomFileIsLoaded` (main.cpp:37): `main` reads the path of `--config` and passes it
   to nobody, so the file that the usage text (main.cpp:20) promises is not loaded.
5. `SuccessReachesItsCaller` (daemon.cpp:502): nobody looks at what the `write` of a success
   returns. When PAM takes longer than the greeter's 10 seconds the user is told that the
   login failed (ipc_client.cpp:121) and has the login screen back, which is then torn down
   for the session of that attempt; daemon.cpp:496 says that the success is sent "before
   tearing down greeter".

`SeatExclusive` and `ChildrenTracked` name one exception each: a signal in the last
`waitpid` of `stop_greeter` leaves a greeter that was sent SIGKILL unreaped
(daemon.cpp:266). It is on its way out and the daemon is stopping; the
properties allow exactly that case and no other.

What the properties of `Greeter` do not promise, because the code does not:

* An entry that is named like the id of the chosen one, earlier in the list, runs in its
  place (daemon.cpp:523 compares the request with ids and names alike); of entries with one
  command the first runs. `ServedChoiceRuns` names both cases.
* A greeter that listed for itself, after a failed call, may choose what the daemon's caches
  do not have; the user is then a default record with uid 0 (daemon.cpp:514). It cannot
  happen while the accounts stay as they are, which is what `SessionRunsAsAccount` says, but
  for an account that is called like the made-up user.
* A request whose caller has given up is carried out when the daemon comes to it: a power
  action, or a login, for which finding 5 is the least that can happen. What then runs is
  still what was chosen (`ServedChoiceRuns`).
* A greeter whose `connect` finds the backlog full hangs there (ipc_client.cpp:26) until the
  daemon accepts: `CallsReturn` excepts it.
* After a crash or a kill of the daemon a new greeter may start over the old greeter or session,
  where `pam_systemd` took them out of the unit's control group: `Seat` holds of each life's
  own children, and not of the machine.
* A bus that went away is not connected to again (logind.cpp:20): `PowerReachesLogind`
  excepts a dead connection.

## 7. Not modelled, and why

* The greeter's widgets, drawing and selection (miqutoolkit), and its test mode, which sends
  nothing: presentation. A login may choose any listed user and session.
* The PAM stacks, but for `pam_systemd`, and the session wrapper: configuration of other programs.
* A client that connects and sends nothing (daemon.cpp:342): `Daemon` has it, without
  fairness it blocks the daemon in `read`, and no line promises otherwise. The liveness
  properties assume clients that send or close, as `IpcClient` does.
* `std::cout` in the signal handler (main.cpp:9): what can go wrong is inside the C++
  library.
* `ping`, `switch_to_vt` and `shutdown`, which nothing calls.
