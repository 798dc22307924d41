--------------------------- MODULE GreeterRefines ---------------------------
(***************************************************************************)
(* The greeter, its socket and the daemon implement Link, and the session  *)
(* that runs is the one that was chosen.  The second takes an invariant    *)
(* that follows the lists: which of them agree, and until when.            *)
(***************************************************************************)
EXTENDS GreeterProofs

-----------------------------------------------------------------------------
LEMMA LinkInit == Init => LinkOf!Init
BY DEF Init, LinkOf!Init

\* The client's side: it leaves, or nothing happens to the connection.
LEMMA LinkGreeter ==
    ASSUME ControlInv, GreeterSide
    PROVE  [LinkOf!Next]_(LinkOf!vars)
<1>1. UNCHANGED <<client, dpc, result>>
  BY GreeterLeavesDaemon DEF daemon
<1>2. at' = at \/ at' = "none" \/ (at = "none" /\ at' = "queued")
  BY DEF GreeterSide, GreeterSteps, UserSteps, GreeterEnds, Edit, Bus, AskUsers,
     AskSessions, Asks, UsersReturn, SessionsReturn, InitFails, Returns, HangUp,
     GreeterScans, InitScanned, LoginSucceeds, LoginFails, PowerReturns, PollTimesOut,
     TimesOut, Dials, Connect, DialFails, ConnectFails, AttemptLogin, PressPower,
     Begin, socket, ControlInv, CallInv
<1>3. CASE client # NoLine /\ at = "accepted" /\ at' = "none"
  BY <1>1, <1>3 DEF LinkOf!Next, LinkOf!Leaves, Request
<1>4. CASE ~(client # NoLine /\ at = "accepted" /\ at' = "none")
  BY <1>1, <1>2, <1>4 DEF LinkOf!vars, Request
<1> QED
  BY <1>3, <1>4

\* The daemon's: it accepts, answers, lets go, or works in between.
LEMMA LinkDaemon ==
    ASSUME ControlInv, ControlInv', DaemonSide
    PROVE  [LinkOf!Next]_(LinkOf!vars)
<1> USE DEF ControlInv, Held, HoldsClient, Goto, socket, daemon, greeter, Request
<1>1. CASE Killed \/ Close \/ Logout
  <2>1. client' = NoLine
    BY <1>1 DEF Killed, Close, Logout, CloseClient
  <2>2. CASE client = NoLine
    BY <2>1, <2>2 DEF LinkOf!vars
  <2>3. CASE client # NoLine
    BY <2>1, <2>3 DEF LinkOf!Next, LinkOf!Ends
  <2> QED
    BY <2>2, <2>3
<1>2. CASE Accept
  <2>1. client' # NoLine /\ client = NoLine /\ dpc' = "serve"
    BY <1>2 DEF Accept, AcceptNext
  <2>2. Request'.type \in {"get_users", "get_sessions", "login", "power_action"}
    BY <2>1, EntryIsRequest, RequestTypes DEF TypeOK
  <2> QED
    BY <2>1, <2>2 DEF LinkOf!Next, LinkOf!Accept
<1>3. CASE Answer
  <2>1. client # NoLine /\ client' = client /\ at' = at /\ result' = result
           /\ dpc = "answer" /\ dpc' \in {"stopping", "close"}
    BY <1>3 DEF Answer, Write
  <2>2. Request.type # "none"
    BY <2>1, EntryIsRequest, RequestTypes DEF TypeOK
  <2> QED
    BY <2>1, <2>2 DEF LinkOf!Next, LinkOf!Answers
<1>4. CASE ServeUsers \/ ServeSessions \/ ServePower \/ ServeLogin \/ SessionsScanned
  <2>1. UNCHANGED <<client, at>> /\ dpc \in {"serve", "scan"} /\ dpc' \in {"scan", "answer"}
    BY <1>4 DEF ServeUsers, ServeSessions, ServePower, ServeLogin, Serves, SessionsScanned
  <2> QED
    BY <2>1 DEF LinkOf!vars
<1>5. CASE Start \/ InitDone \/ PollIdle \/ Check
  <2>1. client = NoLine /\ client' = NoLine
    BY <1>5 DEF Start, InitDone, NewSocket, PollIdle, Check
  <2> QED
    BY <2>1 DEF LinkOf!vars
<1>6. CASE DaemonScans
  BY <1>6 DEF DaemonScans, LinkOf!vars
<1>7. CASE Launch
  <2>1. UNCHANGED <<client, at, result>> /\ dpc = "stopping" /\ dpc' = "session"
    BY <1>7 DEF Launch
  <2> QED
    BY <2>1 DEF LinkOf!vars
<1> QED
  BY <1>1, <1>2, <1>3, <1>4, <1>5, <1>6, <1>7 DEF DaemonSide, DaemonSteps

(***************************************************************************)
(* LinkRefinement: the protocol of Link, between a greeter that gives up,  *)
(* dies and is replaced, and a daemon that finds its requests later and    *)
(* answers them all the same, heard or not.                                *)
(***************************************************************************)
THEOREM LinkRefinementCorrect == Spec => LinkRefinement
<1>1. ASSUME ControlInv, ControlInv', [Next]_vars
      PROVE  [LinkOf!Next]_(LinkOf!vars)
  <2>1. CASE UNCHANGED vars
    BY <2>1 DEF vars, socket, daemon, LinkOf!vars, Request
  <2> QED
    BY <1>1, <2>1, LinkGreeter, LinkDaemon, Sides
<1> QED
  BY <1>1, LinkInit, ControlCorrect, PTL DEF Spec, LinkRefinement, LinkOf!Spec

-----------------------------------------------------------------------------
(***************************************************************************)
(* A list reaches the greeter as it lies in the daemon's cache: from the   *)
(* cache into the response, from there to the greeter, and the cache       *)
(* changes only when a request for that list is served.                    *)
(***************************************************************************)
Alive == dpc \notin {"down", "init"}

ResultInv ==
    dpc = "answer" =>
        /\ Request.type = "get_users" => result.users = m_cached_users
        /\ Request.type = "get_sessions" => result.sessions = m_cached_sessions

AnswerInv ==
    answer \notin {Nothing, EndOfFile} =>
        /\ backlog = <<>> \/ ~Alive
        /\ dpc \in {"close", "stopping", "check", "poll", "down", "init"}
        /\ Alive /\ gpc = "users" => m_cached_users = Received(answer).users
        /\ Alive /\ gpc = "sessions" => m_cached_sessions = Received(answer).sessions

AnswersInv == ResultInv /\ AnswerInv

LEMMA AnswersInit == Init => AnswersInv
BY DEF Init, AnswersInv, ResultInv, AnswerInv

\* What the greeter can read is for the call it is in.
LEMMA AnswerIsFor ==
    ASSUME ControlInv, Answer, at = "accepted"
    PROVE  /\ gpc = "users" => Request.type = "get_users"
           /\ gpc = "sessions" => Request.type = "get_sessions"
           /\ backlog = <<>> /\ Received(answer') = result
<1>1. /\ gpc = CallerAt[Request.type] /\ backlog = <<>>
      /\ Request.type \in {"get_users", "get_sessions", "login", "power_action"}
  BY EntryIsRequest, RequestTypes DEF TypeOK, ControlInv, SocketInv, Request
<1>2. Received(answer') = result
  BY ResponseSurvives DEF Answer, Write, ControlInv, TypeOK
<1> QED
  BY <1>1, <1>2 DEF CallerAt

LEMMA AnswersStep ==
    ASSUME ControlInv, AnswersInv, [Next]_vars
    PROVE  AnswersInv'
<1> USE DEF ControlInv, CallInv, SocketInv, PlaceInv, Held, HoldsClient, Alive,
        AnswersInv, ResultInv, AnswerInv, socket, caches, daemon, lists, greeter, Goto,
        Request
<1>1. CASE Killed
  BY <1>1 DEF Killed, CloseClient
<1>2. CASE Start \/ InitDone \/ Launch \/ PollIdle \/ DaemonScans
  BY <1>2 DEF Start, InitDone, NewSocket, HangUp, Launch, PollIdle, DaemonScans
<1>3. CASE Accept
  BY <1>3 DEF Accept, AcceptNext
<1>4. CASE Check
  BY <1>4 DEF Check, StartGreeter
<1>5. CASE ServeUsers
  BY <1>5, ScanUsersType, UsersAreResponse DEF ServeUsers, Serves, TypeOK
<1>6. CASE ServeSessions \/ ServePower \/ ServeLogin
  BY <1>6 DEF ServeSessions, ServePower, ServeLogin, Serves
<1>7. CASE SessionsScanned
  <2>1. Scanned("daemon") \in Seq(SessionInfo)
    BY ScannedList DEF Scanners, TypeOK
  <2> QED
    BY <1>7, <2>1, SessionsAreResponse DEF SessionsScanned
<1>8. CASE Answer
  BY <1>8, AnswerIsFor DEF Answer, Write
<1>9. CASE Close \/ Logout
  BY <1>9 DEF Close, Logout, CloseClient, StartGreeter
<1>10. CASE AskUsers \/ AskSessions \/ UserSteps
  BY <1>10 DEF AskUsers, AskSessions, Asks, UserSteps, AttemptLogin, PressPower, Begin
<1>14. CASE Dials \/ DialFails \/ PollTimesOut
  BY <1>14 DEF Dials, Connect, DialFails, ConnectFails, PollTimesOut, TimesOut
<1>11. CASE UsersReturn \/ SessionsReturn \/ InitFails \/ LoginSucceeds \/ LoginFails
              \/ PowerReturns \/ GreeterEnds
  BY <1>11 DEF UsersReturn, SessionsReturn, InitFails, LoginSucceeds, LoginFails,
     PowerReturns, GreeterEnds, Returns, HangUp
<1>12. CASE GreeterScans \/ InitScanned
  BY <1>12 DEF GreeterScans, InitScanned
<1>13. CASE Edit \/ Bus \/ UNCHANGED vars
  BY <1>13 DEF Edit, Bus, vars
<1> QED
  BY <1>1, <1>2, <1>3, <1>4, <1>5, <1>6, <1>7, <1>8, <1>9, <1>10, <1>11, <1>12, <1>13,
     <1>14 DEF Next, DaemonSteps, GreeterSteps

LEMMA AnswersCorrect == Spec => []AnswersInv
BY AnswersInit, AnswersStep, ControlCorrect, PTL DEF Spec

-----------------------------------------------------------------------------
(***************************************************************************)
(* The daemon's cache and the greeter's lists agree from the moment the    *)
(* greeter has them: a greeter that has a list no longer asks for it, and  *)
(* no older request for it is left in the socket.                          *)
(***************************************************************************)
Working == {"serve", "scan", "answer"}

NoneQueued(types) ==
    /\ \A i \in DOMAIN backlog : AskOf(backlog[i]).type \notin types
    /\ dpc \in Working => Request.type \notin types

AgreeInv ==
    /\ gpc = "scan" => source = "greeter"
    /\ (source = "daemon" /\ Alive) =>
          /\ gpc \in {"sessions", "ready", "login", "power"} =>
                m_cached_users = m_users /\ NoneQueued({"get_users"})
          /\ gpc \in {"ready", "login", "power"} =>
                m_cached_sessions = m_sessions /\ NoneQueued({"get_sessions"})

LEMMA AgreeInit == Init => AgreeInv
BY DEF Init, AgreeInv

\* A call for something else leaves no such request, ...
LEMMA DialNoneQueued ==
    ASSUME ControlInv, Dials, NEW types, NoneQueued(types),
           AskOf(asked).type \notin types
    PROVE  NoneQueued(types)'
<1>1. client' = client /\ dpc' = dpc
  BY DEF Dials, Connect, daemon
<1>2. backlog \in Seq(Entries) /\ backlog' = Append(backlog, asked) /\ asked \in Entries
  BY ConnectTypes DEF Dials, ControlInv, AskedInv, TypeOK
<1> DEFINE longer == Append(backlog, asked)
<1>3. /\ DOMAIN longer = 1..(Len(backlog) + 1)
      /\ \A i \in 1..Len(backlog) : longer[i] = backlog[i]
      /\ longer[Len(backlog) + 1] = asked
      /\ DOMAIN backlog = 1..Len(backlog) /\ Len(backlog) \in Nat
  BY <1>2
<1> HIDE DEF longer
<1>4. \A i \in DOMAIN longer : i \in 1..Len(backlog) \/ i = Len(backlog) + 1
  BY <1>3
<1>5. \A i \in DOMAIN longer : AskOf(longer[i]).type \notin types
  BY <1>3, <1>4 DEF NoneQueued
<1>6. \A i \in DOMAIN backlog' : AskOf(backlog'[i]).type \notin types
  BY <1>2, <1>5 DEF longer
<1> QED
  BY <1>1, <1>6 DEF NoneQueued, Request, AskOf

\* ... nor does one that is accepted: it was the first of the backlog, ...
LEMMA AcceptShifts ==
    ASSUME ControlInv, Accept
    PROVE  /\ client' = backlog[1] /\ 1 \in DOMAIN backlog
           /\ Len(backlog) \in Nat /\ Len(backlog') = Len(backlog) - 1
           /\ DOMAIN backlog = 1..Len(backlog)
           /\ DOMAIN backlog' = 1..Len(backlog')
           /\ \A i \in DOMAIN backlog' :
                 i + 1 \in DOMAIN backlog /\ backlog'[i] = backlog[i + 1]
<1>1. backlog \in Seq(Entries) /\ backlog # <<>>
  BY DEF Accept, AcceptNext, ControlInv, TypeOK
<1>2. /\ Len(backlog) \in Nat \ {0} /\ DOMAIN backlog = 1..Len(backlog)
      /\ Tail(backlog) \in Seq(Entries) /\ Len(Tail(backlog)) = Len(backlog) - 1
      /\ \A i \in 1..Len(Tail(backlog)) : Tail(backlog)[i] = backlog[i + 1]
  BY <1>1, HeadTailProperties, EmptySeq, LenProperties
<1>3. DOMAIN Tail(backlog) = 1..Len(Tail(backlog))
  BY <1>2, LenProperties
<1>4. Head(backlog) = backlog[1]
  BY <1>1
<1>5. client' = Head(backlog) /\ backlog' = Tail(backlog)
  BY DEF Accept, AcceptNext
<1> QED
  BY <1>2, <1>3, <1>4, <1>5

LEMMA AcceptNoneQueued ==
    ASSUME ControlInv, NEW types, NoneQueued(types), Accept
    PROVE  NoneQueued(types)'
<1>1. Request' = AskOf(backlog[1])
  BY AcceptShifts DEF Request, AskOf
<1>2. \A i \in DOMAIN backlog' : AskOf(backlog'[i]).type \notin types
  BY AcceptShifts DEF NoneQueued
<1>3. Request'.type \notin types
  BY <1>1, AcceptShifts DEF NoneQueued
<1> QED
  BY <1>2, <1>3 DEF NoneQueued, AskOf

\* ... or a step of the daemon in the middle of a request.
LEMMA QuietNoneQueued ==
    ASSUME NEW types, NoneQueued(types), UNCHANGED <<backlog, client>>,
           dpc' \in Working => dpc \in Working
    PROVE  NoneQueued(types)'
BY DEF NoneQueued, Request, AskOf

LEMMA AgreeStep ==
    ASSUME ControlInv, AnswersInv, AgreeInv, [Next]_vars
    PROVE  AgreeInv'
<1> USE DEF ControlInv, CallInv, PlaceInv, AgreeInv, Alive, Working, socket, caches,
        daemon, lists, greeter, Goto
<1>1. CASE Killed
  BY <1>1 DEF Killed
<1>2. CASE Start
  BY <1>2 DEF Start
<1>3. CASE InitDone \/ Logout
  BY <1>3 DEF InitDone, Logout, StartGreeter
<1>4. CASE Accept
  BY <1>4, AcceptNoneQueued DEF Accept
<1>5. CASE Check
  <2>1. CASE gpc = "off"
    BY <1>5, <2>1 DEF Check, StartGreeter
  <2>2. CASE gpc # "off"
    BY <1>5, <2>2, QuietNoneQueued DEF Check
  <2> QED
    BY <2>1, <2>2
<1>6. CASE ServeUsers
  <2>1. (source = "daemon" /\ gpc \in {"sessions", "ready", "login", "power"}) => FALSE
    BY <1>6 DEF ServeUsers, Serves, NoneQueued
  <2> QED
    BY <1>6, <2>1 DEF ServeUsers, Serves
<1>7. CASE SessionsScanned
  <2>1. (source = "daemon" /\ gpc \in {"ready", "login", "power"}) => FALSE
    BY <1>7 DEF SessionsScanned, NoneQueued
  <2> QED
    BY <1>7, <2>1, QuietNoneQueued DEF SessionsScanned
<1>8. CASE ServeSessions \/ ServePower \/ ServeLogin \/ PollIdle
  BY <1>8, QuietNoneQueued DEF ServeSessions, ServePower, ServeLogin, Serves, PollIdle
<1>9. CASE DaemonScans
  BY <1>9, QuietNoneQueued DEF DaemonScans
<1>10. CASE Answer
  BY <1>10, QuietNoneQueued DEF Answer, Write
<1>11. CASE Close
  <2>1. \A types : NoneQueued(types) => NoneQueued(types)'
    BY <1>11 DEF Close, CloseClient, NoneQueued, AskOf
  <2> QED
    BY <1>11, <2>1 DEF Close
<1>12. CASE Launch
  BY <1>12 DEF Launch
<1>13. CASE AskUsers
  BY <1>13 DEF AskUsers, Asks
<1>14. CASE AskSessions
  BY <1>14, QuietNoneQueued DEF AskSessions, Asks, Begin
<1>15. CASE UsersReturn \/ SessionsReturn
  <2>1. /\ answer \notin {Nothing, EndOfFile} /\ (Alive => backlog' = <<>>)
        /\ dpc' = dpc /\ dpc \in {"close", "stopping", "check", "poll", "down", "init"}
    BY <1>15 DEF UsersReturn, SessionsReturn, Returns, HasReply, Granted, AnswersInv, AnswerInv
  <2>2. \A types : Alive => NoneQueued(types)'
    BY <2>1 DEF NoneQueued
  <2> QED
    BY <1>15, <2>1, <2>2 DEF UsersReturn, SessionsReturn, Returns, AnswersInv, AnswerInv
<1>16. CASE InitFails
  BY <1>16 DEF InitFails
<1>17. CASE GreeterScans \/ InitScanned
  BY <1>17 DEF GreeterScans, InitScanned
<1>18. CASE LoginFails \/ PowerReturns \/ PollTimesOut \/ DialFails
  BY <1>18, QuietNoneQueued DEF LoginFails, PowerReturns, Returns, PollTimesOut,
     TimesOut, DialFails, ConnectFails
<1>19. CASE LoginSucceeds \/ GreeterEnds
  BY <1>19 DEF LoginSucceeds, Returns, GreeterEnds
<1>20. CASE UserSteps
  <2>1. /\ gpc = "ready" /\ gpc' \in {"login", "power"}
        /\ UNCHANGED <<daemon, lists, source, backlog, client>>
    BY <1>20 DEF UserSteps, AttemptLogin, PressPower, Begin
  <2> QED
    BY <2>1, QuietNoneQueued
<1>22. CASE Dials
  <2>1. /\ gpc = CallerAt[AskOf(asked).type] /\ UNCHANGED <<daemon, greeter>>
    BY <1>22 DEF Dials, Connect
  <2>2. /\ gpc # "users" => AskOf(asked).type \notin {"get_users"}
        /\ gpc # "sessions" => AskOf(asked).type \notin {"get_sessions"}
    BY <2>1 DEF CallerAt
  <2> QED
    BY <1>22, <2>1, <2>2, DialNoneQueued
<1>21. CASE Edit \/ Bus \/ UNCHANGED vars
  BY <1>21, QuietNoneQueued DEF Edit, Bus, vars
<1> QED
  BY <1>1, <1>2, <1>3, <1>4, <1>5, <1>6, <1>7, <1>8, <1>9, <1>10, <1>11, <1>12, <1>13,
     <1>14, <1>15, <1>16, <1>17, <1>18, <1>19, <1>20, <1>21, <1>22
     DEF Next, DaemonSteps, GreeterSteps

LEMMA AgreeCorrect == Spec => []AgreeInv
BY AgreeInit, AgreeStep, AnswersCorrect, ControlCorrect, PTL DEF Spec

-----------------------------------------------------------------------------
(***************************************************************************)
(* A login chosen from the daemon's lists is good for as long as it is     *)
(* under way, whoever has given it up: what was chosen lies in the cache,  *)
(* and no request that could change the cache is ahead of it.              *)
(***************************************************************************)
Gets == {"get_users", "get_sessions"}

Sound(e) ==
    /\ AskOf(e).type = "login"
    /\ AskOf(e).username = e.choice.user.username
    /\ AskOf(e).session_exec = e.choice.desktop.exec
    /\ AskOf(e).desktop_name = e.choice.desktop.id
    /\ e.choice.user \in m_cached_users
    /\ \E i \in DOMAIN m_cached_sessions :
          /\ e.choice.desktop = m_cached_sessions[i]
          /\ e.choice.upto = {m_cached_sessions[k] : k \in 1 .. i}

ClearAhead(n) ==
    /\ dpc \in Working => Request.type \notin Gets
    /\ \A i \in DOMAIN backlog : i < n => AskOf(backlog[i]).type \notin Gets

Good(e, n) == e.choice # NoChoice => Sound(e) /\ ClearAhead(n)

QueueInv ==
    Alive =>
        /\ client # NoLine /\ client.choice # NoChoice => Sound(client)
        /\ \A j \in DOMAIN backlog : Good(backlog[j], j)
        /\ call = "connecting" => Good(asked, Len(backlog) + 1)

LEMMA QueueInit == Init => QueueInv
BY DEF Init, QueueInv, Alive

\* Nothing happens to the cache or to what is under way.
LEMMA QuietQueue ==
    ASSUME QueueInv, UNCHANGED <<caches, backlog, client>>,
           dpc' \in Working => dpc \in Working,
           dpc' \notin {"down", "init"} => dpc \notin {"down", "init"},
           \/ call' # "connecting"
           \/ call = "connecting" /\ asked' = asked
           \/ asked'.choice = NoChoice
    PROVE  QueueInv'
<1>1. \A e : Sound(e)' <=> Sound(e)
  BY DEF Sound, AskOf, caches
<1>2. \A n : ClearAhead(n) => ClearAhead(n)'
  BY DEF ClearAhead, Request, AskOf
<1>3. \A e, n : Good(e, n) => Good(e, n)'
  BY <1>1, <1>2 DEF Good
<1>4. CASE Alive'
  <2>1. Alive
    BY <1>4 DEF Alive
  <2>2. client' # NoLine /\ client'.choice # NoChoice => Sound(client)'
    BY <2>1 DEF QueueInv, Sound, AskOf, caches
  <2>3. \A j \in DOMAIN backlog' : Good(backlog[j], j)'
    BY <1>3, <2>1 DEF QueueInv, Good, Sound, AskOf, caches, ClearAhead, Request
  <2>4. call' = "connecting" => Good(asked, Len(backlog) + 1)'
    <3>1. CASE call = "connecting" /\ asked' = asked
      BY <1>3, <2>1, <3>1 DEF QueueInv
    <3>2. CASE asked'.choice = NoChoice
      BY <3>2 DEF Good
    <3> QED
      BY <3>1, <3>2
  <2> QED
    BY <2>2, <2>3, <2>4 DEF QueueInv
<1> QED
  BY <1>4 DEF QueueInv

\* A request that changes the cache has no such login behind it, nor is it one.
LEMMA NoneBehindGets ==
    ASSUME QueueInv, Alive, dpc \in Working, Request.type \in Gets
    PROVE  /\ client # NoLine => client.choice = NoChoice
           /\ \A j \in DOMAIN backlog : backlog[j].choice = NoChoice
           /\ call = "connecting" => asked.choice = NoChoice
BY DEF QueueInv, Good, Sound, ClearAhead, Gets, Request, AskOf

LEMMA NoChoices ==
    ASSUME client' # NoLine => client'.choice = NoChoice,
           \A j \in DOMAIN backlog' : backlog'[j].choice = NoChoice,
           call' = "connecting" => asked'.choice = NoChoice
    PROVE  QueueInv'
BY DEF QueueInv, Good

\* accept(): what was ahead of the first of the backlog was ahead of all.
LEMMA AcceptQueue ==
    ASSUME ControlInv, QueueInv, Accept
    PROVE  QueueInv'
<1>1. /\ Alive /\ UNCHANGED <<m_cached_users, m_cached_sessions, call, asked>>
      /\ dpc = "poll" /\ dpc' = "serve"
  BY DEF Accept, AcceptNext, Goto, Alive, caches
<1>2. Request' = AskOf(backlog[1])
  BY AcceptShifts DEF Request, AskOf
<1>3. ASSUME NEW n \in Nat \ {0}, ClearAhead(n + 1)
      PROVE  ClearAhead(n)'
  <2>1. Request'.type \notin Gets
    BY <1>2, <1>3, AcceptShifts DEF ClearAhead
  <2>2. ASSUME NEW i \in DOMAIN backlog', i < n
        PROVE  AskOf(backlog'[i]).type \notin Gets
    <3>1. i + 1 \in DOMAIN backlog /\ i + 1 < n + 1 /\ backlog'[i] = backlog[i + 1]
      BY <2>2, AcceptShifts
    <3> QED
      BY <1>3, <3>1 DEF ClearAhead
  <2> QED
    BY <2>1, <2>2 DEF ClearAhead, AskOf
<1>4. client'.choice # NoChoice => Sound(client)'
  <2>1. client' = backlog[1] /\ Good(backlog[1], 1)
    BY <1>1, AcceptShifts DEF QueueInv
  <2> QED
    BY <1>1, <2>1 DEF Good, Sound, AskOf
<1>5. ASSUME NEW j \in DOMAIN backlog'
      PROVE  Good(backlog[j], j)'
  <2>1. /\ backlog'[j] = backlog[j + 1] /\ Good(backlog[j + 1], j + 1)
        /\ j \in Nat \ {0}
    BY <1>1, AcceptShifts DEF QueueInv
  <2>2. ClearAhead(j + 1) => ClearAhead(j)'
    BY <1>3, <2>1
  <2> QED
    BY <1>1, <2>1, <2>2 DEF Good, Sound, AskOf
<1>6. call' = "connecting" => Good(asked, Len(backlog) + 1)'
  <2>1. /\ call' = "connecting" => Good(asked, Len(backlog) + 1)
        /\ Len(backlog') + 1 = Len(backlog) /\ Len(backlog) \in Nat \ {0}
    BY <1>1, AcceptShifts DEF QueueInv
  <2>2. ClearAhead(Len(backlog) + 1) => ClearAhead(Len(backlog) + 1)'
    BY <2>1, <1>2, AcceptShifts DEF ClearAhead, AskOf
  <2> QED
    BY <1>1, <2>1, <2>2 DEF Good, Sound, AskOf
<1> QED
  BY <1>4, <1>5, <1>6 DEF QueueInv

\* connect() puts the login behind what was ahead of it.
LEMMA DialQueue ==
    ASSUME ControlInv, QueueInv, Dials
    PROVE  QueueInv'
<1>1. /\ backlog \in Seq(Entries) /\ backlog' = Append(backlog, asked)
      /\ asked \in Entries
  BY ConnectTypes DEF Dials, ControlInv, AskedInv, TypeOK
<1>2. /\ DOMAIN backlog' = 1..(Len(backlog) + 1) /\ Len(backlog) \in Nat
      /\ \A i \in 1..Len(backlog) : backlog'[i] = backlog[i]
      /\ backlog'[Len(backlog) + 1] = asked
      /\ DOMAIN backlog = 1..Len(backlog)
  BY <1>1
<1>3. /\ UNCHANGED <<dpc, client, m_cached_users, m_cached_sessions>>
      /\ call = "connecting" /\ call' = "waiting"
  BY DEF Dials, Connect, daemon
<1>4. ASSUME NEW n \in 1..(Len(backlog) + 1), ClearAhead(n)
      PROVE  ClearAhead(n)'
  BY <1>2, <1>3, <1>4 DEF ClearAhead, Request, AskOf
<1>5. ASSUME Alive, NEW j \in DOMAIN backlog'
      PROVE  Good(backlog[j], j)'
  <2>1. /\ j \in 1..(Len(backlog) + 1)
        /\ ClearAhead(j) => ClearAhead(j)'
    BY <1>2, <1>4
  <2>2. Good(backlog'[j], j)
    BY <1>2, <1>3, <1>5 DEF QueueInv
  <2> QED
    BY <1>3, <2>1, <2>2 DEF Good, Sound, AskOf
<1>6. ASSUME Alive
      PROVE  client' # NoLine /\ client'.choice # NoChoice => Sound(client)'
  BY <1>3, <1>6 DEF QueueInv, Sound, AskOf
<1>7. Alive' <=> Alive
  BY <1>3 DEF Alive
<1> QED
  BY <1>3, <1>5, <1>6, <1>7 DEF QueueInv

\* A login is chosen from lists that agree, when no request for one is left.
LEMMA ChooseQueue ==
    ASSUME ControlInv, AgreeInv, QueueInv,
           NEW u \in m_users, NEW i \in DOMAIN m_sessions, AttemptLogin(u, i)
    PROVE  QueueInv'
<1> DEFINE m == Login(u.username, m_sessions[i].exec, m_sessions[i].id)
<1>1. /\ asked' = Entry(m, ChoiceOf(u, i)) /\ gpc = "ready"
      /\ UNCHANGED <<backlog, client, dpc, m_cached_users, m_cached_sessions>>
  BY DEF AttemptLogin, Begin, daemon
<1>2. m \in Requests /\ ChoiceOf(u, i) \in Choices \cup {NoChoice}
  BY LoginEntry DEF ControlInv
<1>3. asked'.choice = ChoiceOf(u, i) /\ AskOf(asked)' = m
  BY <1>1, <1>2, NewEntry DEF AskOf
<1>4. /\ m.type = "login" /\ m.username = u.username
      /\ m.session_exec = m_sessions[i].exec /\ m.desktop_name = m_sessions[i].id
  <2>1. u \in UserInfo /\ m_sessions[i] \in SessionInfo
    BY LoginEntry DEF ControlInv
  <2> QED
    BY <2>1, LoginIsRequest DEF UserInfo, SessionInfo
<1> HIDE DEF m
<1>5. CASE source # "daemon" \/ ~Alive
  <2>1. CASE source # "daemon"
    <3>1. asked'.choice = NoChoice
      BY <1>3, <2>1 DEF ChoiceOf
    <3> QED
      BY <1>1, <3>1, QuietQueue DEF caches
  <2>2. CASE ~Alive
    BY <1>1, <2>2 DEF QueueInv, Alive
  <2> QED
    BY <1>5, <2>1, <2>2
<1>6. CASE source = "daemon" /\ Alive
  <2>1. /\ m_cached_users = m_users /\ m_cached_sessions = m_sessions
        /\ NoneQueued({"get_users"}) /\ NoneQueued({"get_sessions"})
    BY <1>1, <1>6 DEF AgreeInv
  <2>2. \A n : ClearAhead(n)'
    BY <1>1, <2>1 DEF NoneQueued, ClearAhead, Gets, Request, AskOf
  <2>3. /\ asked'.choice.user = u /\ asked'.choice.desktop = m_sessions[i]
        /\ asked'.choice.upto = {m_sessions[k] : k \in 1 .. i}
    BY <1>3, <1>6 DEF ChoiceOf
  <2>4. Sound(asked)'
    BY <1>1, <1>3, <1>4, <2>1, <2>3 DEF Sound
  <2>5. \A j \in DOMAIN backlog' : Good(backlog[j], j)'
    BY <1>1, <1>6, <2>2 DEF QueueInv, Good, Sound, AskOf
  <2>6. client' # NoLine /\ client'.choice # NoChoice => Sound(client)'
    BY <1>1, <1>6 DEF QueueInv, Sound, AskOf
  <2> QED
    BY <2>2, <2>4, <2>5, <2>6 DEF QueueInv, Good
<1> QED
  BY <1>5, <1>6

LEMMA QueueStep ==
    ASSUME ControlInv, AgreeInv, QueueInv, [Next]_vars
    PROVE  QueueInv'
<1> USE DEF caches, daemon, socket, greeter, Goto
<1>1. CASE Killed \/ Start
  BY <1>1 DEF Killed, Start, QueueInv, Alive
<1>2. CASE InitDone
  <2>1. client' = NoLine /\ backlog' = <<>> /\ call' = "none"
    BY <1>2 DEF InitDone, NewSocket, HangUp, ControlInv, Held, HoldsClient
  <2> QED
    BY <2>1, NoChoices
<1>3. CASE Accept
  BY <1>3, AcceptQueue
<1>4. CASE DaemonScans \/ PollIdle \/ Check \/ Launch \/ Answer
  BY <1>4, QuietQueue DEF DaemonScans, PollIdle, Check, Launch, Answer, Write, Working
<1>5. CASE ServeUsers
  <2>1. dpc = "serve" /\ Request.type = "get_users"
           /\ UNCHANGED <<backlog, client, call, asked>>
    BY <1>5 DEF ServeUsers, Serves
  <2> QED
    BY <2>1, NoneBehindGets, NoChoices DEF Working, Gets, Alive
<1>6. CASE SessionsScanned
  <2>1. dpc = "scan" /\ Request.type = "get_sessions"
           /\ UNCHANGED <<backlog, client, call, asked>>
    BY <1>6 DEF SessionsScanned, ControlInv, PlaceInv
  <2> QED
    BY <2>1, NoneBehindGets, NoChoices DEF Working, Gets, Alive
<1>7. CASE ServeSessions \/ ServePower \/ ServeLogin
  BY <1>7, QuietQueue DEF ServeSessions, ServePower, ServeLogin, Serves, Working
<1>8. CASE Close \/ Logout
  <2>1. /\ client' = NoLine /\ UNCHANGED <<backlog, call, asked>>
        /\ UNCHANGED <<m_cached_users, m_cached_sessions>>
        /\ dpc' = "check" /\ dpc \in {"close", "session"}
    BY <1>8 DEF Close, Logout, CloseClient
  <2>2. \A n : ClearAhead(n) => ClearAhead(n)'
    BY <2>1 DEF ClearAhead, Working, AskOf
  <2>3. \A j \in DOMAIN backlog' : Good(backlog[j], j)'
    BY <2>1, <2>2 DEF QueueInv, Alive, Good, Sound, AskOf
  <2>4. call' = "connecting" => Good(asked, Len(backlog) + 1)'
    BY <2>1, <2>2 DEF QueueInv, Alive, Good, Sound, AskOf
  <2> QED
    BY <2>1, <2>3, <2>4 DEF QueueInv
<1>9. CASE AskUsers \/ AskSessions
  <2>1. PICK type \in {"get_users", "get_sessions"} :
           Begin(Entry(Ask(type), NoChoice)) /\ UNCHANGED daemon
    BY <1>9 DEF AskUsers, AskSessions, Asks
  <2>2. asked'.choice = NoChoice
    BY <2>1 DEF Begin, Entry
  <2> QED
    BY <2>1, <2>2, QuietQueue DEF Begin
<1>10. CASE Dials
  BY <1>10, DialQueue
<1>11. ASSUME NEW u \in m_users, NEW i \in DOMAIN m_sessions, AttemptLogin(u, i)
       PROVE  QueueInv'
  BY <1>11, ChooseQueue
<1>12. ASSUME NEW a \in PowerActions, PressPower(a)
       PROVE  QueueInv'
  <2>1. asked'.choice = NoChoice /\ UNCHANGED <<daemon, backlog, client>>
    BY <1>12 DEF PressPower, Begin, Entry
  <2> QED
    BY <2>1, QuietQueue
<1>13. CASE UsersReturn \/ SessionsReturn \/ InitFails \/ LoginSucceeds \/ LoginFails
              \/ PowerReturns \/ GreeterEnds
  <2>1. call' = "none" /\ UNCHANGED <<daemon, backlog, client>>
    BY <1>13 DEF UsersReturn, SessionsReturn, InitFails, LoginSucceeds, LoginFails,
       PowerReturns, GreeterEnds, Returns, HangUp
  <2> QED
    BY <2>1, QuietQueue
<1>14. CASE DialFails \/ PollTimesOut
  BY <1>14, QuietQueue DEF DialFails, ConnectFails, PollTimesOut, TimesOut
<1>15. CASE GreeterScans \/ InitScanned \/ Edit \/ Bus \/ UNCHANGED vars
  <2>1. UNCHANGED <<daemon, socket>>
    BY <1>15 DEF GreeterScans, InitScanned, Edit, Bus, vars
  <2>2. call' = call /\ asked' = asked /\ UNCHANGED <<caches, backlog, client, dpc>>
    BY <2>1
  <2>3. QueueInv' <=> QueueInv
    BY <2>2 DEF QueueInv, Good, Sound, ClearAhead, Alive, Request, AskOf
  <2> QED
    BY <2>3
<1> QED
  BY <1>1, <1>2, <1>3, <1>4, <1>5, <1>6, <1>7, <1>8, <1>9, <1>10, <1>11, <1>12, <1>13,
     <1>14, <1>15 DEF Next, DaemonSteps, GreeterSteps, UserSteps

LEMMA QueueCorrect == Spec => []QueueInv
BY QueueInit, QueueStep, AgreeCorrect, ControlCorrect, PTL DEF Spec

-----------------------------------------------------------------------------
\* Nobody is listed twice.
NamedOnce(users) == \A u, v \in users : u.username = v.username => u = v

NamesInv == NamedOnce(accounts) /\ NamedOnce(m_cached_users)

LEMMA ScannedOnce == NamedOnce(accounts) => NamedOnce(ScanUsers(0))
BY DEF NamedOnce, ScanUsers

LEMMA NamesStep ==
    ASSUME NamesInv, [Next]_vars
    PROVE  NamesInv'
<1>1. CASE Edit
  BY <1>1, WorldsAssumption DEF Edit, NamesInv, NamedOnce, daemon
<1>2. CASE Start \/ ServeUsers
  <2>1. m_cached_users' = ScanUsers(0) /\ accounts' = accounts
    BY <1>2 DEF Start, ServeUsers, Serves, world
  <2>2. NamedOnce(ScanUsers(0))
    BY ScannedOnce DEF NamesInv
  <2> QED
    BY <2>1, <2>2 DEF NamesInv, NamedOnce
<1>3. CASE ~Edit /\ ~Start /\ ~ServeUsers
  <2>1. accounts' = accounts /\ m_cached_users' \in {m_cached_users, {}}
    BY <1>3 DEF Next, DaemonSteps, GreeterSteps, UserSteps, Killed, DaemonScans,
       InitDone, Accept, PollIdle, Check, Serves, ServeSessions, SessionsScanned,
       ServePower, ServeLogin, Answer, Close, Launch, Logout, Dials, DialFails, Asks,
       AskUsers, AskSessions, Returns, UsersReturn, SessionsReturn, InitFails,
       GreeterScans, InitScanned, AttemptLogin, PressPower, LoginSucceeds, LoginFails,
       PowerReturns, PollTimesOut, GreeterEnds, Bus, vars, world, daemon, caches
  <2> QED
    BY <2>1 DEF NamesInv, NamedOnce
<1> QED
  BY <1>1, <1>2, <1>3

LEMMA NamesCorrect == Spec => []NamesInv
<1>1. Init => NamesInv
  BY WorldsAssumption DEF Init, NamesInv, NamedOnce
<1> QED
  BY <1>1, NamesStep, PTL DEF Spec

LEMMA UserIsFound ==
    ASSUME NEW users, NamedOnce(users), NEW u \in users
    PROVE  FindUser(users, u.username) = u
BY DEF FindUser, NamedOnce

\* The lookup of a session that was chosen from the list it looks in.
LEMMA ChoiceIsFound ==
    ASSUME NEW list \in Seq(SessionInfo), Distinct(list), NEW i \in DOMAIN list
    PROVE  \E k \in 1..i :
              /\ FindSession(list, list[i].id, list[i].exec) = list[k]
              /\ list[k].exec = list[i].exec \/ list[k].name = list[i].id
<1> DEFINE d == list[i].id
           e == list[i].exec
<1>1. i \in 1..Len(list) /\ DOMAIN list = 1..Len(list) /\ list[i] \in SessionInfo
  OBVIOUS
<1>2. d \in Texts /\ e \in Texts /\ Matches(list[i], d, e)
  BY <1>1 DEF SessionInfo, Matches
<1> HIDE DEF d, e
<1>3. PICK k \in 1..i : FindSession(list, d, e) = list[k] /\ Matches(list[k], d, e)
  BY <1>1, <1>2, FirstMatch
<1>4. k \in DOMAIN list
  BY <1>1
<1>5. list[k].id = d => k = i
  BY <1>4 DEF d, Distinct
<1> QED
  BY <1>3, <1>5 DEF Matches, d, e

(***************************************************************************)
(* ServedChoiceRuns: the request is looked up in the lists it was chosen   *)
(* from, where the user has the only record of that name and the first     *)
(* match, no later than the choice, has its id, and is then the choice     *)
(* itself, or its command, or is named like its id.                        *)
(***************************************************************************)
THEOREM ServedChoiceRunsCorrect == Spec => ServedChoiceRuns
<1> DEFINE Launches == dpc = "stopping" /\ dpc' = "session" /\ client.choice # NoChoice
           Chosen == Launches => ChoiceRuns(client.choice)
           AllInv == ControlInv /\ DistinctInv /\ QueueInv /\ NamesInv
<1>1. ASSUME AllInv, Next, Launches
      PROVE  Launch
  <2> USE DEF daemon, Goto
  <2>1. CASE Start \/ DaemonScans \/ InitDone \/ Accept \/ PollIdle \/ Check
    BY <1>1, <2>1 DEF Start, DaemonScans, InitDone, Accept, PollIdle, Check
  <2>2. CASE ServeUsers \/ ServeSessions \/ SessionsScanned \/ ServePower \/ ServeLogin
    BY <1>1, <2>2 DEF ServeUsers, ServeSessions, SessionsScanned, ServePower,
       ServeLogin, Serves
  <2>3. CASE Answer \/ Close \/ Logout \/ Killed
    BY <1>1, <2>3 DEF Answer, Close, Logout, Killed
  <2>4. CASE GreeterSide
    <3>1. UNCHANGED daemon
      BY <2>4, GreeterLeavesDaemon
    <3> QED
      BY <1>1, <3>1
  <2> QED
    BY <1>1, <2>1, <2>2, <2>3, <2>4, Sides DEF DaemonSide, DaemonSteps
<1>2. ASSUME AllInv, Next, Launches
      PROVE  ChoiceRuns(client.choice)
  <2> DEFINE choice == client.choice
             sessions == m_cached_sessions
  <2>1. Launch /\ Sound(client) /\ AskOf(client) = Request
    BY <1>1, <1>2 DEF QueueInv, Alive, ControlInv, Held, HoldsClient, AskOf, Request
  <2>2. /\ Request.username = choice.user.username
        /\ Request.session_exec = choice.desktop.exec
        /\ Request.desktop_name = choice.desktop.id
        /\ choice.user \in m_cached_users
    BY <2>1 DEF Sound
  <2>3. PICK i \in DOMAIN sessions :
           /\ choice.desktop = sessions[i]
           /\ choice.upto = {sessions[k] : k \in 1 .. i}
    BY <2>1 DEF Sound
  <2>4. session'.user = FindUser(m_cached_users, choice.user.username)
           /\ session'.desktop = FindSession(sessions, sessions[i].id, sessions[i].exec)
    BY <2>1, <2>2, <2>3 DEF Launch
  <2>5. sessions \in Seq(SessionInfo) /\ Distinct(sessions)
    BY <1>2 DEF ControlInv, TypeOK, DistinctInv, ListsDistinct
  <2>6. PICK k \in 1..i :
           /\ FindSession(sessions, sessions[i].id, sessions[i].exec) = sessions[k]
           /\ sessions[k].exec = sessions[i].exec \/ sessions[k].name = sessions[i].id
    BY <2>5, ChoiceIsFound
  <2>7. session'.user = choice.user
    BY <1>2, <2>2, <2>4, UserIsFound DEF NamesInv
  <2>8. session'.desktop \in choice.upto
    BY <2>3, <2>4, <2>6
  <2>9. \/ session'.desktop.exec = choice.desktop.exec
        \/ session'.desktop.name = choice.desktop.id
    BY <2>3, <2>4, <2>6
  <2> QED
    BY <2>7, <2>8, <2>9 DEF ChoiceRuns
<1>3. AllInv /\ [Next]_vars => [Chosen]_vars
  BY <1>2
<1> QED
  BY <1>3, ControlCorrect, DistinctCorrect, QueueCorrect, NamesCorrect, PTL
     DEF Spec, ServedChoiceRuns

-----------------------------------------------------------------------------
(***************************************************************************)
(* While nothing is edited, every list of users is the one a scan gives,   *)
(* and every login is for a user of such a list.                           *)
(***************************************************************************)
Known(name) ==
    \E u \in ScanUsers(0) \cup ScanUsers(GreeterUid) : u.username = name

Pending == {backlog[i] : i \in DOMAIN backlog} \cup {client, asked}

SameWorldInv ==
    edits = 0 =>
        /\ dpc # "down" => m_cached_users = ScanUsers(0)
        /\ m_users \in {{}, ScanUsers(0), ScanUsers(GreeterUid)}
        /\ answer \notin {Nothing, EndOfFile} /\ gpc = "users" =>
               Received(answer).users = ScanUsers(0)

KnownInv ==
    edits = 0 =>
        \A e \in Pending \ {NoLine} :
            AskOf(e).type = "login" => Known(AskOf(e).username)

LEMMA SameWorldInit == Init => SameWorldInv /\ KnownInv
BY DEF Init, SameWorldInv, KnownInv, Pending

\* A scan lists the accounts, and perhaps the user it makes up.
LEMMA ScannedAccounts ==
    ASSUME NEW own, NEW u \in ScanUsers(own), u.username # "user"
    PROVE  /\ \E a \in accounts : a.username = u.username /\ a.uid = u.uid
           /\ \A other : \E v \in ScanUsers(other) : v.username = u.username
<1> DEFINE users == {[username |-> a.username, uid |-> a.uid] :
                        a \in {b \in accounts : Interactive(b)}}
<1>1. u \in users /\ users # {}
  BY DEF ScanUsers
<1>2. \A other : ScanUsers(other) = users
  BY <1>1 DEF ScanUsers
<1> QED
  BY <1>1, <1>2

LEMMA SameWorld ==
    ASSUME [Next]_vars, ~Edit
    PROVE  /\ edits' = edits /\ accounts' = accounts
           /\ ScanUsers(0)' = ScanUsers(0)
           /\ ScanUsers(GreeterUid)' = ScanUsers(GreeterUid)
<1>1. UNCHANGED <<world, edits>>
  BY DEF Next, DaemonSteps, GreeterSteps, UserSteps, Killed, Start,
     DaemonScans, InitDone, Accept, PollIdle, Check, Serves, ServeUsers,
     ServeSessions, SessionsScanned, ServePower, ServeLogin, Answer, Close, Launch,
     Logout, Dials, DialFails, Asks, AskUsers, AskSessions, Returns, UsersReturn,
     SessionsReturn, InitFails, GreeterScans, InitScanned, AttemptLogin, PressPower,
     LoginSucceeds, LoginFails, PowerReturns, PollTimesOut, GreeterEnds, Bus, vars
<1>2. accounts' = accounts /\ edits' = edits
  BY <1>1 DEF world
<1> QED
  BY <1>2 DEF ScanUsers

LEMMA SameWorldStep ==
    ASSUME ControlInv, AnswersInv, SameWorldInv, [Next]_vars
    PROVE  SameWorldInv'
<1>1. CASE Edit
  BY <1>1 DEF Edit, SameWorldInv, ControlInv, TypeOK
<1>2. CASE ~Edit
  <2>3. edits' = edits /\ ScanUsers(0)' = ScanUsers(0)
           /\ ScanUsers(GreeterUid)' = ScanUsers(GreeterUid)
    BY <1>2, SameWorld
  <2> USE <2>3 DEF SameWorldInv, ControlInv, CallInv, PlaceInv, Goto, socket, caches,
          daemon, lists, greeter
  <2>4. CASE Killed
    BY <2>4 DEF Killed, CloseClient
  <2>5. CASE Start \/ DaemonScans \/ PollIdle
    BY <2>5 DEF Start, DaemonScans, PollIdle
  <2>6. CASE InitDone \/ Logout
    BY <2>6 DEF InitDone, NewSocket, HangUp, Logout, StartGreeter, CloseClient
  <2>7. CASE Accept
    BY <2>7 DEF Accept, AcceptNext
  <2>8. CASE Check
    BY <2>8 DEF Check, StartGreeter
  <2>9. CASE ServeUsers \/ ServeSessions \/ ServePower \/ ServeLogin \/ SessionsScanned
    BY <2>9 DEF ServeUsers, ServeSessions, ServePower, ServeLogin, Serves,
       SessionsScanned
  <2>10. CASE Answer
    BY <2>10, AnswerIsFor DEF Answer, Write, AnswersInv, ResultInv
  <2>11. CASE Close \/ Launch
    BY <2>11 DEF Close, CloseClient, Launch
  <2>12. CASE AskUsers \/ AskSessions \/ UserSteps
    BY <2>12 DEF AskUsers, AskSessions, Asks, UserSteps, AttemptLogin, PressPower, Begin
  <2>13. CASE UsersReturn
    BY <2>13 DEF UsersReturn, Returns, HangUp, HasReply, Granted
  <2>14. CASE SessionsReturn \/ InitFails \/ LoginSucceeds \/ LoginFails \/ PowerReturns
               \/ GreeterEnds
    BY <2>14 DEF SessionsReturn, InitFails, LoginSucceeds, LoginFails, PowerReturns,
       GreeterEnds, Returns, HangUp
  <2>15. CASE GreeterScans \/ InitScanned
    BY <2>15 DEF GreeterScans, InitScanned
  <2>17. CASE Dials \/ DialFails \/ PollTimesOut
    BY <2>17 DEF Dials, Connect, DialFails, ConnectFails, PollTimesOut, TimesOut
  <2>16. CASE Bus \/ UNCHANGED vars
    BY <2>16 DEF Bus, vars
  <2> QED
    BY <1>2, <2>4, <2>5, <2>6, <2>7, <2>8, <2>9, <2>10, <2>11, <2>12, <2>13, <2>14,
       <2>15, <2>16, <2>17 DEF Next, DaemonSteps, GreeterSteps
<1> QED
  BY <1>1, <1>2

\* Only the start of a call puts something new under way.
LEMMA PendingGrows ==
    ASSUME ControlInv, [Next]_vars
    PROVE  \/ Pending' \subseteq Pending \cup {NoLine}
           \/ /\ Pending' \subseteq Pending \cup {asked'} /\ gpc = "ready"
              /\ \E u \in m_users, i \in DOMAIN m_sessions : AttemptLogin(u, i)
           \/ /\ Pending' \subseteq Pending \cup {asked'}
              /\ AskOf(asked)'.type # "login"
<1> USE DEF socket, daemon
<1>1. CASE UserSteps \/ AskUsers \/ AskSessions
  <2>1. PICK e : Begin(e)
    BY <1>1 DEF UserSteps, AttemptLogin, PressPower, AskUsers, AskSessions, Asks
  <2>2. Pending' \subseteq Pending \cup {asked'}
    <3>1. UNCHANGED <<backlog, client>>
      BY <2>1 DEF Begin
    <3> QED
      BY <3>1 DEF Pending
  <2>3. CASE \E u \in m_users, i \in DOMAIN m_sessions : AttemptLogin(u, i)
    BY <2>2, <2>3 DEF AttemptLogin
  <2>4. ASSUME NEW a \in PowerActions, PressPower(a)
        PROVE  AskOf(asked)'.type # "login"
    <3>1. asked' = Entry(Power(a), NoChoice)
      BY <2>4 DEF PressPower, Begin
    <3> QED
      BY <3>1, PowerIsRequest, NewEntry DEF AskOf
  <2>5. CASE AskUsers \/ AskSessions
    <3>1. PICK type \in {"get_users", "get_sessions"} : asked' = Entry(Ask(type), NoChoice)
      BY <2>5 DEF AskUsers, AskSessions, Asks, Begin
    <3>2. AskOf(asked)' = Ask(type) /\ Ask(type).type = type
      BY <3>1, AskIsRequest, NewEntry DEF AskOf
    <3>3. AskOf(asked)'.type # "login"
      BY <3>2
    <3> QED
      BY <2>2, <3>3
  <2> QED
    BY <1>1, <2>2, <2>3, <2>4, <2>5 DEF UserSteps
<1>2. CASE Accept
  <2>1. \A i \in DOMAIN backlog' : \E j \in DOMAIN backlog : backlog'[i] = backlog[j]
    BY <1>2, AcceptShifts
  <2>2. client' = backlog[1] /\ 1 \in DOMAIN backlog /\ asked' = asked
    BY <1>2, AcceptShifts DEF Accept, AcceptNext
  <2> QED
    BY <2>1, <2>2 DEF Pending
<1>3. CASE Dials
  <2>1. backlog \in Seq(Entries) /\ backlog' = Append(backlog, asked) /\ asked \in Entries
    BY <1>3, ConnectTypes DEF Dials, ControlInv, AskedInv, TypeOK
  <2>2. \A i \in DOMAIN backlog' :
           backlog'[i] = asked \/ \E j \in DOMAIN backlog : backlog'[i] = backlog[j]
    BY <2>1
  <2>3. client' = client /\ asked' = NoLine
    BY <1>3 DEF Dials, Connect
  <2> QED
    BY <2>2, <2>3 DEF Pending
<1>4. CASE InitDone
  <2>1. client' = client /\ asked' = NoLine /\ backlog' = <<>>
    BY <1>4 DEF InitDone, NewSocket, HangUp
  <2> QED
    BY <2>1 DEF Pending
<1>5. ASSUME UNCHANGED backlog, client' \in {client, NoLine}, asked' \in {asked, NoLine}
      PROVE  Pending' \subseteq Pending \cup {NoLine}
  BY <1>5 DEF Pending
<1>6. CASE Killed \/ Start \/ DaemonScans \/ PollIdle \/ Check \/ ServeUsers
             \/ ServeSessions \/ SessionsScanned \/ ServePower \/ ServeLogin \/ Answer
             \/ Close \/ Launch \/ Logout
  BY <1>5, <1>6 DEF Killed, Start, DaemonScans, PollIdle, Check, Serves, ServeUsers,
     ServeSessions, SessionsScanned, ServePower, ServeLogin, Answer, Write, Close,
     Launch, Logout, CloseClient
<1>7. CASE UsersReturn \/ SessionsReturn \/ InitFails \/ GreeterScans \/ InitScanned
             \/ LoginSucceeds \/ LoginFails \/ PowerReturns \/ PollTimesOut \/ DialFails
             \/ GreeterEnds \/ Edit \/ Bus \/ UNCHANGED vars
  BY <1>5, <1>7 DEF UsersReturn, SessionsReturn, InitFails, Returns, HangUp,
     GreeterScans, InitScanned, LoginSucceeds, LoginFails, PowerReturns, PollTimesOut,
     TimesOut, DialFails, ConnectFails, GreeterEnds, Edit, Bus, vars
<1> QED
  BY <1>1, <1>2, <1>3, <1>4, <1>6, <1>7 DEF Next, DaemonSteps, GreeterSteps

LEMMA KnownStep ==
    ASSUME ControlInv, SameWorldInv, KnownInv, [Next]_vars
    PROVE  KnownInv'
<1>1. CASE Edit
  BY <1>1 DEF Edit, KnownInv, ControlInv, TypeOK
<1>2. CASE ~Edit /\ edits = 0
  <2>1. edits' = edits /\ \A name : Known(name)' <=> Known(name)
    BY <1>2, SameWorld DEF Known
  <2>2. ASSUME NEW u \in m_users, NEW i \in DOMAIN m_sessions, AttemptLogin(u, i)
        PROVE  Known(AskOf(asked)'.username)
    <3>1. asked' = Entry(Login(u.username, m_sessions[i].exec, m_sessions[i].id),
                         ChoiceOf(u, i))
      BY <2>2 DEF AttemptLogin, Begin
    <3>2. AskOf(asked)' = Login(u.username, m_sessions[i].exec, m_sessions[i].id)
      BY <3>1, LoginEntry, NewEntry DEF AskOf, ControlInv
    <3>3. AskOf(asked)'.username = u.username
      <4>1. u \in UserInfo /\ m_sessions[i] \in SessionInfo
        BY LoginEntry DEF ControlInv
      <4> QED
        BY <3>2, <4>1, LoginIsRequest DEF UserInfo, SessionInfo
    <3>4. m_users \in {ScanUsers(0), ScanUsers(GreeterUid)}
      BY <1>2, <2>2 DEF SameWorldInv
    <3> QED
      BY <3>3, <3>4 DEF Known
  <2>3. ASSUME NEW e \in Pending' \ {NoLine}, AskOf(e).type = "login"
        PROVE  Known(AskOf(e).username)
    <3>1. CASE e \in Pending
      BY <1>2, <2>3, <3>1 DEF KnownInv
    <3>2. CASE e \notin Pending
      <4>1. e = asked' /\ AskOf(e) = AskOf(asked)'
        BY <2>3, <3>2, PendingGrows DEF AskOf
      <4> QED
        BY <2>2, <2>3, <3>2, <4>1, PendingGrows
    <3> QED
      BY <3>1, <3>2
  <2> QED
    BY <2>1, <2>3 DEF KnownInv, AskOf
<1>3. CASE ~Edit /\ edits # 0
  BY <1>3, SameWorld DEF KnownInv
<1> QED
  BY <1>1, <1>2, <1>3

LEMMA SameWorldCorrect == Spec => [](SameWorldInv /\ KnownInv)
BY SameWorldInit, SameWorldStep, KnownStep, AnswersCorrect, ControlCorrect, PTL DEF Spec

LEMMA RunsAsAccountStep ==
    ASSUME ControlInv, SameWorldInv, KnownInv, SessionRunsAsAccount, [Next]_vars
    PROVE  SessionRunsAsAccount'
<1>1. CASE Launch
  <2> SUFFICES ASSUME edits = 0, session'.user.username # "user"
               PROVE  \E a \in accounts : /\ a.username = session'.user.username
                                          /\ a.uid = session'.user.uid
    BY <1>1 DEF Launch, SessionRunsAsAccount, world
  <2>1. client # NoLine /\ Request.type = "login" /\ m_cached_users = ScanUsers(0)
    BY <1>1 DEF Launch, Goto, ControlInv, Held, HoldsClient, PlaceInv, SameWorldInv
  <2>2. Known(Request.username)
    BY <2>1 DEF KnownInv, Pending, AskOf, Request
  <2>3. session'.user = FindUser(ScanUsers(0), Request.username)
    BY <1>1, <2>1 DEF Launch
  <2>4. session'.user.username = Request.username
    BY <2>3 DEF FindUser
  <2>5. PICK v \in ScanUsers(0) : v.username = Request.username
    BY <2>2, <2>4, ScannedAccounts DEF Known
  <2>6. session'.user \in ScanUsers(0)
    BY <2>3, <2>5 DEF FindUser
  <2> QED
    BY <2>6, ScannedAccounts
<1>2. CASE ~Launch
  <2>1. \/ session' = NoSession
        \/ edits' # 0
        \/ UNCHANGED <<session, edits, accounts>>
    BY <1>2 DEF Next, DaemonSteps, GreeterSteps, UserSteps, Killed, Start,
       DaemonScans, InitDone, Accept, PollIdle, Check, Serves, ServeUsers,
       ServeSessions, SessionsScanned, ServePower, ServeLogin, Answer, Close, Logout,
       Dials, DialFails, Asks, AskUsers, AskSessions, Returns, UsersReturn,
       SessionsReturn, InitFails, GreeterScans, InitScanned, AttemptLogin, PressPower,
       LoginSucceeds, LoginFails, PowerReturns, PollTimesOut, GreeterEnds, Bus, Edit,
       vars, daemon, world, ControlInv, TypeOK
  <2> QED
    BY <2>1 DEF SessionRunsAsAccount
<1> QED
  BY <1>1, <1>2

(***************************************************************************)
(* SessionRunsAsAccount: the user of a login, however old, is in the       *)
(* daemon's cache, or is the one a scan makes up.                          *)
(***************************************************************************)
THEOREM SessionRunsAsAccountCorrect == Spec => []SessionRunsAsAccount
<1>1. Init => SessionRunsAsAccount
  BY DEF Init, SessionRunsAsAccount
<1> QED
  BY <1>1, RunsAsAccountStep, ControlCorrect, SameWorldCorrect, PTL DEF Spec
=============================================================================
