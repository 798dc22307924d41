--------------------------- MODULE GreeterProofs ----------------------------
(***************************************************************************)
(* Theorems about the greeter, its socket and the daemon behind it, for    *)
(* any accounts and desktop files, however often they change, any length   *)
(* of the backlog and any power buttons.  First what the operators on      *)
(* messages and lists return, then the types, then GreeterInv, which says  *)
(* what every point of the two programs may rely on.                       *)
(***************************************************************************)
EXTENDS Greeter, SequenceTheorems, WellFoundedInduction,
        TLAPS

-----------------------------------------------------------------------------
LEMMA FieldNames ==
    \A k : k \in Fields <=> k \in {"type", "success", "username", "session_exec",
                                   "desktop_name", "power_action", "users",
                                   "sessions"}
BY DEF Fields, Blank

\* What serialize() leaves out deserialize() fills in: the two tables agree.
LEMMA MessageSurvives ==
    ASSUME NEW m, m = [k \in Fields |-> m[k]]
    PROVE  Received(Sent(m)) = m
<1>1. DOMAIN Sent(m) = {k \in Fields : k \in DOMAIN Empty => m[k] # Empty[k]}
  BY DEF Sent
<1>2. \A k \in DOMAIN Sent(m) : Sent(m)[k] = m[k]
  BY DEF Sent
<1>3. \A k \in DOMAIN Empty : Empty[k] = Blank[k]
  BY DEF Empty, Blank
<1>4. \A k \in Fields : (IF k \in DOMAIN Sent(m) THEN Sent(m)[k] ELSE Blank[k]) = m[k]
  BY <1>1, <1>2, <1>3
<1> QED
  BY <1>4 DEF Received

LEMMA RequestSurvives ==
    ASSUME NEW m \in Requests
    PROVE  Received(Sent(m)) = m
<1>1. m = [k \in Fields |-> m[k]]
  BY FieldNames DEF Requests, RequestsOf
<1> QED
  BY <1>1, MessageSurvives

LEMMA ResponseSurvives ==
    ASSUME NEW m \in Responses
    PROVE  Received(Sent(m)) = m
<1>1. m = [k \in Fields |-> m[k]]
  BY FieldNames DEF Responses
<1> QED
  BY <1>1, MessageSurvives

\* What is read from an entry of the greeter's, and how one is made.
LEMMA EntryIsRequest ==
    ASSUME NEW e \in Entries
    PROVE  Received(e.line) \in Requests
BY RequestSurvives DEF Lines, Entries

LEMMA NewEntry ==
    ASSUME NEW m \in Requests, NEW c \in Choices \cup {NoChoice}
    PROVE  /\ Entry(m, c) \in Entries /\ Entry(m, c) # NoLine
           /\ Received(Entry(m, c).line) = m
           /\ Entry(m, c).choice = c
BY RequestSurvives, NoLineAssumption DEF Entry, Entries, Lines

LEMMA RequestTypes ==
    ASSUME NEW m \in Requests
    PROVE  m.type \in {"get_users", "get_sessions", "login", "power_action"}
BY DEF Requests, RequestsOf

LEMMA AskIsRequest ==
    ASSUME NEW type \in {"get_users", "get_sessions"}
    PROVE  Ask(type) \in Requests /\ Ask(type).type = type
BY DEF Ask, Requests, RequestsOf, Blank

LEMMA LoginIsRequest ==
    ASSUME NEW u \in Texts, NEW e \in Texts, NEW d \in Texts
    PROVE  /\ Login(u, e, d) \in Requests
           /\ Login(u, e, d).type = "login"
           /\ Login(u, e, d).username = u
           /\ Login(u, e, d).session_exec = e
           /\ Login(u, e, d).desktop_name = d
BY DEF Login, Requests, RequestsOf, Blank

LEMMA PowerIsRequest ==
    ASSUME NEW a \in PowerActions
    PROVE  Power(a) \in Requests /\ Power(a).type = "power_action"
BY DEF Power, Requests, RequestsOf, Blank

\* A power action asked for is one that logind knows.
LEMMA PowerRequest ==
    ASSUME NEW m \in Requests, m.type = "power_action"
    PROVE  m.power_action \in Actions
BY PowerAssumption DEF Requests, RequestsOf

LEMMA NoSessions == <<>> \in Seq(SessionInfo)
OBVIOUS

LEMMA ResponseIs ==
    ASSUME NEW ok \in BOOLEAN
    PROVE  Response(ok) \in Responses /\ Response(ok).sessions = <<>>
<1>1. Response(TRUE) \in Responses /\ Response(TRUE).sessions = <<>>
  BY NoSessions DEF Response, Responses, Blank
<1>2. Response(FALSE) \in Responses /\ Response(FALSE).sessions = <<>>
  BY NoSessions DEF Response, Responses, Blank
<1> QED
  BY <1>1, <1>2

LEMMA UsersAreResponse ==
    ASSUME NEW list \in SUBSET UserInfo
    PROVE  /\ UsersAre(list) \in Responses
           /\ UsersAre(list).users = list
           /\ UsersAre(list).sessions = <<>>
BY NoSessions DEF UsersAre, Response, Responses, Blank

LEMMA SessionsAreResponse ==
    ASSUME NEW list \in Seq(SessionInfo)
    PROVE  SessionsAre(list) \in Responses /\ SessionsAre(list).sessions = list
BY DEF SessionsAre, Response, Responses, Blank

-----------------------------------------------------------------------------
LEMMA ScanUsersType ==
    ASSUME NEW own \in Nat, accounts \subseteq Accounts
    PROVE  ScanUsers(own) \in SUBSET UserInfo
<1> DEFINE Of(a) == [username |-> a.username, uid |-> a.uid]
<1>1. \A a \in accounts : Of(a) \in UserInfo
  BY DEF UserInfo, Accounts
<1>2. [username |-> "user", uid |-> own] \in UserInfo
  BY CatalogAssumption DEF UserInfo
<1>3. {Of(a) : a \in {b \in accounts : Interactive(b)}} \in SUBSET UserInfo
  BY <1>1
<1> QED
  BY <1>2, <1>3 DEF ScanUsers

LEMMA FindUserType ==
    ASSUME NEW users \in SUBSET UserInfo, NEW name \in Texts
    PROVE  FindUser(users, name) \in UserInfo
BY DEF FindUser, UserInfo

LEMMA ParsedType ==
    ASSUME NEW f \in SessionInfo
    PROVE  Parsed(f) \in SessionInfo
BY DEF Parsed, SessionInfo

\* A file is appended to the list, or passed over.
LEMMA KeptList ==
    ASSUME NEW f \in SessionInfo, NEW list \in Seq(SessionInfo)
    PROVE  /\ Kept(f, list) \in Seq(SessionInfo)
           /\ Distinct(list) => Distinct(Kept(f, list))
<1>1. Parsed(f) \in SessionInfo
  BY ParsedType
<1>2. CASE Kept(f, list) = list
  BY <1>2
<1>3. CASE Kept(f, list) = Append(list, Parsed(f)) /\ ~Duplicate(Parsed(f), list)
  <2> DEFINE longer == Append(list, Parsed(f))
  <2>1. /\ longer \in Seq(SessionInfo)
        /\ Len(longer) = Len(list) + 1
        /\ \A i \in 1..Len(list) : longer[i] = list[i]
        /\ longer[Len(list) + 1] = Parsed(f)
    BY <1>1
  <2> HIDE DEF longer
  <2>2. \A i \in 1..Len(list) :
           list[i].id # Parsed(f).id /\ list[i].name # Parsed(f).name
    BY <1>3 DEF Duplicate
  <2>3. Distinct(list) => Distinct(longer)
    <3> SUFFICES ASSUME Distinct(list), NEW i \in 1..Len(longer),
                        NEW j \in 1..Len(longer), i # j
                 PROVE  longer[i].id # longer[j].id /\ longer[i].name # longer[j].name
      BY <2>1 DEF Distinct
    <3>1. CASE i \in 1..Len(list) /\ j \in 1..Len(list)
      BY <2>1, <3>1 DEF Distinct
    <3>2. CASE i = Len(list) + 1 /\ j \in 1..Len(list)
      BY <2>1, <2>2, <3>2
    <3>3. CASE j = Len(list) + 1 /\ i \in 1..Len(list)
      BY <2>1, <2>2, <3>3
    <3> QED
      BY <2>1, <3>1, <3>2, <3>3
  <2> QED
    BY <1>3, <2>1, <2>3 DEF longer
<1> QED
  BY <1>2, <1>3 DEF Kept

LEMMA ScannedList ==
    ASSUME NEW p \in Scanners, found \in [Scanners -> Seq(SessionInfo)]
    PROVE  /\ Scanned(p) \in Seq(SessionInfo)
           /\ Distinct(found[p]) => Distinct(Scanned(p))
<1>1. FallbackSession \in SessionInfo
  BY CatalogAssumption DEF FallbackSession, SessionInfo
<1>2. <<FallbackSession>> \in Seq(SessionInfo) /\ Distinct(<<FallbackSession>>)
  BY <1>1 DEF Distinct
<1> QED
  BY <1>2 DEF Scanned

LEMMA LeastIndex ==
    ASSUME NEW T \in SUBSET Nat, T # {}
    PROVE  \E i \in T : \A j \in T : i <= j
<1> DEFINE R == OpToRel(<, Nat)
<1>1. IsWellFoundedOn(R, Nat)
  BY NatLessThanWellFounded
<1>2. \A i, j \in Nat : j < i => <<j, i>> \in R
  BY DEF OpToRel
<1> HIDE DEF R
<1>3. PICK i \in T : \A j \in T : ~(<<j, i>> \in R)
  BY <1>1, WFMin
<1>4. \A j \in T : ~(j < i)
  BY <1>2, <1>3
<1>5. \A j \in T : i <= j
  BY <1>4
<1> QED
  BY <1>5

\* The lookup of a login gives the first match of the list.
LEMMA FirstMatch ==
    ASSUME NEW list \in Seq(SessionInfo), NEW d \in Texts, NEW e \in Texts,
           NEW h \in 1..Len(list), Matches(list[h], d, e)
    PROVE  \E k \in 1..h :
              /\ FindSession(list, d, e) = list[k]
              /\ Matches(list[k], d, e)
              /\ \A l \in 1..(k - 1) : ~Matches(list[l], d, e)
<1> DEFINE hits == {i \in DOMAIN list : Matches(list[i], d, e)}
           k == CHOOSE i \in hits : \A j \in hits : i <= j
<1>1. hits \in SUBSET Nat /\ h \in hits /\ DOMAIN list = 1..Len(list)
  OBVIOUS
<1>2. \E i \in hits : \A j \in hits : i <= j
  BY <1>1, LeastIndex
<1>3. k \in hits /\ \A j \in hits : k <= j
  BY <1>2
<1>4. FindSession(list, d, e) = list[k]
  BY <1>1 DEF FindSession
<1>5. k \in 1..Len(list) /\ k <= h /\ Matches(list[k], d, e)
  BY <1>1, <1>3
<1>6. \A l \in 1..(k - 1) : ~Matches(list[l], d, e)
  <2> SUFFICES ASSUME NEW l \in 1..(k - 1), Matches(list[l], d, e)
               PROVE  FALSE
    OBVIOUS
  <2>1. l \in hits /\ l < k
    BY <1>1, <1>5
  <2> QED
    BY <1>3, <1>5, <2>1
<1> HIDE DEF k, hits
<1> QED
  BY <1>4, <1>5, <1>6

LEMMA FindSessionType ==
    ASSUME NEW list \in Seq(SessionInfo), NEW d \in Texts, NEW e \in Texts
    PROVE  FindSession(list, d, e) \in SessionInfo
<1>1. CASE \E h \in 1..Len(list) : Matches(list[h], d, e)
  BY <1>1, FirstMatch
<1>2. CASE ~\E h \in 1..Len(list) : Matches(list[h], d, e)
  <2>1. {i \in DOMAIN list : Matches(list[i], d, e)} = {}
    BY <1>2
  <2>2. PICK name \in Texts, exec \in Texts :
           FindSession(list, d, e) = [id |-> "", name |-> name, exec |-> exec]
    BY <2>1, CatalogAssumption DEF FindSession
  <2>3. "" \in Texts
    BY CatalogAssumption
  <2>4. [id |-> "", name |-> name, exec |-> exec] \in SessionInfo
    BY <2>3 DEF SessionInfo
  <2> QED
    BY <2>2, <2>4
<1> QED
  BY <1>1, <1>2

LEMMA RequestFields ==
    ASSUME NEW m \in Requests
    PROVE  /\ m.username \in Texts
           /\ m.session_exec \in Texts
           /\ m.desktop_name \in Texts
<1>1. NoText \in Texts
  BY CatalogAssumption DEF NoText
<1> QED
  BY <1>1 DEF Requests, RequestsOf

LEMMA ResponseFields ==
    ASSUME NEW m \in Responses
    PROVE  m.users \in SUBSET UserInfo /\ m.sessions \in Seq(SessionInfo)
BY DEF Responses

-----------------------------------------------------------------------------
\* A client is connected from accept() to close().
HoldsClient == {"serve", "scan", "answer", "close", "stopping", "session"}

Held == client # NoLine <=> dpc \in HoldsClient

\* The two sides of Next.
DaemonSide == DaemonSteps \/ ServeLogin \/ Logout \/ Killed \/ Start

GreeterSide ==
    GreeterSteps \/ UserSteps \/ DialFails \/ GreeterEnds \/ Edit \/ Bus

LEMMA Sides == Next => DaemonSide \/ GreeterSide
BY DEF Next, DaemonSide, GreeterSide

\* What the operations on scans do to their types.
LEMMA ScanTypes ==
    ASSUME TypeOK, NEW p \in Scanners, UNCHANGED desktops
    PROVE  /\ ScanOpens(p) \/ ScanForgotten(p) \/ ScanEntry(p) \/ ScansForgotten =>
                 /\ cursor' \in [Scanners -> 0 .. Len(desktops') + 1]
                 /\ found' \in [Scanners -> Seq(SessionInfo)]
           /\ Scanned(p) \in Seq(SessionInfo)
<1>1. /\ cursor \in [Scanners -> 0 .. Len(desktops) + 1]
      /\ found \in [Scanners -> Seq(SessionInfo)]
      /\ desktops \in Seq(SessionInfo) /\ Len(desktops) \in Nat
      /\ desktops' = desktops
  BY DEF TypeOK
<1>2. ScanOpens(p) \/ ScanForgotten(p) \/ ScansForgotten =>
         /\ cursor' \in [Scanners -> 0 .. Len(desktops') + 1]
         /\ found' \in [Scanners -> Seq(SessionInfo)]
  <2> DEFINE bound == 0 .. Len(desktops) + 1
  <2>1. 0 \in bound /\ 1 \in bound /\ <<>> \in Seq(SessionInfo)
    BY <1>1, NoSessions
  <2>2. cursor \in [Scanners -> bound] /\ 0 .. Len(desktops') + 1 = bound
    BY <1>1
  <2> HIDE DEF bound
  <2> QED
    BY <1>1, <2>1, <2>2 DEF ScanOpens, ScanForgotten, ScansForgotten
<1>3. ASSUME ScanEntry(p)
      PROVE  /\ cursor' \in [Scanners -> 0 .. Len(desktops') + 1]
             /\ found' \in [Scanners -> Seq(SessionInfo)]
  <2>1. cursor[p] \in 1 .. Len(desktops) /\ desktops[cursor[p]] \in SessionInfo
    BY <1>1, <1>3 DEF ScanEntry
  <2>2. Kept(desktops[cursor[p]], found[p]) \in Seq(SessionInfo)
    BY <1>1, <2>1, KeptList
  <2> QED
    BY <1>1, <1>3, <2>1, <2>2 DEF ScanEntry
<1> QED
  BY <1>1, <1>2, <1>3, ScannedList

\* A call begins with a request.
LEMMA BeginTypes ==
    ASSUME TypeOK, NEW e \in Entries, Begin(e)
    PROVE  /\ call' = "connecting" /\ asked' \in Entries
           /\ UNCHANGED <<backlog, client, at, answer>>
BY DEF Begin

\* connect() puts it at the end of the backlog.
LEMMA ConnectTypes ==
    ASSUME TypeOK, call = "connecting" => asked # NoLine, Connect
    PROVE  /\ backlog' = Append(backlog, asked) /\ asked \in Entries
           /\ backlog' \in Seq(Entries) /\ Len(backlog') <= Backlog
           /\ Len(backlog') = Len(backlog) + 1 /\ Len(backlog) \in Nat
<1>1. backlog \in Seq(Entries) /\ asked \in Entries /\ Len(backlog) < Backlog
  BY DEF Connect, TypeOK
<1>2. Len(backlog) \in Nat /\ Backlog \in Nat
  BY <1>1, BacklogAssumption
<1> QED
  BY <1>1, <1>2 DEF Connect

LEMMA NoLines == <<>> \in Seq(Entries) /\ Len(<<>>) <= Backlog
BY BacklogAssumption

\* A call is made with a request.
AskedInv == call = "connecting" => asked # NoLine

LEMMA TypeInit == Init => TypeOK /\ Held /\ AskedInv
<1> SUFFICES ASSUME Init
             PROVE  TypeOK /\ Held /\ AskedInv
  OBVIOUS
<1>1. accounts \subseteq Accounts /\ desktops \in Seq(SessionInfo)
  BY WorldsAssumption DEF Init
<1>2. result \in Responses
  BY ResponseIs DEF Init, NoResult
<1>3. cursor \in [Scanners -> 0 .. Len(desktops) + 1]
  BY <1>1 DEF Init
<1> QED
  BY <1>1, <1>2, <1>3, NoLines, NoSessions
     DEF Init, TypeOK, Held, HoldsClient, AskedInv, Scanners

\* close() of a connection, whoever has left.
LEMMA CloseTypes ==
    ASSUME TypeOK, CloseClient
    PROVE  /\ client' = NoLine /\ UNCHANGED <<backlog, call, asked>>
           /\ at' \in {at, "none"}
           /\ answer' \in {Nothing, EndOfFile} \/ Received(answer') \in Responses
BY DEF CloseClient, TypeOK

\* Every step of the daemon's thread keeps the types, ...
LEMMA DaemonTypes ==
    ASSUME TypeOK, Held, AskedInv, DaemonSide
    PROVE  TypeOK' /\ Held' /\ AskedInv'
<1> USE NoSessions, ResponseIs
    DEF world, scans, busVars, socket, caches, daemon, lists, greeter,
        Goto, HoldsClient, Held, AskedInv, Scanners
<1>0. /\ ScanUsers(0) \in SUBSET UserInfo
      /\ client # NoLine => Request \in Requests
      /\ m_cached_users \in SUBSET UserInfo
  BY ScanUsersType, EntryIsRequest DEF TypeOK, Request
<1>1. CASE Killed
  <2>1. /\ dpc' = "down" /\ result' \in Responses /\ session' = NoSession
        /\ UNCHANGED <<accounts, desktops, bus, edits, gpc, m_users, m_sessions, source>>
        /\ m_bus' = "null" /\ logind' = "none"
        /\ m_cached_users' = {} /\ m_cached_sessions' = <<>>
    BY <1>1 DEF Killed, NoResult
  <2>2. /\ cursor' \in [Scanners -> 0 .. Len(desktops') + 1]
        /\ found' \in [Scanners -> Seq(SessionInfo)]
    BY <1>1, ScanTypes DEF Killed
  <2>3. /\ client' = NoLine /\ UNCHANGED <<backlog, call, asked>>
        /\ at' \in {at, "none"}
        /\ answer' \in {Nothing, EndOfFile} \/ Received(answer') \in Responses
    BY <1>1, CloseTypes DEF Killed
  <2> QED
    BY <2>1, <2>2, <2>3 DEF TypeOK
<1>2. CASE Start
  BY <1>0, <1>2, ScanTypes DEF Start, TypeOK
<1>3. CASE DaemonScans
  BY <1>3, ScanTypes DEF DaemonScans, TypeOK
<1>4. CASE InitDone
  <2>1. /\ cursor' \in [Scanners -> 0 .. Len(desktops') + 1]
        /\ found' \in [Scanners -> Seq(SessionInfo)]
        /\ m_cached_sessions' \in Seq(SessionInfo)
    BY <1>4, ScanTypes DEF InitDone
  <2>2. m_bus' \in {"null", "live", "dead"} /\ UNCHANGED <<bus, logind>>
    BY <1>4 DEF InitDone, InitLogind, Connection, TypeOK
  <2> QED
    BY <1>4, <2>1, <2>2, NoLines DEF InitDone, NewSocket, HangUp, TypeOK
<1>5. CASE Accept
  <2>1. backlog \in Seq(Entries) /\ backlog # <<>> /\ Backlog \in Nat
    BY <1>5, BacklogAssumption DEF Accept, AcceptNext, TypeOK
  <2>2. /\ Head(backlog) \in Entries
        /\ Tail(backlog) \in Seq(Entries)
        /\ Len(Tail(backlog)) <= Len(backlog)
    BY <2>1
  <2>3. Len(Tail(backlog)) <= Backlog
    BY <2>1, <2>2 DEF TypeOK
  <2> QED
    BY <1>5, <2>2, <2>3, NoLineAssumption DEF Accept, AcceptNext, TypeOK
<1>6. CASE PollIdle
  BY <1>6 DEF PollIdle, TypeOK
<1>16. CASE Check
  <2>1. CASE gpc = "off"
    BY <1>16, <2>1 DEF Check, StartGreeter, TypeOK
  <2>2. CASE gpc # "off"
    BY <1>16, <2>2 DEF Check, TypeOK
  <2> QED
    BY <2>1, <2>2
<1>7. CASE ServeUsers
  BY <1>0, <1>7, UsersAreResponse DEF ServeUsers, Serves, TypeOK
<1>8. CASE ServeSessions
  BY <1>8, ScanTypes DEF ServeSessions, Serves, TypeOK
<1>9. CASE SessionsScanned
  BY <1>9, ScanTypes, SessionsAreResponse DEF SessionsScanned, ScanDone, TypeOK
<1>10. CASE ServePower
  BY <1>10 DEF ServePower, Serves, CallManager, Connection, TypeOK
<1>11. CASE ServeLogin
  BY <1>11 DEF ServeLogin, Serves, TypeOK
<1>12. CASE Answer
  <2>1. answer' \in {Nothing, EndOfFile} \/ Received(answer') \in Responses
    BY <1>12, ResponseSurvives DEF Answer, Write, TypeOK
  <2> QED
    BY <1>12, <2>1 DEF Answer, Write, TypeOK
<1>13. CASE Close
  <2>1. /\ dpc' = "check" /\ result' \in Responses /\ logind' = "none"
        /\ UNCHANGED <<accounts, desktops, cursor, found, bus, m_bus, session, edits>>
        /\ UNCHANGED <<m_cached_users, m_cached_sessions>>
        /\ UNCHANGED <<gpc, m_users, m_sessions, source>>
    BY <1>13 DEF Close, NoResult
  <2>2. /\ client' = NoLine /\ UNCHANGED <<backlog, call, asked>>
        /\ at' \in {at, "none"}
        /\ answer' \in {Nothing, EndOfFile} \/ Received(answer') \in Responses
    BY <1>13, CloseTypes DEF Close
  <2> QED
    BY <2>1, <2>2 DEF TypeOK
<1>14. CASE Launch
  <2>1. Request.username \in Texts /\ Request.desktop_name \in Texts
           /\ Request.session_exec \in Texts
    BY <1>0, <1>14, RequestFields DEF Launch
  <2>2. session' \in [user : UserInfo, desktop : SessionInfo]
    BY <1>0, <1>14, <2>1, FindUserType, FindSessionType DEF Launch, TypeOK
  <2> QED
    BY <1>14, <2>2 DEF Launch, TypeOK
<1>15. CASE Logout
  <2>1. /\ dpc' = "check" /\ result' \in Responses /\ session' = NoSession
        /\ UNCHANGED <<accounts, desktops, cursor, found, bus, m_bus, logind, edits>>
        /\ UNCHANGED <<m_cached_users, m_cached_sessions>>
        /\ gpc' = "users" /\ m_users' = {} /\ m_sessions' = <<>> /\ source' = "daemon"
    BY <1>15 DEF Logout, StartGreeter, NoResult
  <2>2. /\ client' = NoLine /\ UNCHANGED <<backlog, call, asked>>
        /\ at' \in {at, "none"}
        /\ answer' \in {Nothing, EndOfFile} \/ Received(answer') \in Responses
    BY <1>15, CloseTypes DEF Logout
  <2> QED
    BY <2>1, <2>2 DEF TypeOK
<1> QED
  BY <1>1, <1>2, <1>3, <1>4, <1>5, <1>6, <1>7, <1>8, <1>9, <1>10, <1>11, <1>12,
     <1>13, <1>14, <1>15, <1>16 DEF DaemonSide, DaemonSteps

\* What a user can choose.
LEMMA LoginEntry ==
    ASSUME TypeOK, NEW u \in m_users, NEW i \in DOMAIN m_sessions
    PROVE  /\ u \in UserInfo /\ m_sessions[i] \in SessionInfo
           /\ Login(u.username, m_sessions[i].exec, m_sessions[i].id) \in Requests
           /\ Login(u.username, m_sessions[i].exec, m_sessions[i].id).type = "login"
           /\ ChoiceOf(u, i) \in Choices \cup {NoChoice}
<1>1. /\ u \in UserInfo /\ m_sessions \in Seq(SessionInfo)
      /\ i \in 1..Len(m_sessions) /\ Len(m_sessions) \in Nat
  BY DEF TypeOK
<1>2. \A k \in 1..Len(m_sessions) : m_sessions[k] \in SessionInfo
  BY <1>1
<1>3. u.username \in Texts /\ m_sessions[i].exec \in Texts /\ m_sessions[i].id \in Texts
  BY <1>1, <1>2 DEF UserInfo, SessionInfo
<1>4. {m_sessions[k] : k \in 1..i} \subseteq SessionInfo
  BY <1>1, <1>2
<1>5. ChoiceOf(u, i) \in Choices \cup {NoChoice}
  BY <1>1, <1>2, <1>4 DEF ChoiceOf, Choices
<1> QED
  BY <1>1, <1>2, <1>3, <1>5, LoginIsRequest

\* ... and of the greeter, the user and the world around them.
LEMMA GreeterTypes ==
    ASSUME TypeOK, Held, AskedInv, GreeterSide
    PROVE  TypeOK' /\ Held' /\ AskedInv'
<1> USE NoSessions DEF world, scans, busVars, socket, caches, daemon, lists, greeter,
        HoldsClient, Held, AskedInv, Scanners
<1>1. CASE AskUsers \/ AskSessions
  <2>1. PICK type \in {"get_users", "get_sessions"} :
           Begin(Entry(Ask(type), NoChoice))
    BY <1>1 DEF AskUsers, AskSessions, Asks
  <2>2. asked' \in Entries /\ asked' # NoLine /\ call' = "connecting"
           /\ UNCHANGED <<backlog, client, at, answer>>
    BY <2>1, AskIsRequest, NewEntry DEF Begin
  <2> QED
    BY <1>1, <2>2 DEF AskUsers, AskSessions, Asks, TypeOK
<1>2. CASE UsersReturn \/ SessionsReturn
  <2>1. Received(answer) \in Responses
    BY <1>2 DEF UsersReturn, SessionsReturn, Granted, HasReply, TypeOK
  <2>2. CASE UsersReturn
    BY <2>1, <2>2, ResponseFields DEF UsersReturn, Returns, HangUp, TypeOK
  <2>3. CASE SessionsReturn
    BY <2>1, <2>3, ResponseFields DEF SessionsReturn, Returns, HangUp, TypeOK
  <2> QED
    BY <1>2, <2>2, <2>3
<1>3. CASE InitFails
  <2>1. /\ m_users' \in SUBSET UserInfo
        /\ cursor' \in [Scanners -> 0 .. Len(desktops') + 1]
        /\ found' \in [Scanners -> Seq(SessionInfo)]
    BY <1>3, ScanTypes, ScanUsersType, CatalogAssumption DEF InitFails, Returns, TypeOK
  <2> QED
    BY <1>3, <2>1 DEF InitFails, Returns, HangUp, TypeOK
<1>4. CASE GreeterScans
  BY <1>4, ScanTypes DEF GreeterScans, TypeOK
<1>5. CASE InitScanned
  BY <1>5, ScanTypes DEF InitScanned, ScanDone, TypeOK
<1>6. CASE LoginSucceeds \/ LoginFails \/ PowerReturns
  BY <1>6 DEF LoginSucceeds, LoginFails, PowerReturns, Returns, HangUp, TypeOK
<1>7. CASE PollTimesOut \/ DialFails
  BY <1>7 DEF PollTimesOut, TimesOut, DialFails, ConnectFails, TypeOK
<1>8. CASE Dials
  BY <1>8, ConnectTypes DEF Dials, Connect, TypeOK
<1>9. ASSUME NEW u \in m_users, NEW i \in DOMAIN m_sessions, AttemptLogin(u, i)
      PROVE  TypeOK' /\ Held' /\ AskedInv'
  <2>1. asked' \in Entries /\ asked' # NoLine /\ call' = "connecting"
           /\ UNCHANGED <<backlog, client, at, answer>>
    BY <1>9, LoginEntry, NewEntry DEF AttemptLogin, Begin
  <2> QED
    BY <1>9, <2>1 DEF AttemptLogin, TypeOK
<1>10. ASSUME NEW a \in PowerActions, PressPower(a)
      PROVE  TypeOK' /\ Held' /\ AskedInv'
  <2>1. asked' \in Entries /\ asked' # NoLine /\ call' = "connecting"
           /\ UNCHANGED <<backlog, client, at, answer>>
    BY <1>10, PowerIsRequest, NewEntry DEF PressPower, Begin
  <2> QED
    BY <1>10, <2>1 DEF PressPower, TypeOK
<1>11. CASE GreeterEnds
  BY <1>11, ScanTypes DEF GreeterEnds, HangUp, TypeOK
<1>12. CASE Edit
  BY <1>12, WorldsAssumption DEF Edit, ScansDisturbed, TypeOK
<1>13. CASE Bus
  BY <1>13 DEF Bus, BusStarts, BusStops, TypeOK
<1> QED
  BY <1>1, <1>2, <1>3, <1>4, <1>5, <1>6, <1>7, <1>8, <1>9, <1>10, <1>11, <1>12, <1>13
     DEF GreeterSide, GreeterSteps, UserSteps

LEMMA TypeStep ==
    TypeOK /\ Held /\ AskedInv /\ [Next]_vars => TypeOK' /\ Held' /\ AskedInv'
<1>1. TypeOK /\ Held /\ AskedInv /\ UNCHANGED vars => TypeOK' /\ Held' /\ AskedInv'
  BY DEF vars, world, scans, busVars, socket, daemon, greeter, TypeOK, Held, AskedInv
<1> QED
  BY <1>1, DaemonTypes, GreeterTypes, Sides

(***************************************************************************)
(* Type correctness: every variable keeps the type its code gives it.      *)
(***************************************************************************)
THEOREM TypeCorrect == Spec => []TypeOK
BY TypeInit, TypeStep, PTL DEF Spec

-----------------------------------------------------------------------------
(***************************************************************************)
(* Where the two programs are, and what lies in the socket between them.   *)
(* Only the youngest connection can have the greeter at its other end, and *)
(* the greeter is then in the call that sent its request.                  *)
(***************************************************************************)
CallerAt == [get_users |-> "users", get_sessions |-> "sessions",
             login |-> "login", power_action |-> "power"]

Youngest == backlog[Len(backlog)]

\* The request behind an entry.
AskOf(e) == Received(e.line)

CallInv ==
    /\ call = "none" => at = "none" /\ answer = Nothing
    /\ call = "connecting" => /\ at = "none" /\ answer = Nothing
                              /\ gpc = CallerAt[AskOf(asked).type]
    /\ gpc \in {"login", "power"} => call # "none"
    /\ gpc \in {"off", "scan", "ready"} => call = "none"

SocketInv ==
    /\ at = "queued" => /\ backlog # <<>>
                        /\ gpc = CallerAt[AskOf(Youngest).type]
    /\ at = "accepted" => /\ client # NoLine /\ backlog = <<>>
                          /\ gpc = CallerAt[Request.type]

PlaceInv ==
    /\ dpc = "session" => gpc = "off"
    /\ dpc = "scan" => Request.type = "get_sessions"
    /\ dpc \in {"stopping", "session"} => Request.type = "login"

ControlInv == TypeOK /\ Held /\ AskedInv /\ CallInv /\ SocketInv /\ PlaceInv

LEMMA ControlInit == Init => ControlInv
BY TypeInit DEF Init, ControlInv, CallInv, SocketInv, PlaceInv

\* What accept() takes off a queue, and what it leaves.
LEMMA AfterHead ==
    ASSUME NEW S, NEW s \in Seq(S), s # <<>>
    PROVE  /\ Head(s) \in S
           /\ Len(s) = 1 => Head(s) = s[Len(s)] /\ Tail(s) = <<>>
           /\ Len(s) # 1 => /\ Tail(s) # <<>>
                            /\ Tail(s)[Len(Tail(s))] = s[Len(s)]
<1> DEFINE t == Tail(s)
<1>1. /\ Len(s) \in Nat \ {0} /\ Head(s) = s[1] /\ Head(s) \in S
      /\ t \in Seq(S) /\ Len(t) = Len(s) - 1 /\ Len(t) \in Nat
      /\ \A i \in 1..Len(t) : t[i] = s[i + 1]
  BY HeadTailProperties, EmptySeq, LenProperties
<1>2. t = <<>> <=> Len(t) = 0
  BY <1>1, EmptySeq
<1> HIDE DEF t
<1>3. CASE Len(s) = 1
  BY <1>1, <1>2, <1>3 DEF t
<1>4. CASE Len(s) # 1
  <2>1. Len(t) \in 1..Len(t) /\ Len(t) + 1 = Len(s)
    BY <1>1, <1>4
  <2>2. t[Len(t)] = s[Len(s)]
    BY <1>1, <2>1
  <2> QED
    BY <1>2, <1>4, <2>1, <2>2 DEF t
<1> QED
  BY <1>1, <1>3, <1>4

\* A call of the greeter's begins at the place that makes it, ...
LEMMA CallControl ==
    ASSUME ControlInv, NEW m \in Requests, NEW c \in Choices \cup {NoChoice},
           Begin(Entry(m, c)), gpc' = CallerAt[m.type], UNCHANGED dpc,
           dpc # "session"
    PROVE  CallInv' /\ SocketInv' /\ PlaceInv'
<1>1. CallerAt[m.type] \in {"users", "sessions", "login", "power"}
  BY RequestTypes DEF CallerAt
<1>2. /\ call = "none" /\ at = "none" /\ answer = Nothing
      /\ call' = "connecting" /\ at' = "none" /\ answer' = Nothing
      /\ client' = client /\ AskOf(asked)' = m
  BY NewEntry DEF Begin, ControlInv, CallInv, AskOf
<1> QED
  BY <1>1, <1>2 DEF ControlInv, CallInv, SocketInv, PlaceInv, Request

\* ... and goes to the end of the backlog.
LEMMA DialControl ==
    ASSUME ControlInv, Dials
    PROVE  /\ CallInv' /\ SocketInv' /\ PlaceInv'
           /\ Youngest' = asked
<1>1. /\ call = "connecting" /\ call' = "waiting" /\ at = "none" /\ at' = "queued"
      /\ answer' = Nothing /\ client' = client /\ UNCHANGED <<gpc, dpc>>
      /\ gpc = CallerAt[AskOf(asked).type]
  BY DEF Dials, Connect, ControlInv, CallInv, greeter, daemon
<1>2. /\ backlog' = Append(backlog, asked) /\ asked \in Entries
      /\ backlog \in Seq(Entries)
  BY ConnectTypes DEF Dials, ControlInv, AskedInv, TypeOK
<1>3. backlog' # <<>> /\ Youngest' = asked
  BY <1>2 DEF Youngest
<1>4. AskOf(Youngest)' = AskOf(asked)
  BY <1>3 DEF AskOf
<1> QED
  BY <1>1, <1>3, <1>4 DEF ControlInv, CallInv, SocketInv, PlaceInv, Request

LEMMA DaemonControl ==
    ASSUME ControlInv, DaemonSide
    PROVE  CallInv' /\ SocketInv' /\ PlaceInv'
<1> USE DEF ControlInv, CallInv, SocketInv, PlaceInv, Held, HoldsClient, Goto,
        socket, daemon, greeter, Request, Youngest, AskOf
<1>1. CASE Killed
  BY <1>1 DEF Killed, CloseClient
<1>2. CASE Start \/ DaemonScans \/ PollIdle
  BY <1>2 DEF Start, DaemonScans, PollIdle
<1>3. CASE InitDone
  BY <1>3 DEF InitDone, NewSocket, HangUp
<1>4. CASE Accept
  <2>1. backlog \in Seq(Entries) /\ backlog # <<>> /\ Len(backlog) \in Nat \ {0}
    BY <1>4 DEF Accept, AcceptNext, TypeOK
  <2>2. CASE Len(backlog) = 1
    <3>1. client' = Youngest /\ backlog' = <<>> /\ client' # NoLine
      BY <1>4, <2>1, <2>2, AfterHead, NoLineAssumption DEF Accept, AcceptNext
    <3> QED
      BY <1>4, <2>2, <3>1 DEF Accept, AcceptNext
  <2>3. CASE Len(backlog) # 1
    <3>1. backlog' # <<>> /\ Youngest' = Youngest
      BY <1>4, <2>1, <2>3, AfterHead DEF Accept, AcceptNext
    <3> QED
      BY <1>4, <2>3, <3>1 DEF Accept, AcceptNext
  <2> QED
    BY <2>2, <2>3
<1>5. CASE Check
  BY <1>5 DEF Check, StartGreeter
<1>6. CASE ServeUsers \/ ServeSessions \/ ServePower \/ ServeLogin
  BY <1>6 DEF ServeUsers, ServeSessions, ServePower, ServeLogin, Serves
<1>7. CASE SessionsScanned
  BY <1>7 DEF SessionsScanned
<1>8. CASE Answer
  BY <1>8 DEF Answer, Write
<1>9. CASE Close
  BY <1>9 DEF Close, CloseClient
<1>10. CASE Launch
  BY <1>10 DEF Launch
<1>11. CASE Logout
  BY <1>11 DEF Logout, CloseClient, StartGreeter
<1> QED
  BY <1>1, <1>2, <1>3, <1>4, <1>5, <1>6, <1>7, <1>8, <1>9, <1>10, <1>11
     DEF DaemonSide, DaemonSteps

LEMMA GreeterControl ==
    ASSUME ControlInv, GreeterSide
    PROVE  CallInv' /\ SocketInv' /\ PlaceInv'
<1> USE DEF daemon, greeter, socket
<1>1. CASE AskUsers \/ AskSessions
  <2>1. PICK type \in {"get_users", "get_sessions"} :
           /\ gpc = CallerAt[type] /\ gpc' = gpc
           /\ Begin(Entry(Ask(type), NoChoice))
           /\ UNCHANGED daemon
    BY <1>1 DEF AskUsers, AskSessions, Asks, CallerAt
  <2>2. dpc # "session"
    BY <1>1 DEF AskUsers, AskSessions, Asks, ControlInv, PlaceInv
  <2> QED
    BY <2>1, <2>2, AskIsRequest, CallControl
<1>2. ASSUME NEW u \in m_users, NEW i \in DOMAIN m_sessions, AttemptLogin(u, i)
      PROVE  CallInv' /\ SocketInv' /\ PlaceInv'
  <2> DEFINE m == Login(u.username, m_sessions[i].exec, m_sessions[i].id)
  <2>1. m \in Requests /\ m.type = "login" /\ ChoiceOf(u, i) \in Choices \cup {NoChoice}
    BY LoginEntry DEF ControlInv
  <2>2. /\ gpc = "ready" /\ gpc' = "login" /\ Begin(Entry(m, ChoiceOf(u, i)))
        /\ UNCHANGED daemon
    BY <1>2 DEF AttemptLogin
  <2> HIDE DEF m
  <2>3. dpc # "session" /\ CallerAt[m.type] = "login"
    BY <2>1, <2>2 DEF ControlInv, PlaceInv, CallerAt
  <2> QED
    BY <2>1, <2>2, <2>3, CallControl
<1>3. ASSUME NEW a \in PowerActions, PressPower(a)
      PROVE  CallInv' /\ SocketInv' /\ PlaceInv'
  <2>1. Power(a) \in Requests /\ Power(a).type = "power_action"
    BY PowerIsRequest
  <2>2. /\ gpc = "ready" /\ gpc' = "power" /\ Begin(Entry(Power(a), NoChoice))
        /\ UNCHANGED daemon
    BY <1>3 DEF PressPower
  <2>3. dpc # "session" /\ CallerAt[Power(a).type] = "power"
    BY <2>1, <2>2 DEF ControlInv, PlaceInv, CallerAt
  <2> QED
    BY <2>1, <2>2, <2>3, CallControl
<1>10. CASE Dials
  BY <1>10, DialControl
<1> USE DEF ControlInv, CallInv, SocketInv, PlaceInv, Request, Youngest, AskOf
<1>4. CASE UsersReturn \/ SessionsReturn \/ InitFails
  BY <1>4 DEF UsersReturn, SessionsReturn, InitFails, Returns, HangUp
<1>5. CASE GreeterScans \/ InitScanned
  BY <1>5 DEF GreeterScans, InitScanned
<1>6. CASE LoginSucceeds \/ LoginFails \/ PowerReturns
  BY <1>6 DEF LoginSucceeds, LoginFails, PowerReturns, Returns, HangUp
<1>7. CASE PollTimesOut \/ DialFails
  BY <1>7 DEF PollTimesOut, TimesOut, DialFails, ConnectFails
<1>8. CASE GreeterEnds
  BY <1>8 DEF GreeterEnds, HangUp
<1>9. CASE Edit \/ Bus
  BY <1>9 DEF Edit, Bus
<1> QED
  BY <1>1, <1>2, <1>3, <1>4, <1>5, <1>6, <1>7, <1>8, <1>9, <1>10
     DEF GreeterSide, GreeterSteps, UserSteps

LEMMA GreeterLeavesDaemon ==
    ASSUME GreeterSide
    PROVE  UNCHANGED <<daemon, client>>
BY DEF GreeterSide, GreeterSteps, UserSteps, GreeterEnds, Edit, Bus, AskUsers,
   AskSessions, Asks, UsersReturn, SessionsReturn, InitFails, Returns, GreeterScans,
   InitScanned, LoginSucceeds, LoginFails, PowerReturns, PollTimesOut, TimesOut,
   Dials, Connect, DialFails, ConnectFails, AttemptLogin, PressPower, Begin, socket

LEMMA ControlStep == ControlInv /\ [Next]_vars => ControlInv'
<1>1. ControlInv /\ UNCHANGED vars => ControlInv'
  BY TypeStep DEF vars, socket, daemon, greeter, ControlInv, CallInv, SocketInv,
     PlaceInv, Request, Youngest, AskOf
<1>2. ControlInv /\ Next => CallInv' /\ SocketInv' /\ PlaceInv'
  BY DaemonControl, GreeterControl, Sides
<1> QED
  BY <1>1, <1>2, TypeStep DEF ControlInv

LEMMA ControlCorrect == Spec => []ControlInv
BY ControlInit, ControlStep, PTL DEF Spec

-----------------------------------------------------------------------------
\* Who has read of success, or can, in a login call.
GrantedInv ==
    (gpc = "login" /\ answer \notin {Nothing, EndOfFile} /\ Received(answer).success)
        => \/ dpc = "stopping" /\ Request.type = "login" /\ at = "accepted"
           \/ dpc \in {"down", "init"}

LEMMA GrantedStep ==
    ASSUME ControlInv, GrantedInv, [Next]_vars
    PROVE  GrantedInv'
<1> USE DEF ControlInv, CallInv, GrantedInv, Goto, socket, daemon, greeter, Request
<1>1. CASE Killed \/ Start
  BY <1>1 DEF Killed, Start, CloseClient
<1>2. CASE InitDone
  BY <1>2 DEF InitDone
<1>3. CASE DaemonScans \/ PollIdle \/ Launch
  BY <1>3 DEF DaemonScans, PollIdle, Launch
<1>4. CASE Accept
  BY <1>4 DEF Accept, AcceptNext
<1>5. CASE Check
  BY <1>5 DEF Check, StartGreeter
<1>6. CASE ServeUsers \/ ServeSessions \/ ServePower \/ ServeLogin \/ SessionsScanned
  BY <1>6 DEF ServeUsers, ServeSessions, ServePower, ServeLogin, Serves,
     SessionsScanned
<1>7. CASE Answer
  <2>1. at = "accepted" /\ gpc = "login" => Request.type = "login"
    <3>1. at = "accepted" => /\ gpc = CallerAt[Request.type]
                             /\ Request.type \in {"get_users", "get_sessions", "login",
                                                   "power_action"}
      BY EntryIsRequest, RequestTypes DEF TypeOK, SocketInv
    <3> QED
      BY <3>1 DEF CallerAt
  <2>2. at = "accepted" => Received(answer') = result
    BY <1>7, ResponseSurvives DEF Answer, Write, TypeOK
  <2> QED
    BY <1>7, <2>1, <2>2 DEF Answer, Write
<1>8. CASE Close \/ Logout
  BY <1>8 DEF Close, Logout, CloseClient, StartGreeter
<1>9. CASE AskUsers \/ AskSessions \/ UserSteps
  BY <1>9 DEF AskUsers, AskSessions, Asks, UserSteps, AttemptLogin, PressPower, Begin
<1>10. CASE Dials \/ DialFails \/ PollTimesOut
  BY <1>10 DEF Dials, Connect, DialFails, ConnectFails, PollTimesOut, TimesOut
<1>11. CASE UsersReturn \/ SessionsReturn \/ InitFails \/ LoginSucceeds \/ LoginFails
              \/ PowerReturns \/ GreeterEnds
  BY <1>11 DEF UsersReturn, SessionsReturn, InitFails, LoginSucceeds, LoginFails,
     PowerReturns, GreeterEnds, Returns, HangUp
<1>12. CASE GreeterScans \/ InitScanned
  BY <1>12 DEF GreeterScans, InitScanned
<1>13. CASE Edit \/ Bus \/ UNCHANGED vars
  BY <1>13 DEF Edit, Bus, vars
<1> QED
  BY <1>1, <1>2, <1>3, <1>4, <1>5, <1>6, <1>7, <1>8, <1>9, <1>10, <1>11, <1>12, <1>13
     DEF Next, DaemonSteps, GreeterSteps

(***************************************************************************)
(* GrantedIsLaunched: success is written to the connection of the call     *)
(* that asked, and the daemon that wrote it goes nowhere before the        *)
(* greeter has ended.                                                      *)
(***************************************************************************)
THEOREM GrantedIsLaunchedCorrect == Spec => []GrantedIsLaunched
<1>1. Init => GrantedInv
  BY DEF Init, GrantedInv
<1>2. GrantedInv => GrantedIsLaunched
  BY DEF GrantedInv, GrantedIsLaunched, Granted, HasReply
<1> QED
  BY <1>1, <1>2, GrantedStep, ControlCorrect, PTL DEF Spec

(***************************************************************************)
(* PowerReachesLogind: each action first makes sure of a connection, and   *)
(* the actions a greeter can send are among those that are tried.          *)
(***************************************************************************)
THEOREM PowerReachesLogindCorrect == Spec => PowerReachesLogind
<1> DEFINE Asked == dpc = "serve" /\ Request.type = "power_action"
                        /\ dpc' = "answer" /\ bus = "up" /\ m_bus # "dead"
           Reaches == Asked => logind' \in {"done", "refused"}
<1>1. ASSUME ControlInv, Next, Asked
      PROVE  logind' \in {"done", "refused"}
  <2>1. CASE ServePower
    <3>1. Request \in Requests
      BY <1>1, EntryIsRequest DEF ControlInv, TypeOK, Held, HoldsClient, Request
    <3>2. Request.power_action \in Actions
      BY <1>1, <3>1, PowerRequest
    <3>3. PICK ok \in BOOLEAN : CallManager(ok)
      BY <2>1, <3>2 DEF ServePower
    <3>4. Connection = "live"
      BY <1>1 DEF Connection, ControlInv, TypeOK
    <3> QED
      BY <3>3, <3>4 DEF CallManager
  <2> USE DEF daemon, Goto
  <2>2. CASE ServeUsers \/ ServeSessions \/ ServeLogin
    BY <1>1, <2>2 DEF ServeUsers, ServeSessions, ServeLogin, Serves
  <2>3. CASE Start \/ DaemonScans \/ InitDone \/ Accept \/ PollIdle \/ Check
    BY <1>1, <2>3 DEF Start, DaemonScans, InitDone, Accept, PollIdle, Check
  <2>4. CASE SessionsScanned \/ Answer \/ Close \/ Launch \/ Logout \/ Killed
    BY <1>1, <2>4 DEF SessionsScanned, Answer, Close, Launch, Logout, Killed
  <2>5. CASE GreeterSide
    <3>1. UNCHANGED daemon
      BY <2>5, GreeterLeavesDaemon
    <3> QED
      BY <1>1, <3>1
  <2> QED
    BY <1>1, <2>1, <2>2, <2>3, <2>4, <2>5, Sides DEF DaemonSide, DaemonSteps
<1>2. ControlInv /\ [Next]_vars => [Reaches]_vars
  BY <1>1
<1> QED
  BY <1>2, ControlCorrect, PTL DEF Spec, PowerReachesLogind

-----------------------------------------------------------------------------
\* Lists on their way: being scanned, in a response, in what was read.
DistinctInv ==
    /\ ListsDistinct
    /\ Distinct(result.sessions)
    /\ answer \in {Nothing, EndOfFile} \/ Distinct(Received(answer).sessions)

LEMMA NoneDistinct == Distinct(<<>>)
BY DEF Distinct

LEMMA ScanDistinct ==
    ASSUME TypeOK, \A q \in Scanners : Distinct(found[q]), NEW p \in Scanners
    PROVE  /\ ScanOpens(p) \/ ScanForgotten(p) \/ ScanEntry(p) \/ ScansForgotten =>
                 \A q \in Scanners : Distinct(found'[q])
           /\ Distinct(Scanned(p))
<1>1. ASSUME ScanEntry(p)
      PROVE  \A q \in Scanners : Distinct(found'[q])
  <2>1. desktops[cursor[p]] \in SessionInfo /\ found[p] \in Seq(SessionInfo)
    BY <1>1 DEF ScanEntry, TypeOK
  <2>2. Distinct(Kept(desktops[cursor[p]], found[p]))
    BY <2>1, KeptList
  <2> QED
    BY <1>1, <2>2 DEF ScanEntry, TypeOK
<1>2. ScanOpens(p) \/ ScanForgotten(p) \/ ScansForgotten =>
         \A q \in Scanners : Distinct(found'[q])
  BY NoneDistinct DEF ScanOpens, ScanForgotten, ScansForgotten, TypeOK
<1> QED
  BY <1>1, <1>2, ScannedList DEF TypeOK

LEMMA DistinctInit == Init => DistinctInv
BY NoneDistinct, ResponseIs DEF Init, DistinctInv, ListsDistinct, NoResult, Scanners

LEMMA DistinctStep ==
    ASSUME ControlInv, DistinctInv, [Next]_vars
    PROVE  DistinctInv'
<1> USE NoneDistinct, ResponseIs
    DEF DistinctInv, ListsDistinct, scans, socket, caches, daemon, lists, greeter, Goto,
        Scanners
<1>1. TypeOK /\ m_cached_users \subseteq UserInfo /\ ScanUsers(0) \in SUBSET UserInfo
  BY ScanUsersType DEF ControlInv, TypeOK
<1>2. CASE Killed
  BY <1>1, <1>2, ScanDistinct DEF Killed, CloseClient, NoResult
<1>3. CASE Start \/ DaemonScans
  BY <1>1, <1>3, ScanDistinct DEF Start, DaemonScans
<1>4. CASE InitDone
  BY <1>1, <1>4, ScanDistinct DEF InitDone, NewSocket, HangUp
<1>5. CASE Accept \/ PollIdle
  BY <1>5 DEF Accept, AcceptNext, PollIdle
<1>6. CASE Check
  BY <1>6 DEF Check, StartGreeter
<1>7. CASE ServeUsers
  BY <1>1, <1>7, UsersAreResponse DEF ServeUsers, Serves
<1>8. CASE ServeSessions
  BY <1>1, <1>8, ScanDistinct DEF ServeSessions, Serves
<1>9. CASE SessionsScanned
  <2>1. Scanned("daemon") \in Seq(SessionInfo) /\ Distinct(Scanned("daemon"))
    BY <1>1, <1>9, ScanDistinct, ScannedList DEF TypeOK
  <2> QED
    BY <1>1, <1>9, <2>1, ScanDistinct, SessionsAreResponse DEF SessionsScanned, ScanDone
<1>10. CASE ServePower \/ ServeLogin
  BY <1>10 DEF ServePower, ServeLogin, Serves
<1>11. CASE Answer
  BY <1>1, <1>11, ResponseSurvives DEF Answer, Write, TypeOK
<1>12. CASE Close \/ Logout
  BY <1>12 DEF Close, Logout, CloseClient, StartGreeter, NoResult
<1>13. CASE Launch
  BY <1>13 DEF Launch
<1>14. CASE AskUsers \/ AskSessions \/ UserSteps
  BY <1>14 DEF AskUsers, AskSessions, Asks, UserSteps, AttemptLogin, PressPower, Begin
<1>20. CASE Dials \/ DialFails \/ PollTimesOut
  BY <1>20 DEF Dials, Connect, DialFails, ConnectFails, PollTimesOut, TimesOut
<1>15. CASE UsersReturn \/ SessionsReturn
  BY <1>15 DEF UsersReturn, SessionsReturn, Returns, HangUp, HasReply, Granted
<1>16. CASE InitFails
  BY <1>1, <1>16, ScanDistinct DEF InitFails, Returns, HangUp
<1>17. CASE GreeterScans
  BY <1>1, <1>17, ScanDistinct DEF GreeterScans
<1>18. CASE InitScanned
  BY <1>1, <1>18, ScanDistinct DEF InitScanned, ScanDone
<1>19. CASE LoginSucceeds \/ LoginFails \/ PowerReturns
  BY <1>19 DEF LoginSucceeds, LoginFails, PowerReturns, Returns, HangUp
<1>21. CASE GreeterEnds
  BY <1>1, <1>21, ScanDistinct DEF GreeterEnds, HangUp
<1>22. CASE Edit \/ Bus \/ UNCHANGED vars
  BY <1>22 DEF Edit, ScansDisturbed, Bus, vars
<1> QED
  BY <1>2, <1>3, <1>4, <1>5, <1>6, <1>7, <1>8, <1>9, <1>10, <1>11, <1>12, <1>13,
     <1>14, <1>15, <1>16, <1>17, <1>18, <1>19, <1>20, <1>21, <1>22
     DEF Next, DaemonSteps, GreeterSteps

LEMMA DistinctCorrect == Spec => []DistinctInv
BY DistinctInit, DistinctStep, ControlCorrect, PTL DEF Spec

(***************************************************************************)
(* ListsDistinct: a file is kept only when its id and its name are new, so *)
(* that every list, whatever a scan found in its way and wherever the list *)
(* is copied to, shows each of them once.                                  *)
(***************************************************************************)
THEOREM ListsDistinctCorrect == Spec => []ListsDistinct
<1>1. DistinctInv => ListsDistinct
  BY DEF DistinctInv
<1> QED
  BY <1>1, DistinctCorrect, PTL
=============================================================================
