---------------------------- MODULE GreeterLists ----------------------------
(***************************************************************************)
(* While the desktop files stay as they are, every list of sessions offers *)
(* what is installed: the scans of the daemon and of the greeter, file by  *)
(* file, the daemon's cache, the response on its way, and the greeter's    *)
(* list.                                                                   *)
(***************************************************************************)
EXTENDS GreeterRefines

\* A scan on its way: what is listed is one of the files, and of those it has
\* been past none that runs something was lost.
Drawn(list, files) ==
    \A i \in DOMAIN list : \E f \in files : Runs(f) /\ list[i] = Parsed(f)

Underway(next, list) ==
    /\ next >= 1
    /\ Drawn(list, Installed)
    /\ \A j \in DOMAIN desktops :
          Runs(desktops[j]) => j >= next \/ Offered(desktops[j], list)

\* What a file adds to the list, and what it leaves of it.
LEMMA KeptOffers ==
    ASSUME NEW f \in SessionInfo, NEW list \in Seq(SessionInfo)
    PROVE  /\ Runs(f) => Offered(f, Kept(f, list))
           /\ \A g : Offered(g, list) => Offered(g, Kept(f, list))
           /\ \A i \in DOMAIN Kept(f, list) :
                 \/ i \in DOMAIN list /\ Kept(f, list)[i] = list[i]
                 \/ Runs(f) /\ Kept(f, list)[i] = Parsed(f)
<1>1. CASE ~Runs(f) \/ Duplicate(Parsed(f), list)
  <2>1. Kept(f, list) = list
    BY <1>1, Zenon DEF Kept, Runs
  <2>2. Runs(f) => Offered(f, list)
    BY <1>1 DEF Duplicate, Offered
  <2> QED
    BY <2>1, <2>2
<1>2. CASE Runs(f) /\ ~Duplicate(Parsed(f), list)
  <2> DEFINE longer == Append(list, Parsed(f))
  <2>1. Kept(f, list) = longer
    BY <1>2, Zenon DEF Kept, Runs
  <2>2. /\ DOMAIN longer = 1..(Len(list) + 1) /\ DOMAIN list = 1..Len(list)
        /\ Len(list) \in Nat
        /\ \A i \in 1..Len(list) : longer[i] = list[i]
        /\ longer[Len(list) + 1] = Parsed(f)
    BY ParsedType
  <2> HIDE DEF longer
  <2>3. Offered(f, longer)
    BY <2>2 DEF Offered
  <2>4. \A g : Offered(g, list) => Offered(g, longer)
    BY <2>2 DEF Offered
  <2>5. \A i \in DOMAIN longer : \/ i \in DOMAIN list /\ longer[i] = list[i]
                                 \/ longer[i] = Parsed(f)
    BY <2>2
  <2> QED
    BY <1>2, <2>1, <2>3, <2>4, <2>5
<1> QED
  BY <1>1, <1>2

LEMMA ScanBegins ==
    ASSUME TypeOK
    PROVE  Underway(1, <<>>)
BY DEF Underway, Drawn, TypeOK

LEMMA ScanGoesOn ==
    ASSUME TypeOK, NEW next \in DOMAIN desktops, NEW list \in Seq(SessionInfo),
           Underway(next, list)
    PROVE  Underway(next + 1, Kept(desktops[next], list))
<1> DEFINE f == desktops[next]
           more == Kept(f, list)
<1>1. /\ DOMAIN desktops \subseteq Nat /\ next \in Nat
      /\ f \in SessionInfo /\ f \in Installed
  BY DEF TypeOK, Installed
<1>2. /\ Runs(f) => Offered(f, more)
      /\ \A g : Offered(g, list) => Offered(g, more)
      /\ \A i \in DOMAIN more :
            \/ i \in DOMAIN list /\ more[i] = list[i]
            \/ Runs(f) /\ more[i] = Parsed(f)
  BY <1>1, KeptOffers
<1> HIDE DEF more
<1>3. Drawn(more, Installed)
  BY <1>1, <1>2 DEF Underway, Drawn
<1>4. ASSUME NEW j \in DOMAIN desktops, Runs(desktops[j])
      PROVE  j >= next + 1 \/ Offered(desktops[j], more)
  <2>1. CASE j = next
    BY <1>2, <1>4, <2>1
  <2>2. CASE j # next
    BY <1>1, <1>2, <1>4, <2>2 DEF Underway
  <2> QED
    BY <2>1, <2>2
<1>5. next + 1 >= 1
  BY <1>1
<1> HIDE DEF f
<1> QED
  BY <1>3, <1>4, <1>5 DEF Underway, more, f

LEMMA ScanEnds ==
    ASSUME TypeOK, NEW p \in Scanners, cursor[p] > Len(desktops),
           Underway(cursor[p], found[p])
    PROVE  Offers(Scanned(p), Installed)
<1> DEFINE list == found[p]
<1>1. \A f \in Installed : Runs(f) => Offered(f, list)
  <2>1. desktops \in Seq(SessionInfo) /\ cursor[p] \in Nat
    BY DEF TypeOK
  <2>2. \A j \in DOMAIN desktops : ~(j >= cursor[p])
    BY <2>1
  <2> QED
    BY <2>2 DEF Underway, Installed
<1>2. Drawn(list, Installed) /\ list \in Seq(SessionInfo)
  BY DEF Underway, TypeOK
<1>3. CASE list = <<>>
  <2>1. \A f \in Installed : ~Runs(f)
    BY <1>1, <1>3 DEF Offered
  <2> QED
    BY <1>3, <2>1 DEF Offers, Scanned
<1>4. CASE list # <<>>
  <2>1. Scanned(p) = list
    BY <1>4 DEF Scanned
  <2>2. 1 \in DOMAIN list
    BY <1>2, <1>4
  <2>3. {f \in Installed : Runs(f)} # {}
    BY <1>2, <2>2 DEF Drawn
  <2> HIDE DEF list
  <2> QED
    BY <1>1, <1>2, <2>1, <2>3 DEF Offers, Drawn
<1> QED
  BY <1>3, <1>4

-----------------------------------------------------------------------------
OnWay(p) == Underway(cursor[p], found[p])

ListsInv ==
    edits = 0 =>
        /\ dpc \in {"init", "scan"} => OnWay("daemon")
        /\ gpc = "scan" => OnWay("greeter")
        /\ Alive => Offers(m_cached_sessions, Installed)
        /\ gpc \in {"ready", "login", "power"} => Offers(m_sessions, Installed)
        /\ answer \notin {Nothing, EndOfFile} /\ gpc = "sessions" =>
               Offers(Received(answer).sessions, Installed)

LEMMA ListsInit == Init => ListsInv
BY DEF Init, ListsInv, Alive

\* What the steps of a scan do to it, and to the other one.
LEMMA ScanSteps ==
    ASSUME TypeOK, NEW p \in Scanners, UNCHANGED desktops
    PROVE  /\ ScanOpens(p) => OnWay(p)'
           /\ ScanEntry(p) /\ OnWay(p) => OnWay(p)'
           /\ cursor[p] > Len(desktops) /\ OnWay(p) => Offers(Scanned(p), Installed)
           /\ ScanOpens(p) \/ ScanEntry(p) \/ ScanForgotten(p) =>
                 \A q \in Scanners \ {p} : cursor'[q] = cursor[q] /\ found'[q] = found[q]
<1> USE DEF TypeOK
<1>1. \A n, list : Underway(n, list)' <=> Underway(n, list)
  BY DEF Underway, Drawn, Installed
<1>2. ASSUME ScanOpens(p)
      PROVE  OnWay(p)'
  <2>1. cursor'[p] = 1 /\ found'[p] = <<>>
    BY <1>2 DEF ScanOpens
  <2>2. Underway(1, <<>>)'
    BY <1>1, ScanBegins
  <2> QED
    BY <2>1, <2>2 DEF OnWay
<1>3. ASSUME ScanEntry(p), OnWay(p)
      PROVE  OnWay(p)'
  <2> DEFINE n == cursor[p] + 1
             list == Kept(desktops[cursor[p]], found[p])
  <2>1. cursor'[p] = n /\ found'[p] = list
    BY <1>3 DEF ScanEntry
  <2>2. Underway(n, list)
    BY <1>3, ScanGoesOn DEF ScanEntry, OnWay
  <2> HIDE DEF n, list
  <2>3. Underway(cursor'[p], found'[p])
    BY <2>1, <2>2
  <2> QED
    BY <2>3 DEF OnWay, Underway, Drawn, Installed
<1>4. ASSUME cursor[p] > Len(desktops), OnWay(p)
      PROVE  Offers(Scanned(p), Installed)
  BY <1>4, ScanEnds DEF OnWay
<1>5. ScanOpens(p) \/ ScanEntry(p) \/ ScanForgotten(p) =>
         \A q \in Scanners \ {p} : cursor'[q] = cursor[q] /\ found'[q] = found[q]
  BY DEF ScanOpens, ScanEntry, ScanForgotten
<1> QED
  BY <1>2, <1>3, <1>4, <1>5

LEMMA ListsStep ==
    ASSUME ControlInv, AnswersInv, ListsInv, [Next]_vars
    PROVE  ListsInv'
<1>1. CASE Edit
  BY <1>1 DEF Edit, ListsInv, ControlInv, TypeOK
<1>2. CASE ~Edit
  <2>1. UNCHANGED <<world, edits>>
    BY <1>2 DEF Next, DaemonSteps, GreeterSteps, UserSteps, Killed, Start,
       DaemonScans, InitDone, Accept, PollIdle, Check, Serves, ServeUsers,
       ServeSessions, SessionsScanned, ServePower, ServeLogin, Answer, Close, Launch,
       Logout, Dials, DialFails, Asks, AskUsers, AskSessions, Returns, UsersReturn,
       SessionsReturn, InitFails, GreeterScans, InitScanned, AttemptLogin, PressPower,
       LoginSucceeds, LoginFails, PowerReturns, PollTimesOut, GreeterEnds, Bus, vars
  <2>2. /\ UNCHANGED <<desktops, edits>> /\ Installed' = Installed
        /\ TypeOK /\ Scanners = {"daemon", "greeter"}
    BY <2>1 DEF world, Installed, ControlInv, Scanners
  <2>3. \A p \in Scanners :
           cursor'[p] = cursor[p] /\ found'[p] = found[p] /\ OnWay(p) => OnWay(p)'
    BY <2>2 DEF OnWay, Underway, Drawn
  <2> USE <2>2 DEF ListsInv, ControlInv, CallInv, PlaceInv, Alive, Goto, socket, caches,
          daemon, lists, greeter, scans
  <2>4. CASE Killed
    BY <2>3, <2>4, ScanSteps DEF Killed, CloseClient
  <2>5. CASE Start
    BY <2>3, <2>5, ScanSteps DEF Start
  <2>6. CASE DaemonScans
    BY <2>3, <2>6, ScanSteps DEF DaemonScans
  <2>7. CASE InitDone
    <3>1. Offers(Scanned("daemon"), Installed) \/ edits # 0
      BY <2>7, ScanSteps DEF InitDone
    <3> QED
      BY <2>7, <3>1 DEF InitDone, NewSocket, HangUp
  <2>8. CASE Logout
    BY <2>3, <2>8 DEF Logout, StartGreeter, CloseClient
  <2>9. CASE Accept \/ PollIdle
    BY <2>3, <2>9 DEF Accept, AcceptNext, PollIdle
  <2>10. CASE Check
    BY <2>3, <2>10 DEF Check, StartGreeter
  <2>11. CASE ServeUsers \/ ServePower \/ ServeLogin
    BY <2>3, <2>11 DEF ServeUsers, ServePower, ServeLogin, Serves
  <2>12. CASE ServeSessions
    BY <2>3, <2>12, ScanSteps DEF ServeSessions, Serves
  <2>13. CASE SessionsScanned
    BY <2>3, <2>13, ScanSteps DEF SessionsScanned, ScanDone
  <2>14. CASE Answer
    BY <2>3, <2>14, AnswerIsFor DEF Answer, Write, AnswersInv, ResultInv
  <2>15. CASE Close \/ Launch
    BY <2>3, <2>15 DEF Close, CloseClient, Launch
  <2>16. CASE AskUsers \/ AskSessions \/ UserSteps
    BY <2>3, <2>16 DEF AskUsers, AskSessions, Asks, UserSteps, AttemptLogin,
       PressPower, Begin
  <2>24. CASE Dials \/ DialFails \/ PollTimesOut
    BY <2>3, <2>24 DEF Dials, Connect, DialFails, ConnectFails, PollTimesOut, TimesOut
  <2>17. CASE UsersReturn \/ SessionsReturn
    BY <2>3, <2>17 DEF UsersReturn, SessionsReturn, Returns, HangUp, HasReply, Granted
  <2>18. CASE InitFails
    BY <2>3, <2>18, ScanSteps DEF InitFails, Returns, HangUp
  <2>19. CASE GreeterScans
    BY <2>3, <2>19, ScanSteps DEF GreeterScans
  <2>20. CASE InitScanned
    BY <2>3, <2>20, ScanSteps DEF InitScanned, ScanDone
  <2>21. CASE LoginSucceeds \/ LoginFails \/ PowerReturns
    BY <2>3, <2>21 DEF LoginSucceeds, LoginFails, PowerReturns, Returns, HangUp
  <2>22. CASE GreeterEnds
    BY <2>3, <2>22, ScanSteps DEF GreeterEnds, HangUp
  <2>23. CASE Bus \/ UNCHANGED vars
    BY <2>3, <2>23 DEF Bus, vars
  <2> QED
    BY <1>2, <2>4, <2>5, <2>6, <2>7, <2>8, <2>9, <2>10, <2>11, <2>12, <2>13, <2>14,
       <2>15, <2>16, <2>17, <2>18, <2>19, <2>20, <2>21, <2>22, <2>23, <2>24
       DEF Next, DaemonSteps, GreeterSteps
<1> QED
  BY <1>1, <1>2

(***************************************************************************)
(* EverySessionOffered: whoever scans, and whoever is asked for a list     *)
(* that was scanned, offers every file that runs something and no other.   *)
(***************************************************************************)
THEOREM EverySessionOfferedCorrect == Spec => []EverySessionOffered
<1>1. ListsInv => EverySessionOffered
  BY DEF ListsInv, EverySessionOffered, Alive
<1> QED
  BY <1>1, ListsInit, ListsStep, AnswersCorrect, ControlCorrect, PTL DEF Spec
=============================================================================
