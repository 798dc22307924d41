------------------------------ MODULE Catalog -------------------------------
(***************************************************************************)
(* Who can log in, and to what: UserScanner and SessionScanner             *)
(* (src/src/common), which the daemon and the greeter both run, and the    *)
(* lookups of handle_login_request().  A scan of the desktop files takes   *)
(* them one by one in the order the directories give them, and keeps the   *)
(* first of those that share an id or a name; each is read when its turn   *)
(* comes, and the directories may change between two of them.              *)
(*                                                                         *)
(* A user is what a login needs of UserInfo, name and uid; a desktop file  *)
(* has its stem for an id and the name and exec it sets, "" when it does   *)
(* not.                                                                    *)
(***************************************************************************)
EXTENDS Naturals, Sequences

CONSTANTS
    Texts,          \* names, ids and commands
    GreeterUid      \* whom the greeter runs as

ASSUME CatalogAssumption ==
    /\ {"", "user", "nobody", "miquland", "miquland (Wayland)", "Wayland"}
           \subseteq Texts
    /\ GreeterUid \in Nat

VARIABLES
    accounts,       \* the password database
    desktops,       \* the desktop files, in the order of the directories
    cursor,         \* process -> the file its scan reads next, 0 without one
    found           \* process -> the list so far

world == <<accounts, desktops>>
scans == <<cursor, found>>

Scanners == {"daemon", "greeter"}

Accounts == [username : Texts, uid : Nat, shell : {"login", "nologin"}]
UserInfo == [username : Texts, uid : Nat]
SessionInfo == [id : Texts, name : Texts, exec : Texts]

-----------------------------------------------------------------------------
\* scan_users(): interactive accounts, or else the user who scans.
Interactive(a) ==
    /\ a.uid >= 1000
    /\ a.uid < 60000
    /\ a.username # "nobody"
    /\ a.shell # "nologin"

ScanUsers(own) ==
    LET users == {[username |-> a.username, uid |-> a.uid] :
                      a \in {b \in accounts : Interactive(b)}}
    IN IF users = {} THEN {[username |-> "user", uid |-> own]} ELSE users

\* The record a session is launched with; one that is not listed gets the
\* defaults of UserInfo.
FindUser(users, name) ==
    IF \E u \in users : u.username = name
    THEN CHOOSE u \in users : u.username = name
    ELSE [username |-> name, uid |-> 0]

-----------------------------------------------------------------------------
\* parse_desktop_file(): a file without a name is called by its id.
Parsed(f) == IF f.name = "" THEN [f EXCEPT !.name = f.id] ELSE f

\* Seeded fault: duplicates looked for by name alone.
Duplicate_ByName(s, list) == \E i \in DOMAIN list : list[i].name = s.name

Duplicate(s, list) ==
    \E i \in DOMAIN list : list[i].id = s.id \/ list[i].name = s.name

\* scan_directory(), one file: those that run nothing are passed over.
Kept(f, list) ==
    IF Parsed(f).exec = "" \/ Duplicate(Parsed(f), list)
    THEN list
    ELSE Append(list, Parsed(f))

ScanOpens(p) ==
    /\ cursor' = [cursor EXCEPT ![p] = 1]
    /\ found' = [found EXCEPT ![p] = <<>>]

ScanForgotten(p) ==
    /\ cursor' = [cursor EXCEPT ![p] = 0]
    /\ found' = [found EXCEPT ![p] = <<>>]

ScansForgotten ==
    /\ cursor' = [p \in Scanners |-> 0]
    /\ found' = [p \in Scanners |-> <<>>]

\* Seeded fault: a break where the loop goes on to the next file.
ScanEntry_Breaks(p) ==
    /\ cursor[p] \in DOMAIN desktops
    /\ found' = [found EXCEPT ![p] = Kept(desktops[cursor[p]], @)]
    /\ cursor' = [cursor EXCEPT ![p] =
                     IF found' = found THEN Len(desktops) + 1 ELSE @ + 1]

\* The next file, as it is by now.
ScanEntry(p) ==
    /\ cursor[p] \in DOMAIN desktops
    /\ found' = [found EXCEPT ![p] = Kept(desktops[cursor[p]], @)]
    /\ cursor' = [cursor EXCEPT ![p] = @ + 1]

ScanDone(p) ==
    /\ cursor[p] > Len(desktops)
    /\ ScanForgotten(p)

\* Where a directory that changes puts those who are reading it is not
\* specified: files are missed, or come again.
ScansDisturbed ==
    /\ cursor' \in [Scanners -> 0 .. Len(desktops') + 1]
    /\ \A p \in Scanners : cursor'[p] = 0 <=> cursor[p] = 0
    /\ UNCHANGED found

\* scan_all(): its result once every file was read.
FallbackSession ==
    [id |-> "miquland", name |-> "miquland (Wayland)", exec |-> "miquland"]

Scanned(p) == IF found[p] = <<>> THEN <<FallbackSession>> ELSE found[p]

-----------------------------------------------------------------------------
Matches(s, desktop, exec) ==
    s.id = desktop \/ s.name = desktop \/ s.exec = exec

\* Seeded fault: the last match instead of the first.
FindSession_Last(list, desktop, exec) ==
    LET hits == {i \in DOMAIN list : Matches(list[i], desktop, exec)}
    IN IF hits # {}
       THEN list[CHOOSE i \in hits : \A j \in hits : i >= j]
       ELSE [id |-> "", name |-> desktop, exec |-> exec]

\* The first listed session that matches, or one made up from the request.
FindSession(list, desktop, exec) ==
    LET hits == {i \in DOMAIN list : Matches(list[i], desktop, exec)}
    IN IF hits # {}
       THEN list[CHOOSE i \in hits : \A j \in hits : i <= j]
       ELSE [id |-> "",
             name |-> IF desktop = "" THEN "Wayland" ELSE desktop,
             exec |-> IF exec = "" THEN "miquland" ELSE exec]
=============================================================================
