------------------------------ MODULE Messages ------------------------------
(***************************************************************************)
(* IpcMessage (src/src/common/ipc.cpp) as it crosses the socket.  A line   *)
(* carries the type, success, and of the other fields those that are not   *)
(* empty; a key that is absent is read back as what its get() falls back   *)
(* on.  The text of a message, the password and the encoding itself are    *)
(* left out.                                                               *)
(***************************************************************************)
EXTENDS Sequences

NoText == ""

\* What serialize() leaves out.
Empty == [username |-> NoText, session_exec |-> NoText, desktop_name |-> NoText,
          power_action |-> NoText, users |-> {}, sessions |-> <<>>]

\* What deserialize() makes of a line without a key.
Blank == [type |-> "unknown", success |-> FALSE, username |-> NoText,
          session_exec |-> NoText, desktop_name |-> NoText,
          power_action |-> NoText, users |-> {}, sessions |-> <<>>]

Fields == DOMAIN Blank

\* serialize()
Sent(m) ==
    [k \in {k \in Fields : k \in DOMAIN Empty => m[k] # Empty[k]} |-> m[k]]

\* deserialize()
Received(line) ==
    [k \in Fields |-> IF k \in DOMAIN line THEN line[k] ELSE Blank[k]]

-----------------------------------------------------------------------------
\* The requests of ipc_client.cpp.
Ask(type) == [Blank EXCEPT !.type = type]

Login(user, exec, desktop) ==
    [Blank EXCEPT !.type = "login", !.username = user,
                  !.session_exec = exec, !.desktop_name = desktop]

Power(action) ==
    [Blank EXCEPT !.type = "power_action", !.power_action = action]

\* The daemon's responses.
Response(ok) == [Blank EXCEPT !.type = "response", !.success = ok]

UsersAre(list) == [Response(TRUE) EXCEPT !.users = list]

SessionsAre(list) == [Response(TRUE) EXCEPT !.sessions = list]
=============================================================================
