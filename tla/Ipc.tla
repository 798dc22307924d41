-------------------------------- MODULE Ipc ---------------------------------
(***************************************************************************)
(* The Unix socket between the greeter and the daemon: IpcClient           *)
(* (src/src/greeter/ipc_client.cpp) on one side, accept(), write() and     *)
(* close() of the daemon on the other.  The greeter makes one call at a    *)
(* time, each on a connection of its own, so only its youngest connection  *)
(* can still be open; those it has given up stay in the listen backlog     *)
(* with their request in them.  The listening socket is inherited by the   *)
(* greeter, so that it outlives the daemon: connect() goes on succeeding,  *)
(* and nobody accepts.                                                     *)
(***************************************************************************)
EXTENDS Naturals, Sequences

CONSTANTS
    Backlog,        \* connections the kernel queues
    NoLine,         \* no request
    Nothing,        \* nothing has arrived
    EndOfFile

ASSUME BacklogAssumption == Backlog \in Nat \ {0}

VARIABLES
    backlog,        \* requests of the connections not accepted, oldest first
    client,         \* the request of the accepted connection
    at,             \* where the greeter's open connection is
    call,           \* where send_request() is
    asked,          \* what it was called with, until it is written
    answer          \* what the greeter can read

socket == <<backlog, client, at, call, asked, answer>>

\* send_request() is called.
Begin(request) ==
    /\ call = "none"
    /\ call' = "connecting"
    /\ asked' = request
    /\ UNCHANGED <<backlog, client, at, answer>>

\* connect() and write(): while the backlog is full connect() does not return.
Connect ==
    /\ call = "connecting"
    /\ Len(backlog) < Backlog
    /\ backlog' = Append(backlog, asked)
    /\ at' = "queued"
    /\ call' = "waiting"
    /\ asked' = NoLine
    /\ UNCHANGED <<client, answer>>

\* socket() or connect() fails, or write() falls short of the line, which the
\* daemon then does not take for a request.
ConnectFails ==
    /\ call = "connecting"
    /\ call' = "failed"
    /\ UNCHANGED <<backlog, client, at, asked, answer>>

\* poll() has waited long enough.
TimesOut ==
    /\ call = "waiting" /\ answer = Nothing
    /\ call' = "failed"
    /\ UNCHANGED <<backlog, client, at, asked, answer>>

HasReply == call = "waiting" /\ answer \notin {Nothing, EndOfFile}

CallFails == call = "failed" \/ (call = "waiting" /\ answer = EndOfFile)

\* Seeded fault: a return from send_request() that does not close.
HangUp_LeaksSocket ==
    /\ call' = "none"
    /\ asked' = NoLine
    /\ at' = at
    /\ answer' = Nothing

\* close(), by send_request() or by the end of the greeter.
HangUp ==
    /\ call' = "none"
    /\ asked' = NoLine
    /\ at' = "none"
    /\ answer' = Nothing

-----------------------------------------------------------------------------
\* accept(), and read() of the whole line.
AcceptNext ==
    /\ client = NoLine /\ backlog # <<>>
    /\ client' = Head(backlog)
    /\ backlog' = Tail(backlog)
    /\ at' = IF at = "queued" /\ Len(backlog) = 1 THEN "accepted" ELSE at
    /\ UNCHANGED <<call, asked, answer>>

\* write(), whose result nobody looks at: without a reader it is lost.
Write(line) ==
    /\ answer' = IF at = "accepted" THEN line ELSE answer
    /\ UNCHANGED <<backlog, client, at, call, asked>>

\* Seeded fault: a connection that is never closed.
CloseClient_Leaks == UNCHANGED socket

\* close() of the accepted connection, or the end of the daemon.
CloseClient ==
    /\ client' = NoLine
    /\ at' = IF at = "accepted" THEN "none" ELSE at
    /\ answer' = IF at = "accepted" /\ answer = Nothing
                 THEN EndOfFile ELSE answer
    /\ UNCHANGED <<backlog, call, asked>>

\* setup_ipc_socket(): another socket under the same name, and a greeter that
\* has made no call yet.
NewSocket ==
    /\ backlog' = <<>>
    /\ HangUp
    /\ UNCHANGED client
=============================================================================
