----------------------------- MODULE GameClient -----------------------------
(***************************************************************************)
(* The test client (TestClient/ClientMain.cpp) over the database thread:   *)
(* several client processes, each at its menu, send requests and read the  *)
(* answers; they time out, reconnect, send again, exit and start again.    *)
(*                                                                         *)
(* The server's threads are reduced to what a client sees of them: one     *)
(* step receives a packet or notices the end of a connection, one handles  *)
(* a task and sends its response (ServerPipeline has the steps between).   *)
(* A connection is known by the server's handle.  Packets are the tasks    *)
(* they become.  A client whose connection the server has closed keeps     *)
(* connected = TRUE and has no handle.                                     *)
(***************************************************************************)
EXTENDS DatabaseThread, Sequences, Functions

CONSTANTS
    Clients,
    Username,       \* of the account each client's user has the password of
    NoClient,
    NoCommand,
    MaxMishaps,     \* bound of the model: sends, answers and connections that fail or are ended
    MaxQueue        \* bound of the model: tasks that wait

ASSUME ClientAssumption ==
    /\ Username \in [Clients -> Names]
    /\ NoClient \notin Clients /\ NoCommand \notin Tasks
    /\ {"Login", "ClientDisconnected"} \subseteq Kinds
    /\ MaxMishaps \in Nat /\ MaxQueue \in Nat \ {0}

VARIABLES
    client,         \* pc, _client_socket, _connected, _current_user_id, the request sent;
                    \* misled: it has read a response to a former holder of its handle
    holder,         \* of each handle: the client whose connection it is
    ended,          \* handles whose client's end is closed, unnoticed by the server
    uplink,         \* per handle: packets sent to the server and not received
    downlink,       \* per handle: responses not read
    RecvPakets,     \* the task queue; from: who sent it, NoClient once its connection is closed
    mishaps

network == <<holder, ended, uplink, downlink, RecvPakets>>
clientVars == <<client, network, mishaps>>
allVars == <<vars, clientVars>>

Free(k) == holder[k] = NoClient
HandlesOf(c) == {k \in Sockets : holder[k] = c}

Mishap == mishaps < MaxMishaps /\ mishaps' = mishaps + 1

\* no step of the database thread
NoTask == reply' = NoReply /\ UNCHANGED <<tables, phase>>

-----------------------------------------------------------------------------
(* Connections.                                                            *)

NewProcess == [pc |-> "ended", sock |-> NoSocket, connected |-> FALSE, user |-> NoId,
               command |-> NoCommand, misled |-> FALSE]

Connect(c, then) ==
    \E k \in Sockets :
        /\ Free(k)
        /\ holder' = [holder EXCEPT ![k] = c]
        /\ client' = [client EXCEPT ![c].sock = k, ![c].connected = TRUE, ![c].pc = then,
                                    ![c].misled = FALSE]
        /\ UNCHANGED <<ended, uplink, downlink, RecvPakets, mishaps>>

NoConnection(c, then) ==
    client' = [client EXCEPT ![c].sock = NoSocket, ![c].connected = FALSE, ![c].pc = then]

\* three attempts in vain
ConnectFails(c, then) ==
    /\ \/ Mishap
       \/ ~(\E k \in Sockets : Free(k)) /\ UNCHANGED mishaps
    /\ NoConnection(c, then)
    /\ UNCHANGED network

\* main
Start(c) ==
    /\ client[c].pc = "ended"
    /\ Connect(c, "menu") \/ ConnectFails(c, "ended")
    /\ NoTask

\* The destructor closes the socket in use, the end of the process the others.
Exit(c) ==
    /\ client[c].pc = "menu"
    /\ ended' = ended \cup HandlesOf(c)
    /\ Mishap
    /\ client' = [client EXCEPT ![c] = NewProcess]
    /\ NoTask /\ UNCHANGED <<holder, uplink, downlink, RecvPakets>>

\* Item 8 of the menu.  Disconnect closes nothing when _connected is already FALSE: the
\* socket is lost and its connection stays.
Reconnect(c) ==
    /\ client[c].pc = "menu"
    /\ ended' = IF client[c].connected THEN ended \cup (HandlesOf(c) \cap {client[c].sock})
                                       ELSE ended
    /\ IF client[c].connected THEN Mishap ELSE UNCHANGED mishaps
    /\ NoConnection(c, "reconnect")
    /\ NoTask /\ UNCHANGED <<holder, uplink, downlink, RecvPakets>>

\* the rest of TryReconnect; a login that could not be sent is sent after it
TryReconnect(c) ==
    /\ \/ client[c].pc = "reconnect" /\ (Connect(c, "menu") \/ ConnectFails(c, "menu"))
       \/ client[c].pc = "resend" /\ (Connect(c, "send") \/ ConnectFails(c, "menu"))
    /\ NoTask

-----------------------------------------------------------------------------
(* Requests.                                                               *)

Unsent == CHOOSE k \in Sockets : TRUE       \* until SendPacket a request has no socket

\* what the user may enter: TestLogout, TestCreateGameServer and TestJoinGameServer ask
\* for a login first
Commands(c) ==
    {t \in Tasks : /\ t.socket = Unsent
                   /\ t.kind \notin {"CloseGameServer", "ClientDisconnected", "Malformed"}
                   /\ t.valid
                   /\ t.kind = "Login" => t.name = Username[c] /\ t.password
                   /\ t.kind \in {"Logout", "CreateGameServer", "JoinGameServer"} =>
                         t.user = client[c].user}

\* SendPacket succeeds: the header and the whole body are sent
SendPacket(c, t) ==
    LET k == client[c].sock IN
    /\ client[c].connected /\ k # NoSocket
    /\ uplink' = [uplink EXCEPT ![k] = Append(@, [t EXCEPT !.socket = k])]
    /\ client' = [client EXCEPT ![c].pc = "await", ![c].command = [t EXCEPT !.socket = k]]
    /\ UNCHANGED <<holder, ended, downlink, RecvPakets, mishaps>>

SendFails(c, t, then) ==
    /\ IF client[c].connected /\ client[c].sock # NoSocket THEN Mishap ELSE UNCHANGED mishaps
    /\ client' = [client EXCEPT ![c].pc = then, ![c].connected = FALSE, ![c].command = t]
    /\ UNCHANGED network

\* TestLogin tries to reconnect when it cannot send, the other commands return to the menu
Issue(c, t) ==
    /\ client[c].pc = "menu"
    /\ \/ SendPacket(c, t)
       \/ t.kind = "Login" /\ SendFails(c, t, "resend")
       \/ t.kind # "Login" /\ SendFails(c, NoCommand, "menu")
    /\ NoTask

SendAgain(c) ==
    /\ client[c].pc = "send"
    /\ SendPacket(c, client[c].command) \/ SendFails(c, NoCommand, "menu")
    /\ NoTask

\* The account a client shows once it has read a: a response of another kind does not parse
\* and is dropped.
UserAfter(c, a) ==
    LET accepted == a.reply.task.kind = client[c].command.kind /\ a.reply.result = "SUCCESS" IN
    CASE accepted /\ a.reply.task.kind = "Login" -> a.reply.id
      [] accepted /\ a.reply.task.kind = "Logout" -> NoId
      [] OTHER -> client[c].user

Response(c) ==
    LET k == client[c].sock IN
    /\ client[c].pc = "await" /\ k # NoSocket /\ downlink[k] # <<>>
    /\ downlink' = [downlink EXCEPT ![k] = Tail(@)]
    /\ client' = [client EXCEPT ![c] = [client[c] EXCEPT
           !.pc = "menu", !.command = NoCommand,
           !.misled = client[c].misled \/ Head(downlink[k]).from # c,
           !.user = UserAfter(c, Head(downlink[k]))]]
    /\ NoTask /\ UNCHANGED <<holder, ended, uplink, RecvPakets, mishaps>>

\* what a client has under way over a handle: packets, tasks and responses
UnderWay(c, k) ==
    (IF holder[k] = c THEN Range(uplink[k]) ELSE {})
    \cup {e.task : e \in {e \in Range(RecvPakets) : e.from = c /\ e.task.socket = k}}
    \cup {r.reply.task : r \in {r \in Range(downlink[k]) : r.from = c}}

Answering(c) == client[c].sock # NoSocket /\ UnderWay(c, client[c].sock) # {}

AfterReceive(c) == IF client[c].command.kind = "Login" THEN "reconnect" ELSE "menu"

\* Mutant: a timeout is reported and the connection stays in use.
NoResponseStays(c) ==
    /\ client[c].pc = "await"
    /\ IF Answering(c) THEN Mishap ELSE UNCHANGED mishaps
    /\ client' = [client EXCEPT ![c].pc = "menu", ![c].command = NoCommand]
    /\ NoTask /\ UNCHANGED <<network>>

\* The timeout of 30 s or the end of the connection; early, it is a fault.
NoResponse(c) ==
    /\ client[c].pc = "await"
    /\ IF Answering(c) THEN Mishap ELSE UNCHANGED mishaps
    /\ client' = [client EXCEPT ![c].pc = AfterReceive(c), ![c].connected = FALSE,
                                ![c].command = NoCommand]
    /\ NoTask /\ UNCHANGED <<network>>

-----------------------------------------------------------------------------
(* The server.                                                             *)

Receive(k) ==
    /\ uplink[k] # <<>> /\ Len(RecvPakets) < MaxQueue
    /\ uplink' = [uplink EXCEPT ![k] = Tail(@)]
    /\ RecvPakets' = Append(RecvPakets, [task |-> Head(uplink[k]), from |-> holder[k]])
    /\ NoTask /\ UNCHANGED <<client, holder, ended, downlink, mishaps>>

Disconnection(k) == [task |-> [kind |-> "ClientDisconnected", socket |-> k], from |-> NoClient]

\* The client is removed: the database thread is told, then the handle is free.
Remove(k, queue) ==
    /\ holder' = [holder EXCEPT ![k] = NoClient]
    /\ ended' = ended \ {k}
    /\ uplink' = [uplink EXCEPT ![k] = <<>>]
    /\ downlink' = [downlink EXCEPT ![k] = <<>>]
    /\ RecvPakets' = [i \in DOMAIN queue |->
                         IF queue[i].task.socket = k THEN [queue[i] EXCEPT !.from = NoClient]
                                                     ELSE queue[i]] \o <<Disconnection(k)>>
    /\ client' = [c \in Clients |-> IF client[c].sock = k THEN [client[c] EXCEPT !.sock = NoSocket]
                                                          ELSE client[c]]

NoticeEnd(k) ==
    /\ k \in ended /\ uplink[k] = <<>> /\ Len(RecvPakets) < MaxQueue
    /\ Remove(k, RecvPakets)
    /\ NoTask /\ UNCHANGED <<mishaps>>

\* Mutant: nobody looks whether the handle is still a client's.
SendableToAnyone(k) == reply' # NoReply /\ reply'.packet

\* FindWorkerThreadBySocket finds whoever has the handle now.
Sendable(k) == reply' # NoReply /\ reply'.packet /\ ~Free(k)

\* What cannot be sent is dropped; so may be what can, or it ends the connection.
Answer(k, from, queue) ==
    \/ /\ Sendable(k)
       /\ downlink' = [downlink EXCEPT ![k] = Append(@, [reply |-> reply', from |-> from])]
       /\ RecvPakets' = queue
       /\ UNCHANGED <<client, holder, ended, uplink, mishaps>>
    \/ /\ IF Sendable(k) THEN Mishap ELSE UNCHANGED mishaps
       /\ RecvPakets' = queue
       /\ UNCHANGED <<client, holder, ended, uplink, downlink>>
    \/ /\ Sendable(k) /\ Mishap
       /\ Remove(k, queue)

Handle ==
    /\ RecvPakets # <<>>
    /\ ProcessTask(Head(RecvPakets).task)
    /\ UNCHANGED phase
    /\ Answer(Head(RecvPakets).task.socket, Head(RecvPakets).from, Tail(RecvPakets))

-----------------------------------------------------------------------------
\* a client that has gone may have left a login behind, before the end of its connection
Leftovers == {<<[task |-> t, from |-> NoClient], Disconnection(t.socket)>> :
                 t \in {t \in LoginTask : t.socket = Unsent /\ t.valid /\ t.password}}

ClientInit ==
    /\ InitTables /\ phase = "running" /\ reply = NoReply
    /\ client = [c \in Clients |-> NewProcess]
    /\ holder = [k \in Sockets |-> NoClient]
    /\ ended = {}
    /\ uplink = [k \in Sockets |-> <<>>]
    /\ downlink = [k \in Sockets |-> <<>>]
    /\ RecvPakets \in {<<>>} \cup Leftovers
    /\ mishaps = 0

\* what goes on by itself once the user has chosen
Proceed(c) == TryReconnect(c) \/ SendAgain(c) \/ Response(c) \/ NoResponse(c)

Server == Handle \/ \E k \in Sockets : Receive(k) \/ NoticeEnd(k)

ClientNext ==
    \/ \E c \in Clients : \/ Start(c) \/ Exit(c) \/ Reconnect(c) \/ Proceed(c)
                          \/ \E t \in Commands(c) : Issue(c, t)
    \/ Server

TryLogIn(c) ==
    /\ client[c].user = NoId
    /\ \E t \in Commands(c) : t.kind = "Login" /\ Issue(c, t)

\* The server works on, a command that was chosen ends, and whatever else a user does, time
\* and again there is a client process and, as long as nobody is logged in, a login is tried.
\* That a connection has ended may stay unnoticed (WorkerThread.cpp:313).
ClientSpec ==
    /\ ClientInit /\ [][ClientNext]_allVars
    /\ WF_allVars(Handle)
    /\ \A k \in Sockets : WF_allVars(Receive(k))
    /\ \A c \in Clients : WF_allVars(Proceed(c)) /\ WF_allVars(Start(c)) /\ SF_allVars(TryLogIn(c))

-----------------------------------------------------------------------------
\* A client waits, or is at its menu; handles, packets and tasks are what they can be.
ClientTypeOK ==
    /\ client \in [Clients -> [pc : {"ended", "menu", "send", "resend", "reconnect", "await"},
                               sock : Sockets \cup {NoSocket}, connected : BOOLEAN,
                               user : UserIds \cup {NoId}, command : Tasks \cup {NoCommand},
                               misled : BOOLEAN]]
    /\ holder \in [Sockets -> Clients \cup {NoClient}]
    /\ ended \subseteq Sockets /\ mishaps \in 0..MaxMishaps
    /\ \A c \in Clients : client[c].sock # NoSocket => holder[client[c].sock] = c
    /\ \A k \in Sockets : Free(k) => uplink[k] = <<>> /\ downlink[k] = <<>>

\* A connection in use carries nothing of its client but the request it waits for, so the
\* next response that a client reads answers the last request it sent, however many answers
\* were late, lost or given up (ClientMain.cpp:161) - as long as it has not been given the
\* response to a former holder of its handle, after which it is one answer behind.
OwnAnswer ==
    \A c \in Clients :
        client[c].connected /\ client[c].sock # NoSocket /\ ~client[c].misled =>
            UnderWay(c, client[c].sock)
                \subseteq IF client[c].pc = "await" THEN {client[c].command} ELSE {}

\* nothing of a former holder of the handle is left in the queue
Settled(k) == \A e \in Range(RecvPakets) : e.task.socket = k => e.from = holder[k]

\* the server has the session the client shows
LoggedIn(c) ==
    /\ client[c].user # NoId /\ client[c].sock # NoSocket
    /\ Settled(client[c].sock)
    /\ user_sessions[client[c].user] = NewSession(client[c].sock)

Concerns(t, u) == \/ t.kind = "Login" /\ t.name = users[u]
                  \/ t.kind = "Logout" /\ t.user = u

\* A client's session ends with its connection, or by a login or logout of that account,
\* and by nothing that belongs to another account or connection.  (While requests of a former
\* holder of its handle are queued, a client may be told that it is logged in, and be logged
\* out again, by those.)
SessionEndsByName ==
    [][\A c \in Clients :
          LoggedIn(c) /\ ~LoggedIn(c)' =>
              \/ client'[c].user # client[c].user
              \/ client'[c].sock # client[c].sock
              \/ Concerns(Head(RecvPakets).task, client[c].user)]_allVars

Contended(c) == \E d \in Clients \ {c} : client[d].pc = "await" /\ client[d].command.kind = "Login"

\* A user with an account who keeps trying is let in, whatever sessions were left behind by
\* connections that broke, unless others keep logging in (DatabaseThread.cpp:420).
LetIn ==
    \A c \in Clients :
        \/ []<>Contended(c)
        \/ (\E u \in UserIds : users[u] = Username[c]) ~> client[c].user # NoId
=============================================================================
