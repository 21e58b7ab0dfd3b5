--------------------------- MODULE ServerPipeline ---------------------------
(***************************************************************************)
(* The threads around the database thread: accept (Server::Run), worker    *)
(* threads (WorkerThread::RunOnServerThread) that turn what clients send   *)
(* into tasks, and the response handler (Server::ResponseHandlerLoop).     *)
(* RecvPakets carries tasks to the database thread, SendPackets responses  *)
(* from it; both are FIFO.                                                 *)
(*                                                                         *)
(* A connection is a fact of the model: the program only knows its SOCKET, *)
(* a handle that accept may hand out again once closesocket has run.       *)
(* Queue entries carry the connection they come from ("from") for the      *)
(* properties alone; no guard reads it.                                    *)
(*                                                                         *)
(* Abstractions.  recv takes a whole packet, never a part of one.  The     *)
(* client list of a worker is a set, its nodes are not modelled.  The      *)
(* process does not stop (phase stays "running").                          *)
(***************************************************************************)
EXTENDS DatabaseThread, Sequences, FiniteSets, Functions

CONSTANTS
    Conns,          \* connections, each accepted at most once
    Workers,        \* worker threads; any may be the one not yet created
    Handler,        \* the response handler thread
    NoThread, NoConn, NoItem,
    MaxClients,     \* MAX_CLIENT_COUNT
    Settings,       \* what may happen around the server, by name
    MaxRequests     \* bound of the model: requests of one connection

ASSUME PipelineAssumption ==
    /\ MaxClients \in Nat \ {0} /\ MaxRequests \in Nat
    /\ Handler \notin Workers
    /\ NoThread \notin Workers /\ NoConn \notin Conns
    /\ "ClientDisconnected" \in Kinds
    \* requests: what clients may send (the socket of a task is not looked at)
    \* sends: how send may end on an open socket; "full" is WSAEWOULDBLOCK until the
    \*   retries are used up, "broken" any other error
    \* urgent: clients may send out-of-band data, an error to select
    \* slow: a recv may find that nothing has arrived yet
    /\ \A s \in Range(Settings) :
          /\ s.requests \subseteq {t \in Tasks : t.kind # "ClientDisconnected"}
          /\ s.sends \subseteq {"sent", "full", "broken"}
          /\ s.urgent \in BOOLEAN /\ s.slow \in BOOLEAN

VARIABLES
    setting,    \* the behaviour's setting; it never changes
    blocked,    \* per worker: the last error of its thread is WSAEWOULDBLOCK
    conn,       \* handle, worker and membership in its list; the client's end,
                \* how many requests it sent and how many responses it got
    inbox,      \* requests sent by the client and not yet received
    recvQ,      \* RecvPakets
    sendQ,      \* SendPackets
    thread,     \* where each worker and the handler are in their loop
    socketList, \* per worker: the handles it copied from its list and has still to read
    opener      \* the connection whose request opened each session

pipes == <<setting, blocked, conn, inbox, recvQ, sendQ, thread, socketList, opener>>
serverVars == <<vars, pipes>>

Threads == Workers \cup {Handler}
Idle == [pc |-> "idle", conn |-> NoConn, item |-> NoItem]
Unconnected == [fd |-> NoSocket, worker |-> NoThread, listed |-> FALSE,
                peer |-> "absent", sent |-> 0, got |-> 0]

\* the open connection of a handle: at most one
Holders(k) == {c \in Conns : conn[c].fd = k}
Listed(k) == {c \in Holders(k) : conn[c].listed}
ClientsOf(w) == {c \in Conns : conn[c].worker = w /\ conn[c].listed}

-----------------------------------------------------------------------------
(* The clients.                                                            *)

SendRequest(c) ==
    /\ conn[c].peer = "open"
    /\ conn[c].sent < MaxRequests
    /\ \E r \in Settings[setting].requests :
          inbox' = [inbox EXCEPT ![c] = Append(@, [r EXCEPT !.socket = conn[c].fd])]
    /\ conn' = [conn EXCEPT ![c].sent = @ + 1]
    /\ UNCHANGED <<vars, setting, blocked, recvQ, sendQ, thread, socketList, opener>>

HangUp(c) ==
    /\ conn[c].peer = "open"
    /\ conn' = [conn EXCEPT ![c].peer = "closed"]
    /\ UNCHANGED <<vars, setting, blocked, inbox, recvQ, sendQ, thread, socketList, opener>>

-----------------------------------------------------------------------------
(* accept, FindCanUseWorkerThread and AddClient or a new WorkerThread.     *)

FreeHandles == {k \in Sockets : Holders(k) = {}}
CanUse(w) == Cardinality(ClientsOf(w)) < MaxClients

Accept(c) ==
    /\ conn[c].peer = "absent"
    /\ \E k \in FreeHandles, w \in Workers :
          /\ CanUse(w)
          /\ conn' = [conn EXCEPT ![c] = [fd |-> k, worker |-> w, listed |-> TRUE,
                                          peer |-> "open", sent |-> 0, got |-> 0]]
    /\ UNCHANGED <<vars, setting, blocked, inbox, recvQ, sendQ, thread, socketList, opener>>

-----------------------------------------------------------------------------
(* RemoveSocketFromList, run by a worker or by the handler: one CAS takes  *)
(* the client off the list, then the database thread is told, then the     *)
(* handle is closed.                                                       *)

\* the task a removed node leaves behind: the node keeps its socket
Goodbye(c) == [task |-> [kind |-> "ClientDisconnected", socket |-> conn[c].fd], from |-> c]

\* Mutant: the removed node is not marked, it stays on the list.
UnlinkKeepsNode(p, c) ==
    /\ conn[c].listed
    /\ thread' = [thread EXCEPT ![p] = [pc |-> "notify", conn |-> c, item |-> Goodbye(c)]]
    /\ UNCHANGED conn

\* Mutant: the handle is closed before the database thread is told.
UnlinkClosesFirst(p, c) ==
    /\ conn[c].listed
    /\ conn' = [conn EXCEPT ![c].listed = FALSE, ![c].fd = NoSocket]
    /\ thread' = [thread EXCEPT ![p] = [pc |-> "notify", conn |-> c, item |-> Goodbye(c)]]

Unlink(p, c) ==
    /\ conn[c].listed
    /\ conn' = [conn EXCEPT ![c].listed = FALSE]
    /\ thread' = [thread EXCEPT ![p] = [pc |-> "notify", conn |-> c, item |-> Goodbye(c)]]

\* Mutant: the database thread is not told.
NotifyNobody(p) ==
    /\ thread[p].pc = "notify"
    /\ thread' = [thread EXCEPT ![p].pc = "close"]
    /\ UNCHANGED <<vars, setting, blocked, conn, inbox, recvQ, sendQ, socketList, opener>>

Notify(p) ==
    /\ thread[p].pc = "notify"
    /\ recvQ' = Append(recvQ, thread[p].item)
    /\ thread' = [thread EXCEPT ![p].pc = "close"]
    /\ UNCHANGED <<vars, setting, blocked, conn, inbox, sendQ, socketList, opener>>

CloseSocket(p) ==
    /\ thread[p].pc = "close"
    /\ LET c == thread[p].conn IN
          /\ conn' = [conn EXCEPT ![c].fd = NoSocket, ![c].peer = "closed"]
          /\ inbox' = [inbox EXCEPT ![c] = <<>>]
    /\ thread' = [thread EXCEPT ![p] = Idle]
    /\ UNCHANGED <<vars, setting, blocked, recvQ, sendQ, socketList, opener>>

-----------------------------------------------------------------------------
(* Worker threads.  Each turn of the loop copies the handles of the list,   *)
(* then reads from every one that has something.  A handle of the copy may  *)
(* meanwhile have been closed, and given to another client.                 *)

\* Mutant: the worker copies the clients of every list.
CopyEveryList(w) ==
    /\ thread[w].pc = "idle"
    /\ socketList[w] = {}
    /\ ClientsOf(w) # {}
    /\ socketList' = [socketList EXCEPT ![w] = {k \in Sockets : Listed(k) # {}}]
    /\ UNCHANGED <<vars, setting, blocked, conn, inbox, recvQ, sendQ, thread, opener>>

CopyList(w) ==
    /\ thread[w].pc = "idle"
    /\ socketList[w] = {}
    /\ ClientsOf(w) # {}
    /\ socketList' = [socketList EXCEPT ![w] = {conn[c].fd : c \in ClientsOf(w)}]
    /\ UNCHANGED <<vars, setting, blocked, conn, inbox, recvQ, sendQ, thread, opener>>

\* the turn of c's handle
Visits(w, c) == thread[w].pc = "idle" /\ conn[c].fd \in socketList[w]
Visited(w, k) == socketList' = [socketList EXCEPT ![w] = @ \ {k}]
LastError(w, errors) == \E b \in errors : blocked' = [blocked EXCEPT ![w] = b]

\* select reports an error: the client goes, its handle stays on the copied list
SelectError(w, c) ==
    /\ Settings[setting].urgent
    /\ Visits(w, c)
    /\ c \in ClientsOf(w)
    /\ Unlink(w, c)
    /\ UNCHANGED <<vars, setting, blocked, inbox, recvQ, sendQ, socketList, opener>>

\* the header and the body are two sends: recv may have to wait for the second
Receive(w, c) ==
    /\ Visits(w, c)
    /\ inbox[c] # <<>>
    /\ thread' = [thread EXCEPT ![w] = [pc |-> "enqueue", conn |-> c, item |-> Head(inbox[c])]]
    /\ inbox' = [inbox EXCEPT ![c] = Tail(@)]
    /\ Visited(w, conn[c].fd)
    /\ LastError(w, {blocked[w], Settings[setting].slow})
    /\ UNCHANGED <<vars, setting, conn, recvQ, sendQ, opener>>

EnqueueTask(w) ==
    /\ thread[w].pc = "enqueue"
    /\ recvQ' = Append(recvQ, [task |-> thread[w].item, from |-> thread[w].conn])
    /\ thread' = [thread EXCEPT ![w] = Idle]
    /\ UNCHANGED <<vars, setting, blocked, conn, inbox, sendQ, socketList, opener>>

\* Mutant: a client is removed without a look whether it is still on the list.
DropClientBlindly(w, c) ==
    /\ Visits(w, c)
    /\ conn[c].worker = w
    /\ conn[c].peer = "closed"
    /\ conn' = [conn EXCEPT ![c].listed = FALSE]
    /\ thread' = [thread EXCEPT ![w] = [pc |-> "notify", conn |-> c, item |-> Goodbye(c)]]
    /\ Visited(w, conn[c].fd)
    /\ UNCHANGED <<vars, setting, blocked, inbox, recvQ, sendQ, opener>>

\* recv returns 0, or an error, which is then the last one; or a size above 64 KB: what was
\* not received is lost
DropClient(w, c) ==
    /\ Visits(w, c)
    /\ c \in ClientsOf(w)
    /\ \/ conn[c].peer = "closed" /\ LastError(w, {blocked[w], FALSE})
       \/ inbox[c] # <<>> /\ Head(inbox[c]).kind = "Malformed" /\ UNCHANGED blocked
    /\ Unlink(w, c)
    /\ Visited(w, conn[c].fd)
    /\ UNCHANGED <<vars, setting, inbox, recvQ, sendQ, opener>>

\* nothing to read; or recv returns 0 and the thread's last error, WSAEWOULDBLOCK, is from
\* an earlier call; or RemoveSocketFromList does not find the handle on this list
Skip(w, k) ==
    /\ thread[w].pc = "idle"
    /\ k \in socketList[w]
    /\ \A c \in Holders(k) :
          /\ inbox[c] = <<>>
          /\ c \in ClientsOf(w) => conn[c].peer = "open" \/ blocked[w]
    /\ LastError(w, {blocked[w]} \cup
                    IF Holders(k) \subseteq ClientsOf(w) THEN {}
                    ELSE {FALSE, Settings[setting].slow})
    /\ Visited(w, k)
    /\ UNCHANGED <<vars, setting, conn, inbox, recvQ, sendQ, thread, opener>>

WorkerStep(w) == \/ CopyList(w)
                 \/ \E c \in Conns : SelectError(w, c) \/ Receive(w, c) \/ DropClient(w, c)
                 \/ \E k \in Sockets : Skip(w, k)
                 \/ EnqueueTask(w)
                 \/ Notify(w)
                 \/ CloseSocket(w)

-----------------------------------------------------------------------------
(* The database thread: one task of RecvPakets, one response at most.      *)

Database ==
    /\ recvQ # <<>>
    /\ LET t == Head(recvQ).task  c == Head(recvQ).from IN
          /\ ProcessTask(t)
          /\ sendQ' = IF reply' = NoReply THEN sendQ ELSE Append(sendQ, reply')
          /\ opener' = [u \in UserIds |->
                IF user_sessions'[u].is_online /\ ~user_sessions[u].is_online
                THEN c ELSE opener[u]]
    /\ recvQ' = Tail(recvQ)
    /\ UNCHANGED <<phase, setting, blocked, conn, inbox, thread, socketList>>

-----------------------------------------------------------------------------
(* The response handler: ProcessDBResponse finds the worker that has the   *)
(* socket and calls its SendToClient.  A response that is empty, or whose  *)
(* socket no worker has, is dropped.                                       *)

Deliverable(r) == r.packet /\ Listed(r.task.socket) # {}

TakeResponse ==
    /\ thread[Handler].pc = "idle"
    /\ sendQ # <<>>
    /\ \/ /\ ~Deliverable(Head(sendQ))
          /\ UNCHANGED thread
       \/ /\ Head(sendQ).packet
          /\ \E c \in Listed(Head(sendQ).task.socket) :
                thread' = [thread EXCEPT ![Handler] =
                   [pc |-> "send", conn |-> NoConn,
                    item |-> [reply |-> Head(sendQ), via |-> conn[c].worker]]]
    /\ sendQ' = Tail(sendQ)
    /\ UNCHANGED <<vars, setting, blocked, conn, inbox, recvQ, socketList, opener>>

\* whoever holds the handle by the time of the send, and what RemoveSocketFromList would find
Addressees == Holders(thread[Handler].item.reply.task.socket)
Removable == {c \in Addressees : conn[c].listed /\ conn[c].worker = thread[Handler].item.via}

SendSucceeds ==
    /\ thread[Handler].pc = "send"
    /\ "sent" \in Settings[setting].sends
    /\ \E c \in Addressees : conn' = [conn EXCEPT ![c].got = @ + 1]
    /\ thread' = [thread EXCEPT ![Handler] = Idle]
    /\ UNCHANGED <<vars, setting, blocked, inbox, recvQ, sendQ, socketList, opener>>

\* the response is given up: no room in the socket's buffer, or an error and no client
SendGivesUp ==
    /\ thread[Handler].pc = "send"
    /\ \/ "full" \in Settings[setting].sends
       \/ Addressees = {}
       \/ "broken" \in Settings[setting].sends /\ Removable = {}
    /\ thread' = [thread EXCEPT ![Handler] = Idle]
    /\ UNCHANGED <<vars, setting, blocked, conn, inbox, recvQ, sendQ, socketList, opener>>

SendBreaks ==
    /\ thread[Handler].pc = "send"
    /\ "broken" \in Settings[setting].sends
    /\ \E c \in Removable : Unlink(Handler, c)
    /\ UNCHANGED <<vars, setting, blocked, inbox, recvQ, sendQ, socketList, opener>>

SendToClient == SendSucceeds \/ SendGivesUp \/ SendBreaks

HandlerStep == TakeResponse \/ SendToClient \/ Notify(Handler) \/ CloseSocket(Handler)

-----------------------------------------------------------------------------
ServerInit ==
    /\ InitTables
    /\ setting \in DOMAIN Settings
    /\ blocked = [w \in Workers |-> FALSE]
    /\ phase = "running"
    /\ reply = NoReply
    /\ conn = [c \in Conns |-> Unconnected]
    /\ inbox = [c \in Conns |-> <<>>]
    /\ recvQ = <<>>
    /\ sendQ = <<>>
    /\ thread = [p \in Threads |-> Idle]
    /\ socketList = [w \in Workers |-> {}]
    /\ opener = [u \in UserIds |-> NoConn]

ServerNext == \/ \E c \in Conns : Accept(c) \/ SendRequest(c) \/ HangUp(c)
              \/ \E w \in Workers : WorkerStep(w)
              \/ Database
              \/ HandlerStep

\* Every thread but accept loops for ever and only sleeps when it finds nothing to do.
Fairness == /\ \A w \in Workers : WF_serverVars(WorkerStep(w))
            /\ WF_serverVars(Database)
            /\ WF_serverVars(HandlerStep)

ServerSpec == ServerInit /\ [][ServerNext]_serverVars /\ Fairness

-----------------------------------------------------------------------------
Pcs == {"idle", "enqueue", "notify", "close", "send"}

\* Threads, queues and connections have the shapes their code gives them.
ServerTypeOK ==
    /\ TypeOK
    /\ setting \in DOMAIN Settings
    /\ blocked \in [Workers -> BOOLEAN]
    /\ \A c \in Conns : /\ conn[c].fd \in Sockets \cup {NoSocket}
                        /\ conn[c].worker \in Workers \cup {NoThread}
                        /\ conn[c].listed => conn[c].fd # NoSocket
                        /\ conn[c].peer \in {"absent", "open", "closed"}
                        /\ \A i \in DOMAIN inbox[c] : inbox[c][i] \in Tasks
    /\ \A i \in DOMAIN recvQ : recvQ[i].task \in Tasks /\ recvQ[i].from \in Conns
    /\ \A i \in DOMAIN sendQ : sendQ[i] \in Reply
    /\ \A p \in Threads : thread[p].pc \in Pcs
    /\ socketList \in [Workers -> SUBSET Sockets]
    /\ opener \in [UserIds -> Conns \cup {NoConn}]

\* The disconnection of handle k has not been passed over: a client is still on a list
\* (and is reported when it is removed), or about to be reported, or reported and not yet
\* processed.
WillBeCleaned(k) ==
    \/ Listed(k) # {}
    \/ \E p \in Threads : thread[p].pc = "notify" /\ thread[p].item.task.socket = k
    \/ \E i \in DOMAIN recvQ : /\ recvQ[i].task.kind = "ClientDisconnected"
                              /\ recvQ[i].task.socket = k

\* No session and no active game server outlives its client for ever: for each, the
\* cleanup of its socket (DatabaseThread.cpp:1194-1198) is still to come.
CleanupCovers ==
    /\ \A u \in UserIds : user_sessions[u].is_online
                          => WillBeCleaned(user_sessions[u].client_socket)
    /\ \A s \in ServerIds : game_servers[s].is_active
                            => WillBeCleaned(game_servers[s].owner_socket)

\* Only a client's own worker removes it, in the turn in which it reads from it: no send
\* fails otherwise than for want of room, and select reports no error.
Undisturbed == "broken" \notin Settings[setting].sends /\ ~Settings[setting].urgent

\* The same while nothing disturbs the workers: a send that fails, or an error select
\* reports, has a client removed whose handle a worker is still to read, or whose request
\* a worker still holds (WorkerThread.cpp:206, 293).
CleanupCoversUndisturbed == Undisturbed => CleanupCovers

\* RemoveSocketFromList tells the database thread before it closes the handle, so a
\* disconnection never ends a session of the next client that is given the same handle.
DisconnectHitsOwnSessions ==
    [][\A u \in UserIds :
          /\ Undisturbed
          /\ recvQ # <<>> /\ recvQ' = Tail(recvQ)
          /\ Head(recvQ).task.kind = "ClientDisconnected"
          /\ user_sessions[u].is_online /\ ~user_sessions'[u].is_online
          => opener[u] = Head(recvQ).from]_serverVars

\* In RecvPakets nothing of a connection follows its disconnection.
NothingAfterDisconnect ==
    Undisturbed => \A i, j \in DOMAIN recvQ :
        i < j /\ recvQ[i].task.kind = "ClientDisconnected" => recvQ[j].from # recvQ[i].from

\* A worker and the handler may both find a client broken: one of them removes it, so it
\* is reported once and its handle, which may be in use again, is not closed twice.
Removing(p) == thread[p].pc \in {"notify", "close"}
Reports(c) == {i \in DOMAIN recvQ : /\ recvQ[i].task.kind = "ClientDisconnected"
                                    /\ recvQ[i].from = c}
RemovedOnce ==
    /\ \A p, q \in Threads :
          Removing(p) /\ Removing(q) /\ thread[p].conn = thread[q].conn => p = q
    /\ \A p \in Threads : Removing(p) => conn[thread[p].conn].fd # NoSocket
    /\ \A c \in Conns :
          /\ Cardinality(Reports(c)) <= 1
          /\ Reports(c) # {} => /\ ~conn[c].listed
                                /\ \A p \in Threads : thread[p].pc = "notify"
                                                      => thread[p].conn # c

\* The client hung up, and an old WSAEWOULDBLOCK keeps its worker from seeing it.
Hidden(c) == conn[c].peer = "closed" /\ conn[c].listed /\ blocked[conn[c].worker]

\* A client that hung up does not stay logged in, unless it is hidden time and again
\* (WorkerThread.cpp:313).
HangUpEndsSession ==
    \A u \in UserIds, c \in Conns :
        \/ conn[c].peer = "closed" /\ opener[u] = c
           ~> ~(user_sessions[u].is_online /\ opener[u] = c)
        \/ []<>Hidden(c)

\* Every request of a client that stays is answered.
RequestsAnswered ==
    \A c \in Conns, n \in 1..MaxRequests :
        conn[c].sent = n ~> conn[c].got >= n \/ conn[c].peer = "closed"
=============================================================================
