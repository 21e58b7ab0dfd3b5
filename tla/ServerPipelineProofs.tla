------------------------ MODULE ServerPipelineProofs ------------------------
(***************************************************************************)
(* Proofs about ServerPipeline, for any number of connections, handles,    *)
(* workers and requests.  First the types (PipeTypes), with what a step of *)
(* each kind can do to connections, threads and RecvPakets; then who is    *)
(* reported (Reported); then, while nothing disturbs the workers, who      *)
(* reads from whom (Owned) and which reports are still to come (Covered).  *)
(***************************************************************************)
EXTENDS ServerPipeline, DatabaseThreadProofs, FiniteSetTheorems

-----------------------------------------------------------------------------
(* Sequences.                                                              *)

\* What Append does, index by index.
LEMMA AppendFacts ==
    ASSUME NEW S, NEW s \in Seq(S), NEW e \in S
    PROVE  /\ Append(s, e) \in Seq(S)
           /\ Len(Append(s, e)) = Len(s) + 1
           /\ Append(s, e)[Len(s) + 1] = e
           /\ \A i \in 1..Len(s) : Append(s, e)[i] = s[i]
  OBVIOUS

\* What Tail does, index by index.
LEMMA TailFacts ==
    ASSUME NEW S, NEW s \in Seq(S), s # <<>>
    PROVE  /\ Tail(s) \in Seq(S)
           /\ Head(s) \in S
           /\ Head(s) = s[1]
           /\ Len(s) \in Nat \ {0}
           /\ Len(Tail(s)) = Len(s) - 1
           /\ \A i \in 1..Len(Tail(s)) : Tail(s)[i] = s[i + 1]
  OBVIOUS

-----------------------------------------------------------------------------
(* Types.                                                                  *)

Entry == [task : Tasks, from : Conns]
Bye(k, c) == [task |-> [kind |-> "ClientDisconnected", socket |-> k], from |-> c]
Connection == [fd : Sockets \cup {NoSocket}, worker : Workers \cup {NoThread}, listed : BOOLEAN,
               peer : {"absent", "open", "closed"}, sent : Nat, got : Nat]
Response == [reply : Reply, via : Workers \cup {NoThread}]
Items == Requests \cup Entry \cup Response \cup {NoItem}
ThreadState == [pc : Pcs, conn : Conns \cup {NoConn}, item : Items]

ConnType == conn \in [Conns -> Connection]
InboxType == inbox \in [Conns -> Seq(Requests)]
QueueTypes == recvQ \in Seq(Entry) /\ sendQ \in Seq(Reply)
ThreadType == thread \in [Threads -> ThreadState]
OtherTypes == /\ setting \in DOMAIN Settings
              /\ phase = "running"
              /\ blocked \in [Workers -> BOOLEAN]
              /\ socketList \in [Workers -> SUBSET Sockets]
              /\ opener \in [UserIds -> Conns \cup {NoConn}]

\* a thread holds what its place needs
Holding == \A p \in Threads :
    /\ thread[p].pc = "enqueue" => thread[p].conn \in Conns /\ thread[p].item \in Requests
    /\ thread[p].pc \in {"notify", "close"} => thread[p].conn \in Conns
    /\ thread[p].pc = "notify" => \E k \in Sockets : thread[p].item = Bye(k, thread[p].conn)
    /\ thread[p].pc = "send" => thread[p].item \in Response

\* what belongs together in a connection
Consistent == \A c \in Conns :
    /\ conn[c].listed => conn[c].fd # NoSocket
    /\ conn[c].peer = "open" => conn[c].fd # NoSocket
    /\ conn[c].peer = "absent" => conn[c].fd = NoSocket

\* a client is removed by one thread, which still has its handle
OneRemover ==
    /\ \A p, q \in Threads :
          Removing(p) /\ Removing(q) /\ thread[p].conn = thread[q].conn => p = q
    /\ \A p \in Threads : Removing(p) => /\ conn[thread[p].conn].fd # NoSocket
                                        /\ ~conn[thread[p].conn].listed

PipeTypes == /\ TypeOK /\ ConnType /\ InboxType /\ QueueTypes /\ ThreadType /\ OtherTypes
             /\ Holding /\ Consistent /\ OneRemover

\* ServerTypeOK is part of PipeTypes.
LEMMA TypesSuffice == PipeTypes => ServerTypeOK
  <1> SUFFICES ASSUME PipeTypes PROVE ServerTypeOK
    OBVIOUS
  <1>1. \A c \in Conns : /\ conn[c].fd \in Sockets \cup {NoSocket}
                         /\ conn[c].worker \in Workers \cup {NoThread}
                         /\ conn[c].peer \in {"absent", "open", "closed"}
    BY DEF PipeTypes, ConnType, Connection
  <1>2. \A c \in Conns : \A i \in DOMAIN inbox[c] : inbox[c][i] \in Tasks
    <2>1. \A c \in Conns : inbox[c] \in Seq(Requests)
      BY DEF PipeTypes, InboxType
    <2>2. Requests \subseteq Tasks
      BY DEF Requests
    <2> QED BY <2>1, <2>2
  <1>3. \A i \in DOMAIN recvQ : recvQ[i].task \in Tasks /\ recvQ[i].from \in Conns
    <2>1. \A i \in DOMAIN recvQ : recvQ[i] \in Entry
      BY DEF PipeTypes, QueueTypes
    <2> QED BY <2>1 DEF Entry
  <1>4. \A i \in DOMAIN sendQ : sendQ[i] \in Reply
    BY DEF PipeTypes, QueueTypes
  <1>5. \A p \in Threads : thread[p].pc \in Pcs
    BY DEF PipeTypes, ThreadType, ThreadState
  <1> QED BY <1>1, <1>2, <1>3, <1>4, <1>5
          DEF ServerTypeOK, PipeTypes, OtherTypes, Consistent

\* Everything has its type at the start.
LEMMA PipeInit == ServerInit => PipeTypes
  <1> SUFFICES ASSUME ServerInit PROVE PipeTypes
    OBVIOUS
  <1>1. TypeOK
    BY DEF ServerInit, InitTables, TypeOK, AllOffline, Offline, NoServer, Session, GameServer
  <1>2. ConnType /\ Consistent
    BY DEF ServerInit, ConnType, Consistent, Connection, Unconnected
  <1>3. InboxType /\ QueueTypes
    BY DEF ServerInit, InboxType, QueueTypes
  <1>4. ThreadType /\ Holding /\ OneRemover
    BY DEF ServerInit, ThreadType, Holding, OneRemover, Removing, ThreadState, Idle, Pcs, Items
  <1>5. OtherTypes
    BY DEF ServerInit, OtherTypes
  <1> QED BY <1>1, <1>2, <1>3, <1>4, <1>5 DEF PipeTypes

\* A disconnection is a task of the queue.
LEMMA ByeEntry == \A k \in Sockets, c \in Conns : Bye(k, c) \in Entry
  BY PipelineAssumption DEF Bye, Entry, Tasks, ClientDisconnectedTask

\* What an unlinking step does, whoever takes it.
LEMMA UnlinkShape ==
    ASSUME PipeTypes, NEW p \in Threads, NEW c \in Conns, Unlink(p, c)
    PROVE  /\ conn[c].listed /\ conn[c].fd \in Sockets
           /\ conn' = [conn EXCEPT ![c].listed = FALSE]
           /\ thread' = [thread EXCEPT ![p] = [pc |-> "notify", conn |-> c,
                                              item |-> Bye(conn[c].fd, c)]]
           /\ Bye(conn[c].fd, c) \in Entry
  <1>1. conn[c].listed /\ conn[c].fd \in Sockets
    BY DEF Unlink, PipeTypes, Consistent, ConnType, Connection
  <1> QED BY <1>1, ByeEntry DEF Unlink, Goodbye, Bye

\* The removals of a client, by its worker or by the handler.
Removal == \/ \E w \in Workers, c \in Conns : SelectError(w, c) \/ DropClient(w, c)
           \/ SendBreaks

\* A removal unlinks one client; whoever does it was between two turns or in a send.
LEMMA RemovalShape ==
    ASSUME PipeTypes, Removal
    PROVE  \E p \in Threads, c \in Conns :
              /\ Unlink(p, c)
              /\ thread[p].pc \in {"idle", "send"}
              /\ UNCHANGED <<vars, setting, inbox, recvQ, sendQ, opener>>
  <1>1. CASE \E w \in Workers, c \in Conns : SelectError(w, c) \/ DropClient(w, c)
    BY <1>1 DEF SelectError, DropClient, Visits, Threads
  <1>2. CASE SendBreaks
    BY <1>2 DEF SendBreaks, Removable, Addressees, Holders, Threads
  <1> QED BY <1>1, <1>2 DEF Removal

\* The kinds of step, and every step is of one of them.
PipeStep == \/ \E c \in Conns : Accept(c) \/ SendRequest(c) \/ HangUp(c)
            \/ \E w \in Workers : \/ CopyList(w) \/ EnqueueTask(w)
                                  \/ \E c \in Conns : Receive(w, c)
                                  \/ \E k \in Sockets : Skip(w, k)
            \/ Removal
            \/ \E p \in Threads : Notify(p) \/ CloseSocket(p)
            \/ Database
            \/ TakeResponse \/ SendSucceeds \/ SendGivesUp
            \/ UNCHANGED serverVars

\* No step is of another kind.
LEMMA PipeKinds == [ServerNext]_serverVars => PipeStep
  <1>1. ASSUME NEW w \in Workers, WorkerStep(w) PROVE PipeStep
    <2>1. w \in Threads
      BY DEF Threads
    <2>2. CASE Notify(w) \/ CloseSocket(w)
      BY <2>1, <2>2 DEF PipeStep
    <2>3. CASE \E c \in Conns : SelectError(w, c) \/ DropClient(w, c)
      BY <2>3 DEF PipeStep, Removal
    <2>4. CASE CopyList(w) \/ EnqueueTask(w)
      BY <2>4 DEF PipeStep
    <2>5. CASE \E c \in Conns : Receive(w, c)
      BY <2>5 DEF PipeStep
    <2>6. CASE \E k \in Sockets : Skip(w, k)
      BY <2>6 DEF PipeStep
    <2> QED BY <1>1, <2>2, <2>3, <2>4, <2>5, <2>6 DEF WorkerStep
  <1>2. CASE HandlerStep
    <2>1. Handler \in Threads
      BY DEF Threads
    <2> QED BY <1>2, <2>1 DEF HandlerStep, SendToClient, Removal, PipeStep
  <1> QED BY <1>1, <1>2 DEF ServerNext, PipeStep

-----------------------------------------------------------------------------
\* The connections keep their types, and what belongs together in one.
LEMMA ConnNext ==
    ASSUME PipeTypes, [ServerNext]_serverVars
    PROVE  ConnType' /\ Consistent'
  <1>1. \A c \in Conns : conn[c] \in Connection
    BY DEF PipeTypes, ConnType
  <1>2. conn \in [Conns -> Connection] /\ Consistent
    BY DEF PipeTypes, ConnType
  <1>3. ASSUME NEW c \in Conns, NEW s \in Connection, conn' = [conn EXCEPT ![c] = s],
               /\ s.listed => s.fd # NoSocket
               /\ s.peer = "open" => s.fd # NoSocket
               /\ s.peer = "absent" => s.fd = NoSocket
        PROVE  ConnType' /\ Consistent'
    BY <1>2, <1>3 DEF ConnType, Consistent
  <1>4. CASE conn' = conn
    BY <1>2, <1>4 DEF ConnType, Consistent
  <1>5. ASSUME NEW c \in Conns, Accept(c) PROVE ConnType' /\ Consistent'
    <2>1. PICK k \in FreeHandles, w \in Workers :
             conn' = [conn EXCEPT ![c] = [fd |-> k, worker |-> w, listed |-> TRUE,
                                          peer |-> "open", sent |-> 0, got |-> 0]]
      BY <1>5 DEF Accept
    <2>2. k \in Sockets /\ k # NoSocket
      BY NullsAssumption DEF FreeHandles
    <2> DEFINE s == [fd |-> k, worker |-> w, listed |-> TRUE, peer |-> "open", sent |-> 0,
                     got |-> 0]
    <2>3. s \in Connection
      BY <2>2 DEF Connection
    <2> QED BY <1>3, <2>1, <2>2, <2>3
  <1>6. ASSUME NEW c \in Conns, SendRequest(c) PROVE ConnType' /\ Consistent'
    <2>1. conn' = [conn EXCEPT ![c] = [conn[c] EXCEPT !.sent = @ + 1]]
      BY <1>6 DEF SendRequest
    <2>2. [conn[c] EXCEPT !.sent = @ + 1] \in Connection
      BY <1>1 DEF Connection
    <2> QED BY <1>1, <1>2, <1>3, <2>1, <2>2 DEF Consistent, Connection
  <1>7. ASSUME NEW c \in Conns, HangUp(c) PROVE ConnType' /\ Consistent'
    <2>1. conn' = [conn EXCEPT ![c] = [conn[c] EXCEPT !.peer = "closed"]]
      BY <1>7 DEF HangUp
    <2>2. [conn[c] EXCEPT !.peer = "closed"] \in Connection
      BY <1>1 DEF Connection
    <2> QED BY <1>1, <1>2, <1>3, <2>1, <2>2 DEF Consistent, Connection
  <1>8. CASE Removal
    <2>1. PICK c \in Conns : conn' = [conn EXCEPT ![c] = [conn[c] EXCEPT !.listed = FALSE]]
      BY <1>8, RemovalShape DEF Unlink
    <2>2. [conn[c] EXCEPT !.listed = FALSE] \in Connection
      BY <1>1 DEF Connection
    <2> QED BY <1>1, <1>2, <1>3, <2>1, <2>2 DEF Consistent, Connection
  <1>9. ASSUME NEW p \in Threads, CloseSocket(p)
        PROVE  ConnType' /\ Consistent'
    <2> DEFINE c == thread[p].conn
    <2>1. c \in Conns
      BY <1>9 DEF CloseSocket, PipeTypes, Holding
    <2>2. conn' = [conn EXCEPT ![c] = [conn[c] EXCEPT !.fd = NoSocket, !.peer = "closed"]]
      BY <1>1, <1>2, <1>9, <2>1 DEF CloseSocket, Connection
    <2>3. [conn[c] EXCEPT !.fd = NoSocket, !.peer = "closed"] \in Connection
      BY <1>1, <2>1 DEF Connection
    <2>4. ~conn[c].listed
      BY <1>9 DEF CloseSocket, PipeTypes, OneRemover, Removing
    <2> QED BY <1>1, <1>3, <2>1, <2>2, <2>3, <2>4 DEF Connection
  <1>10. CASE SendSucceeds
    <2>1. PICK c \in Conns : conn' = [conn EXCEPT ![c] = [conn[c] EXCEPT !.got = @ + 1]]
      BY <1>10 DEF SendSucceeds, Addressees, Holders
    <2>2. [conn[c] EXCEPT !.got = @ + 1] \in Connection
      BY <1>1 DEF Connection
    <2> QED BY <1>1, <1>2, <1>3, <2>1, <2>2 DEF Consistent, Connection
  <1>11. CASE \E w \in Workers : \/ CopyList(w) \/ EnqueueTask(w)
                                 \/ \E c \in Conns : Receive(w, c)
                                 \/ \E k \in Sockets : Skip(w, k)
    BY <1>4, <1>11 DEF CopyList, EnqueueTask, Receive, Skip
  <1>12. CASE \/ Database \/ TakeResponse \/ SendGivesUp \/ UNCHANGED serverVars
              \/ \E p \in Threads : Notify(p)
    BY <1>4, <1>12 DEF Database, TakeResponse, SendGivesUp, Notify, serverVars, pipes
  <1> QED BY <1>5, <1>6, <1>7, <1>8, <1>9, <1>10, <1>11, <1>12, PipeKinds
          DEF PipeStep

\* A connection that has sent something is open at the client's end, so it has a handle.
LEMMA InboxNext ==
    ASSUME PipeTypes, [ServerNext]_serverVars
    PROVE  InboxType'
  <1>1. inbox \in [Conns -> Seq(Requests)]
    BY DEF PipeTypes, InboxType
  <1>2. ASSUME NEW c \in Conns, SendRequest(c) PROVE InboxType'
    <2>1. PICK r \in Settings[setting].requests :
             inbox' = [inbox EXCEPT ![c] = Append(inbox[c], [r EXCEPT !.socket = conn[c].fd])]
      BY <1>2 DEF SendRequest
    <2>2. Settings[setting] \in Range(Settings)
      BY DEF PipeTypes, OtherTypes, Range
    <2>3. r \in Requests
      BY <2>1, <2>2, PipelineAssumption DEF Requests
    <2>4. conn[c].fd \in Sockets
      BY <1>2 DEF SendRequest, PipeTypes, Consistent, ConnType, Connection
    <2>5. [r EXCEPT !.socket = conn[c].fd] \in Requests
      BY <2>3, <2>4, OverAnyHandle
    <2>6. Append(inbox[c], [r EXCEPT !.socket = conn[c].fd]) \in Seq(Requests)
      BY <1>1, <2>5, AppendFacts
    <2> QED BY <1>1, <2>1, <2>6 DEF InboxType
  <1>3. ASSUME NEW w \in Workers, NEW c \in Conns, Receive(w, c) PROVE InboxType'
    <2>1. inbox[c] # <<>> /\ inbox' = [inbox EXCEPT ![c] = Tail(inbox[c])]
      BY <1>3 DEF Receive
    <2>2. Tail(inbox[c]) \in Seq(Requests)
      BY <1>1, <2>1, TailFacts
    <2> QED BY <1>1, <2>1, <2>2 DEF InboxType
  <1>4. ASSUME NEW p \in Threads, CloseSocket(p) PROVE InboxType'
    <2>1. <<>> \in Seq(Requests)
      OBVIOUS
    <2> QED BY <1>1, <1>4, <2>1 DEF CloseSocket, InboxType
  <1>5. CASE \/ \E c \in Conns : Accept(c) \/ HangUp(c)
             \/ \E w \in Workers : \/ CopyList(w) \/ EnqueueTask(w)
                                   \/ \E k \in Sockets : Skip(w, k)
             \/ Removal
             \/ \E p \in Threads : Notify(p)
    BY <1>1, <1>5, RemovalShape DEF Accept, HangUp, CopyList, EnqueueTask, Skip, Notify, InboxType
  <1>6. CASE Database \/ TakeResponse \/ SendSucceeds \/ SendGivesUp \/ UNCHANGED serverVars
    BY <1>1, <1>6 DEF Database, TakeResponse, SendSucceeds, SendGivesUp, serverVars, pipes, InboxType
  <1> QED BY <1>2, <1>3, <1>4, <1>5, <1>6, PipeKinds DEF PipeStep

\* Under a database step one task is taken and processed as a step of the database thread.
LEMMA DatabaseShape ==
    ASSUME PipeTypes, Database
    PROVE  /\ recvQ # <<>>
           /\ Head(recvQ) \in Entry /\ Head(recvQ) = recvQ[1]
           /\ ProcessTask(Head(recvQ).task)
           /\ Head(recvQ).task \in Tasks /\ Head(recvQ).from \in Conns
           /\ Next
           /\ recvQ' = Tail(recvQ) /\ Tail(recvQ) \in Seq(Entry)
  <1>1. recvQ # <<>> /\ ProcessTask(Head(recvQ).task) /\ recvQ' = Tail(recvQ)
    BY DEF Database
  <1>2. Head(recvQ) \in Entry /\ Head(recvQ) = recvQ[1] /\ Tail(recvQ) \in Seq(Entry)
    BY <1>1, TailFacts DEF PipeTypes, QueueTypes
  <1>3. Head(recvQ).task \in Tasks /\ Head(recvQ).from \in Conns
    BY <1>2 DEF Entry
  <1>4. Next
    BY <1>1, <1>3 DEF Next, Run, Database, PipeTypes, OtherTypes
  <1> QED BY <1>1, <1>2, <1>3, <1>4

\* All other steps leave the database thread alone.
LEMMA NoDatabaseShape ==
    ASSUME PipeTypes, [ServerNext]_serverVars, ~Database
    PROVE  UNCHANGED vars /\ UNCHANGED opener
  <1>1. CASE \/ \E c \in Conns : Accept(c) \/ SendRequest(c) \/ HangUp(c)
             \/ \E w \in Workers : \/ CopyList(w) \/ EnqueueTask(w)
                                   \/ \E c \in Conns : Receive(w, c)
                                   \/ \E k \in Sockets : Skip(w, k)
             \/ Removal
             \/ \E p \in Threads : Notify(p) \/ CloseSocket(p)
    BY <1>1, RemovalShape DEF Accept, SendRequest, HangUp, CopyList, EnqueueTask, Receive, Skip,
       Notify, CloseSocket
  <1>2. CASE TakeResponse \/ SendSucceeds \/ SendGivesUp \/ UNCHANGED serverVars
    BY <1>2 DEF TakeResponse, SendSucceeds, SendGivesUp, serverVars, pipes
  <1> QED BY <1>1, <1>2, PipeKinds DEF PipeStep

\* The database thread's own types are kept by the whole server.
LEMMA TablesNext ==
    ASSUME PipeTypes, [ServerNext]_serverVars
    PROVE  TypeOK' /\ [Next]_vars
  <1>1. [Next]_vars
    BY DatabaseShape, NoDatabaseShape
  <1> QED BY <1>1, TypeNext DEF PipeTypes

\* The queues hold tasks of connections, and responses.
LEMMA QueueNext ==
    ASSUME PipeTypes, [ServerNext]_serverVars
    PROVE  QueueTypes'
  <1>1. recvQ \in Seq(Entry) /\ sendQ \in Seq(Reply)
    BY DEF PipeTypes, QueueTypes
  <1>2. ASSUME NEW w \in Workers, EnqueueTask(w) PROVE QueueTypes'
    <2>1. /\ recvQ' = Append(recvQ, [task |-> thread[w].item, from |-> thread[w].conn])
          /\ sendQ' = sendQ
      BY <1>2 DEF EnqueueTask
    <2>2. thread[w].conn \in Conns /\ thread[w].item \in Requests
      BY <1>2 DEF EnqueueTask, PipeTypes, Holding, Threads
    <2>3. [task |-> thread[w].item, from |-> thread[w].conn] \in Entry
      BY <2>2 DEF Entry, Requests
    <2> QED BY <1>1, <2>1, <2>3, AppendFacts DEF QueueTypes
  <1>3. ASSUME NEW p \in Threads, Notify(p) PROVE QueueTypes'
    <2>1. recvQ' = Append(recvQ, thread[p].item) /\ sendQ' = sendQ
      BY <1>3 DEF Notify
    <2>2. thread[p].conn \in Conns /\ \E k \in Sockets : thread[p].item = Bye(k, thread[p].conn)
      BY <1>3 DEF Notify, PipeTypes, Holding
    <2>3. thread[p].item \in Entry
      BY <2>2, ByeEntry
    <2> QED BY <1>1, <2>1, <2>3, AppendFacts DEF QueueTypes
  <1>4. CASE Database
    <2>1. recvQ' \in Seq(Entry)
      BY <1>4, DatabaseShape
    <2>2. sendQ' = IF reply' = NoReply THEN sendQ ELSE Append(sendQ, reply')
      BY <1>4 DEF Database
    <2>3. reply' \in Reply \cup {NoReply}
      BY TablesNext DEF TypeOK
    <2> QED BY <1>1, <2>1, <2>2, <2>3, AppendFacts DEF QueueTypes
  <1>5. CASE TakeResponse
    <2>1. sendQ # <<>> /\ sendQ' = Tail(sendQ) /\ recvQ' = recvQ
      BY <1>5 DEF TakeResponse
    <2> QED BY <1>1, <2>1, TailFacts DEF QueueTypes
  <1>6. CASE \/ \E c \in Conns : Accept(c) \/ SendRequest(c) \/ HangUp(c)
             \/ \E w \in Workers : \/ CopyList(w)
                                   \/ \E c \in Conns : Receive(w, c)
                                   \/ \E k \in Sockets : Skip(w, k)
             \/ Removal
             \/ \E p \in Threads : CloseSocket(p)
    BY <1>1, <1>6, RemovalShape DEF Accept, SendRequest, HangUp, CopyList, Receive, Skip,
       CloseSocket, QueueTypes
  <1>7. CASE SendSucceeds \/ SendGivesUp \/ UNCHANGED serverVars
    BY <1>1, <1>7 DEF SendSucceeds, SendGivesUp, serverVars, pipes, QueueTypes
  <1> QED BY <1>2, <1>3, <1>4, <1>5, <1>6, <1>7, PipeKinds DEF PipeStep

\* What a step can do to the threads: nothing, or one goes on to another place.
ThreadGoes(p, s) ==
    /\ thread' = [thread EXCEPT ![p] = s]
    /\ s \in ThreadState
    /\ \/ s = Idle
       \/ s.pc = "enqueue" /\ s.conn \in Conns /\ s.item \in Requests
       \/ /\ s.pc = "notify" /\ s.conn \in Conns
          /\ \E k \in Sockets : s.item = Bye(k, s.conn)
          /\ Unlink(p, s.conn)
       \/ s.pc = "close" /\ s.conn = thread[p].conn /\ thread[p].pc = "notify"
       \/ s.pc = "send" /\ s.item \in Response

\* Every step does this to the threads, or nothing.
LEMMA ThreadStep ==
    ASSUME PipeTypes, [ServerNext]_serverVars
    PROVE  thread' = thread \/ \E p \in Threads, s \in ThreadState : ThreadGoes(p, s)
  <1>1. \A p \in Threads : thread[p] \in ThreadState
    BY DEF PipeTypes, ThreadType
  <1>2. Workers \subseteq Threads /\ Handler \in Threads
    BY DEF Threads
  <1>3. Idle \in ThreadState
    BY DEF Idle, ThreadState, Pcs, Items
  <1>4. ASSUME NEW w \in Workers, NEW c \in Conns, Receive(w, c)
        PROVE  \E p \in Threads, s \in ThreadState : ThreadGoes(p, s)
    <2> DEFINE s == [pc |-> "enqueue", conn |-> c, item |-> Head(inbox[c])]
    <2>1. thread' = [thread EXCEPT ![w] = s]
      BY <1>4 DEF Receive
    <2>2. inbox[c] \in Seq(Requests) /\ inbox[c] # <<>>
      BY <1>4 DEF Receive, PipeTypes, InboxType
    <2>3. Head(inbox[c]) \in Requests
      BY <2>2, TailFacts
    <2>4. s \in ThreadState
      BY <2>3 DEF ThreadState, Pcs, Items
    <2> QED BY <1>2, <2>1, <2>3, <2>4 DEF ThreadGoes
  <1>5. ASSUME NEW p \in Threads, Notify(p)
        PROVE  \E s \in ThreadState : ThreadGoes(p, s)
    <2> DEFINE s == [thread[p] EXCEPT !.pc = "close"]
    <2>1. thread' = [thread EXCEPT ![p] = s] /\ thread[p].pc = "notify"
      BY <1>1, <1>5 DEF Notify
    <2>2. s \in ThreadState /\ s.pc = "close" /\ s.conn = thread[p].conn
      BY <1>1 DEF ThreadState, Pcs
    <2> QED BY <2>1, <2>2 DEF ThreadGoes
  <1>6. ASSUME NEW p \in Threads, thread' = [thread EXCEPT ![p] = Idle]
        PROVE  \E s \in ThreadState : ThreadGoes(p, s)
    BY <1>3, <1>6 DEF ThreadGoes
  <1>7. CASE Removal
    <2>1. PICK p \in Threads, c \in Conns : Unlink(p, c)
      BY <1>7, RemovalShape
    <2> DEFINE s == [pc |-> "notify", conn |-> c, item |-> Bye(conn[c].fd, c)]
    <2>2. /\ thread' = [thread EXCEPT ![p] = s]
          /\ conn[c].fd \in Sockets /\ Bye(conn[c].fd, c) \in Entry
      BY <2>1, UnlinkShape
    <2>3. s \in ThreadState
      BY <2>2 DEF ThreadState, Pcs, Items
    <2>4. \E k \in Sockets : s.item = Bye(k, s.conn)
      BY <2>2
    <2> QED BY <2>1, <2>2, <2>3, <2>4 DEF ThreadGoes
  <1>8. CASE TakeResponse
    <2>1. CASE thread' = thread
      BY <2>1
    <2>2. ASSUME NEW c \in Conns, Head(sendQ).packet,
                 thread' = [thread EXCEPT ![Handler] = [pc |-> "send", conn |-> NoConn,
                               item |-> [reply |-> Head(sendQ), via |-> conn[c].worker]]]
          PROVE  \E s \in ThreadState : ThreadGoes(Handler, s)
      <3> DEFINE r == [reply |-> Head(sendQ), via |-> conn[c].worker]
                 s == [pc |-> "send", conn |-> NoConn, item |-> r]
      <3>1. Head(sendQ) \in Reply
        BY <1>8, TailFacts DEF TakeResponse, PipeTypes, QueueTypes
      <3>2. r \in Response
        BY <3>1 DEF Response, PipeTypes, ConnType, Connection
      <3>3. s \in ThreadState
        BY <3>2 DEF ThreadState, Pcs, Items
      <3> QED BY <2>2, <3>2, <3>3 DEF ThreadGoes
    <2> QED BY <1>2, <1>8, <2>1, <2>2 DEF TakeResponse, Listed, Holders
  <1>9. CASE \/ \E c \in Conns : Accept(c) \/ SendRequest(c) \/ HangUp(c)
             \/ \E w \in Workers : CopyList(w) \/ \E k \in Sockets : Skip(w, k)
             \/ Database \/ UNCHANGED serverVars
    BY <1>9 DEF Accept, SendRequest, HangUp, CopyList, Skip, Database, serverVars, pipes
  <1>10. CASE \/ \E w \in Workers : EnqueueTask(w)
              \/ \E p \in Threads : CloseSocket(p)
              \/ SendSucceeds \/ SendGivesUp
    BY <1>2, <1>6, <1>10 DEF EnqueueTask, CloseSocket, SendSucceeds, SendGivesUp
  <1> QED BY <1>4, <1>5, <1>7, <1>8, <1>9, <1>10, <1>2, PipeKinds DEF PipeStep

\* A thread that goes on still holds what its place needs.
LEMMA ThreadNext ==
    ASSUME PipeTypes, [ServerNext]_serverVars
    PROVE  ThreadType' /\ Holding'
  <1>1. thread \in [Threads -> ThreadState]
    BY DEF PipeTypes, ThreadType
  <1>2. CASE thread' = thread
    BY <1>1, <1>2 DEF PipeTypes, ThreadType, Holding
  <1>3. ASSUME NEW p \in Threads, NEW s \in ThreadState, ThreadGoes(p, s)
        PROVE  ThreadType' /\ Holding'
    <2>1. thread' = [thread EXCEPT ![p] = s]
      BY <1>3 DEF ThreadGoes
    <2>2. thread'[p] = s /\ \A q \in Threads \ {p} : thread'[q] = thread[q]
      BY <1>1, <2>1
    <2>3. /\ s.pc = "enqueue" => s.conn \in Conns /\ s.item \in Requests
          /\ s.pc \in {"notify", "close"} => s.conn \in Conns
          /\ s.pc = "notify" => \E k \in Sockets : s.item = Bye(k, s.conn)
          /\ s.pc = "send" => s.item \in Response
      BY <1>3 DEF ThreadGoes, Idle, PipeTypes, Holding
    <2>4. ThreadType'
      BY <1>1, <2>1 DEF ThreadType
    <2> QED BY <2>2, <2>3, <2>4 DEF PipeTypes, Holding
  <1> QED BY <1>2, <1>3, ThreadStep

\* What a step can do to the handle of a connection and its place on a list.
LEMMA HandleStep ==
    ASSUME PipeTypes, [ServerNext]_serverVars
    PROVE  \/ \A c \in Conns : /\ conn'[c].fd = conn[c].fd
                               /\ conn'[c].listed = conn[c].listed
                               /\ conn'[c].worker = conn[c].worker
           \/ \E c \in Conns : Accept(c)
           \/ Removal
           \/ \E p \in Threads : CloseSocket(p)
  <1>1. conn \in [Conns -> Connection]
    BY DEF PipeTypes, ConnType
  <1>2. CASE \E c \in Conns : SendRequest(c) \/ HangUp(c)
    <2>1. PICK d \in Conns : \/ conn' = [conn EXCEPT ![d].sent = @ + 1]
                            \/ conn' = [conn EXCEPT ![d].peer = "closed"]
      BY <1>2 DEF SendRequest, HangUp
    <2> QED BY <1>1, <2>1 DEF Connection
  <1>3. CASE SendSucceeds
    BY <1>1, <1>3 DEF SendSucceeds, Addressees, Holders, Connection
  <1>4. CASE \E w \in Workers : \/ CopyList(w) \/ EnqueueTask(w)
                                \/ \E c \in Conns : Receive(w, c)
                                \/ \E k \in Sockets : Skip(w, k)
    BY <1>4 DEF CopyList, EnqueueTask, Receive, Skip
  <1>5. CASE \/ Database \/ TakeResponse \/ SendGivesUp \/ UNCHANGED serverVars
             \/ \E p \in Threads : Notify(p)
    BY <1>5 DEF Database, TakeResponse, SendGivesUp, Notify, serverVars, pipes
  <1> QED BY <1>2, <1>3, <1>4, <1>5, PipeKinds DEF PipeStep

\* Accepting a client touches only a connection that has no handle.
LEMMA AcceptShape ==
    ASSUME PipeTypes, NEW c \in Conns, Accept(c)
    PROVE  /\ conn[c].fd = NoSocket /\ ~conn[c].listed /\ conn[c].peer = "absent"
           /\ thread' = thread /\ UNCHANGED <<recvQ, socketList, inbox>>
           /\ \A d \in Conns \ {c} : conn'[d] = conn[d]
           /\ conn'[c].fd \in Sockets /\ conn'[c].listed /\ conn'[c].worker \in Workers
           /\ conn'[c].peer = "open"
           /\ \A d \in Conns : conn[d].fd # conn'[c].fd
  <1>1. conn \in [Conns -> Connection]
    BY DEF PipeTypes, ConnType
  <1>2. conn[c].fd = NoSocket /\ ~conn[c].listed /\ conn[c].peer = "absent"
    BY <1>1 DEF Accept, PipeTypes, Consistent, Connection
  <1> QED BY <1>1, <1>2 DEF Accept, FreeHandles, Holders

\* Closing a handle takes it from a connection that is on no list.
LEMMA CloseShape ==
    ASSUME PipeTypes, NEW p \in Threads, CloseSocket(p)
    PROVE  /\ thread[p].pc = "close" /\ thread[p].conn \in Conns
           /\ thread' = [thread EXCEPT ![p] = Idle]
           /\ ~conn[thread[p].conn].listed
           /\ \A d \in Conns \ {thread[p].conn} : conn'[d] = conn[d]
           /\ \A d \in Conns : /\ conn'[d].listed = conn[d].listed
                               /\ conn'[d].worker = conn[d].worker
           /\ conn'[thread[p].conn].fd = NoSocket
           /\ conn'[thread[p].conn].peer = "closed"
           /\ inbox' = [inbox EXCEPT ![thread[p].conn] = <<>>]
           /\ UNCHANGED <<recvQ, socketList>>
  <1>1. conn \in [Conns -> Connection]
    BY DEF PipeTypes, ConnType
  <1>2. thread[p].pc = "close" /\ thread[p].conn \in Conns /\ ~conn[thread[p].conn].listed
    BY DEF CloseSocket, PipeTypes, Holding, OneRemover, Removing
  <1> QED BY <1>1, <1>2 DEF CloseSocket, Connection

\* Only one thread removes a client, and until it has closed the handle nobody else can.
LEMMA OneRemoverNext ==
    ASSUME PipeTypes, [ServerNext]_serverVars
    PROVE  OneRemover'
  <1>1. thread \in [Threads -> ThreadState] /\ OneRemover
    BY DEF PipeTypes, ThreadType
  <1>2. ASSUME NEW c \in Conns, Accept(c) PROVE OneRemover'
    <2>1. \A p \in Threads : Removing(p) => thread[p].conn # c
      BY <1>1, <1>2, AcceptShape DEF OneRemover
    <2>2. \A p \in Threads : Removing(p) => thread[p].conn \in Conns
      BY DEF PipeTypes, Holding, Removing
    <2> QED BY <1>1, <1>2, <2>1, <2>2, AcceptShape DEF OneRemover, Removing
  <1>3. CASE Removal
    <2>1. PICK p \in Threads, c \in Conns : Unlink(p, c)
      BY <1>3, RemovalShape
    <2>2. /\ conn[c].listed
          /\ thread'[p].pc = "notify" /\ thread'[p].conn = c
          /\ \A q \in Threads \ {p} : thread'[q] = thread[q]
      BY <1>1, <2>1, UnlinkShape
    <2>3. /\ \A d \in Conns : conn'[d].fd = conn[d].fd
          /\ ~conn'[c].listed
          /\ \A d \in Conns \ {c} : conn'[d].listed = conn[d].listed
          /\ conn[c].fd # NoSocket
      BY <2>1, UnlinkShape, NullsAssumption DEF PipeTypes, ConnType, Connection
    <2>4. \A q \in Threads : Removing(q) => thread[q].conn \in Conns
      BY DEF PipeTypes, Holding, Removing
    <2>5. \A q \in Threads : Removing(q) => thread[q].conn # c
      BY <1>1, <2>2 DEF OneRemover
    <2> QED BY <1>1, <2>2, <2>3, <2>4, <2>5 DEF OneRemover, Removing
  <1>4. ASSUME NEW p \in Threads, CloseSocket(p) PROVE OneRemover'
    <2>1. thread'[p].pc = "idle" /\ \A q \in Threads \ {p} : thread'[q] = thread[q]
      BY <1>1, <1>4, CloseShape DEF Idle
    <2>2. Removing(p)
      BY <1>4, CloseShape DEF Removing
    <2>3. \A q \in Threads \ {p} : Removing(q) => /\ thread[q].conn # thread[p].conn
                                                 /\ thread[q].conn \in Conns
      BY <1>1, <2>2 DEF OneRemover, PipeTypes, Holding, Removing
    <2> QED BY <1>1, <1>4, <2>1, <2>3, CloseShape DEF OneRemover, Removing
  <1>5. CASE /\ \A c \in Conns : conn'[c].fd = conn[c].fd /\ conn'[c].listed = conn[c].listed
             /\ ~Removal
    <2>1. CASE thread' = thread
      BY <1>1, <1>5, <2>1 DEF OneRemover, Removing, PipeTypes, Holding
    <2>2. ASSUME NEW p \in Threads, NEW s \in ThreadState, thread' = [thread EXCEPT ![p] = s],
                 s.pc \in {"notify", "close"} => Removing(p) /\ s.conn = thread[p].conn
          PROVE  OneRemover'
      <3>1. \A q \in Threads : Removing(q)' => Removing(q) /\ thread'[q].conn = thread[q].conn
        BY <1>1, <2>2 DEF Removing
      <3>2. \A q \in Threads : Removing(q) => thread[q].conn \in Conns
        BY DEF PipeTypes, Holding, Removing
      <3> QED BY <1>1, <1>5, <3>1, <3>2 DEF OneRemover
    <2>3. ASSUME NEW p \in Threads, NEW c \in Conns, Unlink(p, c) PROVE FALSE
      <3>1. conn[c].listed /\ ~conn'[c].listed
        BY <2>3, UnlinkShape DEF PipeTypes, ConnType, Connection
      <3> QED BY <1>5, <3>1
    <2> QED BY <2>1, <2>2, <2>3, ThreadStep DEF ThreadGoes, Idle, Removing
  <1> QED BY <1>2, <1>3, <1>4, <1>5, HandleStep

\* The setting never changes, and the database thread never stops.
LEMMA SettingStays ==
    ASSUME PipeTypes, [ServerNext]_serverVars
    PROVE  setting' = setting /\ phase' = phase
  <1>1. CASE \/ \E c \in Conns : Accept(c) \/ SendRequest(c) \/ HangUp(c)
             \/ \E w \in Workers : \/ CopyList(w) \/ EnqueueTask(w)
                                   \/ \E c \in Conns : Receive(w, c)
                                   \/ \E k \in Sockets : Skip(w, k)
             \/ Removal
             \/ \E p \in Threads : Notify(p) \/ CloseSocket(p)
    BY <1>1, RemovalShape DEF Accept, SendRequest, HangUp, CopyList, Receive, Skip,
       EnqueueTask, Notify, CloseSocket, vars
  <1>2. CASE \/ Database \/ TakeResponse \/ SendSucceeds \/ SendGivesUp
             \/ UNCHANGED serverVars
    BY <1>2 DEF Database, TakeResponse, SendSucceeds, SendGivesUp, serverVars, pipes, vars
  <1> QED BY <1>1, <1>2, PipeKinds DEF PipeStep

\* The last errors keep their type.
LEMMA BlockedNext ==
    ASSUME PipeTypes, [ServerNext]_serverVars
    PROVE  blocked' \in [Workers -> BOOLEAN]
  <1>1. blocked \in [Workers -> BOOLEAN]
    BY DEF PipeTypes, OtherTypes
  <1>2. Settings[setting].slow \in BOOLEAN
    <2>1. Settings[setting] \in Range(Settings)
      BY DEF PipeTypes, OtherTypes, Range
    <2> QED BY <2>1, PipelineAssumption
  <1>3. ASSUME NEW w \in Workers, NEW errors \in SUBSET BOOLEAN, LastError(w, errors)
        PROVE  blocked' \in [Workers -> BOOLEAN]
    <2>1. PICK b \in BOOLEAN : blocked' = [blocked EXCEPT ![w] = b]
      BY <1>3 DEF LastError
    <2> QED BY <1>1, <2>1
  <1>4. \A w \in Workers : {blocked[w], Settings[setting].slow} \in SUBSET BOOLEAN
    BY <1>1, <1>2
  <1>5. \A w \in Workers : \A s :
            {blocked[w]} \cup (IF s THEN {} ELSE {FALSE, Settings[setting].slow}) \in SUBSET BOOLEAN
    BY <1>1, <1>2
  <1>6. \A w \in Workers : {blocked[w], FALSE} \in SUBSET BOOLEAN
    BY <1>1
  <1>7. CASE \E w \in Workers, c \in Conns : Receive(w, c)
    BY <1>3, <1>4, <1>7 DEF Receive
  <1>8. CASE \E w \in Workers, c \in Conns : DropClient(w, c)
    BY <1>1, <1>3, <1>6, <1>8 DEF DropClient
  <1>9. CASE \E w \in Workers : \E k \in Sockets : Skip(w, k)
    BY <1>3, <1>5, <1>9 DEF Skip
  <1>10. CASE \/ \E c \in Conns : Accept(c) \/ SendRequest(c) \/ HangUp(c)
              \/ \E w \in Workers : CopyList(w) \/ EnqueueTask(w)
              \/ \E w \in Workers, c \in Conns : SelectError(w, c)
              \/ \E p \in Threads : Notify(p) \/ CloseSocket(p)
    BY <1>1, <1>10 DEF Accept, SendRequest, HangUp, CopyList, EnqueueTask, SelectError, Notify,
       CloseSocket
  <1>11. CASE \/ Database \/ TakeResponse \/ SendSucceeds \/ SendGivesUp \/ SendBreaks
              \/ UNCHANGED serverVars
    BY <1>1, <1>11 DEF Database, TakeResponse, SendSucceeds, SendGivesUp, SendBreaks, serverVars,
       pipes
  <1> QED BY <1>7, <1>8, <1>9, <1>10, <1>11, PipeKinds DEF PipeStep, Removal

\* What is left: the setting, the copied lists and the openers.
LEMMA OtherTypesNext ==
    ASSUME PipeTypes, [ServerNext]_serverVars
    PROVE  OtherTypes'
  <1>1. /\ setting \in DOMAIN Settings /\ phase = "running"
        /\ socketList \in [Workers -> SUBSET Sockets]
        /\ opener \in [UserIds -> Conns \cup {NoConn}]
    BY DEF PipeTypes, OtherTypes
  <1>2. setting' = setting /\ phase' = phase
    BY SettingStays
  <1>3. opener' \in [UserIds -> Conns \cup {NoConn}]
    <2>1. CASE Database
      <3>1. Head(recvQ).from \in Conns
        BY <2>1, DatabaseShape
      <3> QED BY <1>1, <2>1, <3>1 DEF Database
    <2>2. CASE ~Database
      BY <1>1, <2>2, NoDatabaseShape
    <2> QED BY <2>1, <2>2
  <1>4. socketList' \in [Workers -> SUBSET Sockets]
    <2>1. ASSUME NEW w \in Workers, CopyList(w) PROVE socketList' \in [Workers -> SUBSET Sockets]
      <3>1. {conn[c].fd : c \in ClientsOf(w)} \in SUBSET Sockets
        BY DEF ClientsOf, PipeTypes, Consistent, ConnType, Connection
      <3> QED BY <1>1, <2>1, <3>1 DEF CopyList
    <2>2. ASSUME NEW w \in Workers, NEW k, Visited(w, k)
          PROVE  socketList' \in [Workers -> SUBSET Sockets]
      BY <1>1, <2>2 DEF Visited
    <2>3. CASE socketList' = socketList
      BY <1>1, <2>3
    <2>4. CASE Removal
      BY <2>2, <2>3, <2>4 DEF Removal, SelectError, DropClient, SendBreaks
    <2>5. CASE \E w \in Workers : \/ \E c \in Conns : Receive(w, c)
                                  \/ \E k \in Sockets : Skip(w, k)
      BY <2>2, <2>5 DEF Receive, Skip
    <2>6. CASE \/ \E c \in Conns : Accept(c) \/ SendRequest(c) \/ HangUp(c)
               \/ \E w \in Workers : EnqueueTask(w)
               \/ \E p \in Threads : Notify(p) \/ CloseSocket(p)
      BY <2>3, <2>6 DEF Accept, SendRequest, HangUp, EnqueueTask, Notify, CloseSocket
    <2>7. CASE \/ Database \/ TakeResponse \/ SendSucceeds \/ SendGivesUp
               \/ UNCHANGED serverVars
      BY <2>3, <2>7 DEF Database, TakeResponse, SendSucceeds, SendGivesUp, serverVars, pipes
    <2> QED BY <2>1, <2>4, <2>5, <2>6, <2>7, PipeKinds DEF PipeStep
  <1> QED BY <1>1, <1>2, <1>3, <1>4, BlockedNext DEF OtherTypes

\* Every step keeps PipeTypes.
LEMMA PipeNext == PipeTypes /\ [ServerNext]_serverVars => PipeTypes'
  BY TablesNext, ConnNext, InboxNext, QueueNext, ThreadNext, OtherTypesNext, OneRemoverNext
     DEF PipeTypes

\* PipeTypes always holds.
LEMMA PipeTypesHold == ServerSpec => []PipeTypes
  <1>1. ServerInit => PipeTypes
    BY PipeInit
  <1>2. PipeTypes /\ [ServerNext]_serverVars => PipeTypes'
    BY PipeNext
  <1> QED BY <1>1, <1>2, PTL DEF ServerSpec

\* Threads, queues, tables and connections keep the shapes their code gives them.
THEOREM ServerTypes == ServerSpec => []ServerTypeOK
  <1>1. PipeTypes => ServerTypeOK
    BY TypesSuffice
  <1> QED BY <1>1, PipeTypesHold, PTL

-----------------------------------------------------------------------------
(* The database thread within the server.  Every step of the server is a   *)
(* step of DatabaseThread or leaves its variables alone (TablesNext), so   *)
(* what was proved of the thread alone holds whatever the others do.       *)

\* However the threads are scheduled, the columns of a session agree, and a session or a
\* game server row belongs to an account that exists.
THEOREM ServerTablesAreBound == ServerSpec => [](SessionBound /\ ServerBound)
  <1>1. ServerInit => SessionBound /\ ServerBound
    BY SessionBoundInit, ServerBoundInit DEF ServerInit
  <1>2. PipeTypes /\ SessionBound /\ ServerBound /\ [ServerNext]_serverVars
        => (SessionBound /\ ServerBound)'
    BY TablesNext, SessionBoundNext, ServerBoundNext DEF PipeTypes
  <1> QED BY <1>1, <1>2, PipeTypesHold, PTL DEF ServerSpec

\* However the threads are scheduled, no session is taken over, a game server comes up
\* only for its owner, and creation never gives two active servers one name.
THEOREM ServerStepsAreBound ==
    ServerSpec => NoSessionTakeover /\ ActivationBindsSocket /\ CreationKeepsNamesUnique
  <1>1. PipeTypes /\ [ServerNext]_serverVars
        => NotTakenOver /\ OnlyOwnersActivate /\ OnlyRejoinsDuplicate
    BY TablesNext, NotTakenOverNext, ActivationNext, CreationNext DEF PipeTypes
  <1> QED BY <1>1, PipeTypesHold, PTL
          DEF ServerSpec, NoSessionTakeover, ActivationBindsSocket, CreationKeepsNamesUnique

\* Every response with SUCCESS the threads carry to a client was true of the tables when
\* the database thread put it on SendPackets.
THEOREM ServerIsTruthful == ServerSpec => TruthfulSuccess
  <1>1. PipeTypes /\ [ServerNext]_serverVars => [Truthful']_vars
    BY TablesNext, TruthfulNext DEF PipeTypes
  <1> QED BY <1>1, PipeTypesHold, PTL DEF ServerSpec, TruthfulSuccess

\* The sessions of the whole server begin and end as SessionLifecycle allows.
THEOREM ServerImplementsLifecycle == ServerSpec => ImplementsLifecycle
  <1>1. ServerInit => Lifecycle!Init
    BY LifecycleInit DEF ServerInit
  <1>2. PipeTypes /\ SessionBound /\ [ServerNext]_serverVars => [Lifecycle!Next]_location
    BY TablesNext, LifecycleNext DEF PipeTypes
  <1> QED BY <1>1, <1>2, PipeTypesHold, ServerTablesAreBound, PTL
          DEF ServerSpec, Lifecycle!Spec, ImplementsLifecycle

-----------------------------------------------------------------------------
(* A client is reported once.                                              *)

\* a client that was removed, and whose report is on the queue or already processed
Gone(c) == /\ ~conn[c].listed
           /\ conn[c].peer # "absent"
           /\ \A p \in Threads : thread[p].pc = "notify" => thread[p].conn # c

\* the entry reports a client
IsBye(e) == e.task.kind = "ClientDisconnected"

\* on the queue are only reports of clients that are gone, one of each
Reported ==
    /\ \A i \in 1..Len(recvQ), c \in Conns : IsBye(recvQ[i]) /\ recvQ[i].from = c => Gone(c)
    /\ \A i, j \in 1..Len(recvQ) :
          IsBye(recvQ[i]) /\ IsBye(recvQ[j]) /\ recvQ[i].from = recvQ[j].from => i = j

\* A client that is gone stays gone: accept takes only connections that were never there.
LEMMA GoneStays ==
    ASSUME PipeTypes, [ServerNext]_serverVars, NEW c \in Conns, Gone(c)
    PROVE  Gone(c)'
  <1>1. thread \in [Threads -> ThreadState] /\ conn \in [Conns -> Connection]
    BY DEF PipeTypes, ThreadType, ConnType
  <1>2. ~conn'[c].listed
    <2>1. ASSUME NEW d \in Conns, Accept(d) PROVE ~conn'[c].listed
      BY <2>1, AcceptShape DEF Gone
    <2>2. CASE Removal
      <3>1. PICK p \in Threads, d \in Conns : Unlink(p, d)
        BY <2>2, RemovalShape
      <3> QED BY <1>1, <3>1, UnlinkShape DEF Gone, Connection
    <2>3. ASSUME NEW p \in Threads, CloseSocket(p) PROVE ~conn'[c].listed
      BY <2>3, CloseShape DEF Gone
    <2> QED BY <2>1, <2>2, <2>3, HandleStep DEF Gone
  <1>3. conn'[c].peer # "absent"
    <2>1. ASSUME NEW d \in Conns, Accept(d) PROVE conn'[c].peer # "absent"
      BY <2>1, AcceptShape DEF Gone
    <2>2. CASE Removal
      <3>1. PICK p \in Threads, d \in Conns : Unlink(p, d)
        BY <2>2, RemovalShape
      <3> QED BY <1>1, <3>1, UnlinkShape DEF Gone, Connection
    <2>3. ASSUME NEW p \in Threads, CloseSocket(p) PROVE conn'[c].peer # "absent"
      BY <2>3, CloseShape DEF Gone
    <2>4. CASE \E d \in Conns : SendRequest(d) \/ HangUp(d)
      BY <1>1, <2>4 DEF SendRequest, HangUp, Gone, Connection
    <2>5. CASE SendSucceeds
      BY <1>1, <2>5 DEF SendSucceeds, Addressees, Holders, Gone, Connection
    <2>6. CASE \E w \in Workers : \/ CopyList(w) \/ EnqueueTask(w)
                                  \/ \E d \in Conns : Receive(w, d)
                                  \/ \E k \in Sockets : Skip(w, k)
      BY <2>6 DEF CopyList, EnqueueTask, Receive, Skip, Gone
    <2>7. CASE \/ Database \/ TakeResponse \/ SendGivesUp \/ UNCHANGED serverVars
               \/ \E p \in Threads : Notify(p)
      BY <2>7 DEF Database, TakeResponse, SendGivesUp, Notify, serverVars, pipes, Gone
    <2> QED BY <2>1, <2>2, <2>3, <2>4, <2>5, <2>6, <2>7, PipeKinds DEF PipeStep
  <1>4. ASSUME NEW q \in Threads, thread'[q].pc = "notify" PROVE thread'[q].conn # c
    <2>1. CASE thread' = thread
      BY <1>4, <2>1 DEF Gone
    <2>2. ASSUME NEW p \in Threads, NEW s \in ThreadState, ThreadGoes(p, s)
          PROVE  thread'[q].conn # c
      <3>1. CASE q # p
        BY <1>1, <1>4, <2>2, <3>1 DEF ThreadGoes, Gone
      <3>2. CASE q = p
        <4>1. thread'[p] = s /\ s.pc = "notify"
          BY <1>1, <1>4, <2>2, <3>2 DEF ThreadGoes
        <4>2. Unlink(p, s.conn)
          BY <2>2, <4>1 DEF ThreadGoes, Idle
        <4> QED BY <3>2, <4>1, <4>2 DEF Unlink, Gone
      <3> QED BY <3>1, <3>2
    <2> QED BY <2>1, <2>2, ThreadStep
  <1> QED BY <1>2, <1>3, <1>4 DEF Gone

\* What a step can do to RecvPakets.
LEMMA RecvStep ==
    ASSUME PipeTypes, [ServerNext]_serverVars
    PROVE  \/ recvQ' = recvQ
           \/ \E p \in Threads : Notify(p)
           \/ \E w \in Workers : EnqueueTask(w)
           \/ Database
  <1>1. CASE \/ \E c \in Conns : Accept(c) \/ SendRequest(c) \/ HangUp(c)
             \/ \E w \in Workers : \/ CopyList(w)
                                   \/ \E c \in Conns : Receive(w, c)
                                   \/ \E k \in Sockets : Skip(w, k)
             \/ Removal
             \/ \E p \in Threads : CloseSocket(p)
    BY <1>1, RemovalShape DEF Accept, SendRequest, HangUp, CopyList, Receive, Skip, CloseSocket
  <1>2. CASE TakeResponse \/ SendSucceeds \/ SendGivesUp \/ UNCHANGED serverVars
    BY <1>2 DEF TakeResponse, SendSucceeds, SendGivesUp, serverVars, pipes
  <1> QED BY <1>1, <1>2, PipeKinds DEF PipeStep

\* Telling the database thread appends the report of a client that is gone from then on.
LEMMA NotifyShape ==
    ASSUME PipeTypes, NEW p \in Threads, Notify(p)
    PROVE  /\ thread[p].pc = "notify" /\ thread[p].conn \in Conns
           /\ thread[p].item \in Entry
           /\ IsBye(thread[p].item) /\ thread[p].item.from = thread[p].conn
           /\ recvQ' = Append(recvQ, thread[p].item)
           /\ \A c \in Conns : c = thread[p].conn => Gone(c)'
  <1>1. thread \in [Threads -> ThreadState] /\ conn \in [Conns -> Connection]
    BY DEF PipeTypes, ThreadType, ConnType
  <1>2. thread[p].pc = "notify" /\ thread[p].conn \in Conns
    BY DEF Notify, PipeTypes, Holding
  <1>3. PICK k \in Sockets : thread[p].item = Bye(k, thread[p].conn)
    BY <1>2 DEF PipeTypes, Holding
  <1>4. /\ thread[p].item \in Entry
        /\ IsBye(thread[p].item) /\ thread[p].item.from = thread[p].conn
    BY <1>2, <1>3, ByeEntry DEF Bye, IsBye
  <1>5. recvQ' = Append(recvQ, thread[p].item) /\ conn' = conn
    BY DEF Notify
  <1>6. ~conn[thread[p].conn].listed /\ conn[thread[p].conn].fd # NoSocket
    BY <1>2 DEF PipeTypes, OneRemover, Removing
  <1>7. conn[thread[p].conn].peer # "absent"
    BY <1>2, <1>6 DEF PipeTypes, Consistent
  <1>8. ASSUME NEW q \in Threads, thread'[q].pc = "notify"
        PROVE  thread'[q].conn # thread'[p].conn
    <2>1. /\ thread'[p].pc = "close" /\ thread'[p].conn = thread[p].conn
          /\ \A r \in Threads \ {p} : thread'[r] = thread[r]
      BY <1>1 DEF Notify, ThreadState
    <2>2. q # p /\ thread[q].pc = "notify"
      BY <1>8, <2>1
    <2> QED BY <1>2, <2>1, <2>2 DEF PipeTypes, OneRemover, Removing
  <1>9. thread'[p].conn = thread[p].conn
    BY <1>1 DEF Notify, ThreadState
  <1> QED BY <1>2, <1>4, <1>5, <1>6, <1>7, <1>8, <1>9 DEF Gone

\* A task a worker puts on the queue is a request.
LEMMA EnqueueShape ==
    ASSUME PipeTypes, NEW w \in Workers, EnqueueTask(w)
    PROVE  /\ w \in Threads /\ thread[w].pc = "enqueue" /\ thread[w].conn \in Conns
           /\ [task |-> thread[w].item, from |-> thread[w].conn] \in Entry
           /\ ~IsBye([task |-> thread[w].item, from |-> thread[w].conn])
           /\ recvQ' = Append(recvQ, [task |-> thread[w].item, from |-> thread[w].conn])
           /\ thread' = [thread EXCEPT ![w] = Idle]
           /\ UNCHANGED <<conn, socketList, inbox>>
  <1>1. w \in Threads /\ thread[w].pc = "enqueue"
    BY DEF EnqueueTask, Threads
  <1>2. thread[w].conn \in Conns /\ thread[w].item \in Requests
    BY <1>1 DEF PipeTypes, Holding
  <1> QED BY <1>1, <1>2 DEF EnqueueTask, Requests, Entry, IsBye

\* The database thread takes the first entry; the rest move up.
LEMMA DatabaseTakes ==
    ASSUME PipeTypes, Database
    PROVE  /\ Len(recvQ) \in Nat \ {0} /\ Len(recvQ') = Len(recvQ) - 1
           /\ \A i \in 1..Len(recvQ') : recvQ'[i] = recvQ[i + 1]
           /\ UNCHANGED <<conn, thread, socketList, inbox, setting>>
  <1>1. recvQ # <<>> /\ recvQ' = Tail(recvQ) /\ recvQ \in Seq(Entry)
    BY DatabaseShape DEF PipeTypes, QueueTypes
  <1>2. UNCHANGED <<conn, thread, socketList, inbox, setting>>
    BY DEF Database
  <1> QED BY <1>1, <1>2, TailFacts

\* Reports stay reports of clients that are gone, one of each.
LEMMA ReportedNext ==
    ASSUME PipeTypes, [ServerNext]_serverVars, Reported
    PROVE  Reported'
  <1>1. recvQ \in Seq(Entry) /\ Len(recvQ) \in Nat
    BY DEF PipeTypes, QueueTypes
  <1>2. \A i \in 1..Len(recvQ), c \in Conns : IsBye(recvQ[i]) /\ recvQ[i].from = c => Gone(c)'
    BY GoneStays DEF Reported
  <1>3. ASSUME recvQ' = recvQ PROVE Reported'
    BY <1>2, <1>3 DEF Reported
  <1>4. ASSUME NEW p \in Threads, Notify(p) PROVE Reported'
    <2> DEFINE e == thread[p].item
    <2>1. /\ e \in Entry /\ IsBye(e) /\ recvQ' = Append(recvQ, e)
          /\ e.from = thread[p].conn /\ thread[p].pc = "notify" /\ e.from \in Conns
          /\ \A c \in Conns : c = e.from => Gone(c)'
      BY <1>4, NotifyShape
    <2>2. /\ Len(recvQ') = Len(recvQ) + 1 /\ recvQ'[Len(recvQ) + 1] = e
          /\ \A i \in 1..Len(recvQ) : recvQ'[i] = recvQ[i]
      BY <1>1, <2>1, AppendFacts
    <2>3. \A i \in 1..Len(recvQ) : IsBye(recvQ[i]) => recvQ[i].from # e.from
      BY <1>4, <2>1 DEF Reported, Gone
    <2>4. \A i \in 1..Len(recvQ') : i = Len(recvQ) + 1 \/ i \in 1..Len(recvQ)
      BY <1>1, <2>2
    <2>5. \A i \in 1..Len(recvQ'), c \in Conns :
             IsBye(recvQ'[i]) /\ recvQ'[i].from = c => Gone(c)'
      BY <1>2, <2>1, <2>2, <2>4
    <2>6. \A i, j \in 1..Len(recvQ') :
             IsBye(recvQ'[i]) /\ IsBye(recvQ'[j]) /\ recvQ'[i].from = recvQ'[j].from => i = j
      BY <2>2, <2>3, <2>4 DEF Reported
    <2> QED BY <2>5, <2>6 DEF Reported
  <1>5. ASSUME NEW w \in Workers, EnqueueTask(w) PROVE Reported'
    <2> DEFINE e == [task |-> thread[w].item, from |-> thread[w].conn]
    <2>1. e \in Entry /\ ~IsBye(e) /\ recvQ' = Append(recvQ, e)
      BY <1>5, EnqueueShape
    <2>2. /\ Len(recvQ') = Len(recvQ) + 1 /\ recvQ'[Len(recvQ) + 1] = e
          /\ \A i \in 1..Len(recvQ) : recvQ'[i] = recvQ[i]
      BY <1>1, <2>1, AppendFacts
    <2>3. \A i \in 1..Len(recvQ') : i = Len(recvQ) + 1 \/ i \in 1..Len(recvQ)
      BY <1>1, <2>2
    <2>4. \A i \in 1..Len(recvQ'), c \in Conns :
             IsBye(recvQ'[i]) /\ recvQ'[i].from = c => Gone(c)'
      BY <1>2, <2>1, <2>2, <2>3
    <2>5. \A i, j \in 1..Len(recvQ') :
             IsBye(recvQ'[i]) /\ IsBye(recvQ'[j]) /\ recvQ'[i].from = recvQ'[j].from => i = j
      BY <2>1, <2>2, <2>3 DEF Reported
    <2> QED BY <2>4, <2>5 DEF Reported
  <1>6. CASE Database
    <2>1. /\ Len(recvQ') = Len(recvQ) - 1
          /\ \A i \in 1..Len(recvQ') : recvQ'[i] = recvQ[i + 1]
      BY <1>6, DatabaseTakes
    <2>2. \A i \in 1..Len(recvQ') : i \in Int /\ i + 1 \in 1..Len(recvQ)
      BY <1>1, <2>1
    <2>3. \A i \in 1..Len(recvQ'), c \in Conns :
             IsBye(recvQ'[i]) /\ recvQ'[i].from = c => Gone(c)'
      BY <1>2, <2>1, <2>2
    <2>4. \A i, j \in 1..Len(recvQ') :
             IsBye(recvQ'[i]) /\ IsBye(recvQ'[j]) /\ recvQ'[i].from = recvQ'[j].from => i = j
      <3> SUFFICES ASSUME NEW i \in 1..Len(recvQ'), NEW j \in 1..Len(recvQ'),
                          IsBye(recvQ'[i]), IsBye(recvQ'[j]), recvQ'[i].from = recvQ'[j].from
                   PROVE  i = j
        OBVIOUS
      <3>1. i + 1 = j + 1
        BY <2>1, <2>2 DEF Reported
      <3> QED BY <2>2, <3>1
    <2> QED BY <2>3, <2>4 DEF Reported
  <1> QED BY <1>3, <1>4, <1>5, <1>6, RecvStep

\* A worker and the handler may both find a client broken: one of them removes it, it is
\* reported once, and its handle is not closed twice.
THEOREM ClientsAreRemovedOnce == ServerSpec => []RemovedOnce
  <1>1. ServerInit => Reported
    BY DEF ServerInit, Reported
  <1>2. PipeTypes /\ Reported => RemovedOnce
    <2> SUFFICES ASSUME PipeTypes, Reported PROVE RemovedOnce
      OBVIOUS
    <2>1. recvQ \in Seq(Entry) /\ DOMAIN recvQ = 1..Len(recvQ)
      BY DEF PipeTypes, QueueTypes
    <2>2. ASSUME NEW c \in Conns
          PROVE  /\ Cardinality(Reports(c)) <= 1
                 /\ Reports(c) # {} => Gone(c)
      <3>1. CASE Reports(c) = {}
        BY <3>1, FS_EmptySet
      <3>2. ASSUME NEW i \in Reports(c)
            PROVE  Cardinality(Reports(c)) <= 1 /\ Gone(c)
        <4>1. i \in 1..Len(recvQ) /\ IsBye(recvQ[i]) /\ recvQ[i].from = c
          BY <2>1, <3>2 DEF Reports, IsBye
        <4>2. \A j \in Reports(c) : j = i
          BY <2>1, <4>1 DEF Reports, Reported, IsBye
        <4>3. Reports(c) = {i}
          BY <3>2, <4>2
        <4>4. Cardinality({i}) = 1
          BY FS_Singleton
        <4> QED BY <4>1, <4>3, <4>4 DEF Reported
      <3> QED BY <3>1, <3>2
    <2> QED BY <2>2 DEF RemovedOnce, PipeTypes, OneRemover, Gone
  <1>3. PipeTypes /\ Reported /\ [ServerNext]_serverVars => Reported'
    BY ReportedNext
  <1> QED BY <1>1, <1>2, <1>3, PipeTypesHold, PTL DEF ServerSpec

-----------------------------------------------------------------------------
(* While nothing disturbs the workers, each reads from its own clients.    *)

\* a handle is open for one connection
UniqueHandles == \A c, d \in Conns : conn[c].fd = conn[d].fd /\ conn[c].fd # NoSocket => c = d

\* a copied handle is that of a client the worker still has
FreshCopies == \A w \in Workers : \A k \in socketList[w] :
                  \E c \in Conns : conn[c].listed /\ conn[c].worker = w /\ conn[c].fd = k

\* a worker that holds a request still has the client it came from
OwnRequests == \A p \in Threads : thread[p].pc = "enqueue" =>
                  conn[thread[p].conn].listed /\ conn[thread[p].conn].worker = p

\* nothing of a client on the queue behind its report
ReportIsLast == \A i, j \in 1..Len(recvQ) :
                  i < j /\ IsBye(recvQ[i]) => recvQ[j].from # recvQ[i].from

Owned == FreshCopies /\ OwnRequests /\ ReportIsLast

\* Every step keeps handles apart.
LEMMA UniqueNext ==
    ASSUME PipeTypes, [ServerNext]_serverVars, UniqueHandles
    PROVE  UniqueHandles'
  <1>1. conn \in [Conns -> Connection]
    BY DEF PipeTypes, ConnType
  <1>2. CASE \A c \in Conns : conn'[c].fd = conn[c].fd
    BY <1>2 DEF UniqueHandles
  <1>3. ASSUME NEW c \in Conns, Accept(c) PROVE UniqueHandles'
    BY <1>3, AcceptShape DEF UniqueHandles
  <1>4. CASE Removal
    <2>1. PICK p \in Threads, c \in Conns : Unlink(p, c)
      BY <1>4, RemovalShape
    <2>2. \A d \in Conns : conn'[d].fd = conn[d].fd
      BY <1>1, <2>1, UnlinkShape DEF Connection
    <2> QED BY <1>2, <2>2
  <1>5. ASSUME NEW p \in Threads, CloseSocket(p) PROVE UniqueHandles'
    BY <1>5, CloseShape DEF UniqueHandles
  <1> QED BY <1>2, <1>3, <1>4, <1>5, HandleStep

\* While nothing disturbs the workers, a client is removed by its own worker, in the turn
\* in which it reads from it.
LEMMA OwnRemoval ==
    ASSUME PipeTypes, Undisturbed, Removal
    PROVE  \E w \in Workers, c \in Conns :
              /\ thread[w].pc = "idle"
              /\ conn[c].listed /\ conn[c].worker = w
              /\ Unlink(w, c) /\ Visited(w, conn[c].fd)
              /\ recvQ' = recvQ
  <1>1. ~SendBreaks /\ \A w \in Workers, c \in Conns : ~SelectError(w, c)
    BY DEF Undisturbed, SendBreaks, SelectError
  <1>2. PICK w \in Workers, c \in Conns : DropClient(w, c)
    BY <1>1 DEF Removal
  <1> QED BY <1>2 DEF DropClient, Visits, ClientsOf

\* A handle a worker visits is that of its own client.
LEMMA VisitsOwn ==
    ASSUME PipeTypes, UniqueHandles, FreshCopies,
           NEW w \in Workers, NEW c \in Conns, Visits(w, c)
    PROVE  conn[c].listed /\ conn[c].worker = w
  <1>1. conn[c].fd \in socketList[w] /\ conn[c].fd \in Sockets
    BY DEF Visits, PipeTypes, OtherTypes
  <1>2. PICK d \in Conns : conn[d].listed /\ conn[d].worker = w /\ conn[d].fd = conn[c].fd
    BY <1>1 DEF FreshCopies
  <1> QED BY <1>1, <1>2, NullsAssumption DEF UniqueHandles

\* Copied handles stay those of clients the worker has.
LEMMA FreshNext ==
    ASSUME PipeTypes, [ServerNext]_serverVars, Undisturbed, UniqueHandles, FreshCopies
    PROVE  FreshCopies'
  <1>1. /\ conn \in [Conns -> Connection] /\ socketList \in [Workers -> SUBSET Sockets]
        /\ NoSocket \notin Sockets
    BY NullsAssumption DEF PipeTypes, ConnType, OtherTypes
  <1>2. ASSUME /\ \A d \in Conns : /\ conn'[d].fd = conn[d].fd
                                   /\ conn'[d].listed = conn[d].listed
                                   /\ conn'[d].worker = conn[d].worker,
               \A v \in Workers : socketList'[v] \subseteq socketList[v]
        PROVE  FreshCopies'
    BY <1>2 DEF FreshCopies
  <1>3. ASSUME NEW c \in Conns, Accept(c) PROVE FreshCopies'
    BY <1>3, AcceptShape DEF FreshCopies
  <1>4. CASE Removal
    <2>1. PICK w \in Workers, c \in Conns :
             /\ conn[c].listed /\ conn[c].worker = w
             /\ Unlink(w, c) /\ Visited(w, conn[c].fd)
      BY <1>4, OwnRemoval
    <2>2. /\ \A d \in Conns \ {c} : conn'[d] = conn[d]
          /\ socketList'[w] = socketList[w] \ {conn[c].fd}
          /\ \A v \in Workers \ {w} : socketList'[v] = socketList[v]
      BY <1>1, <2>1 DEF Unlink, Visited
    <2> QED BY <2>1, <2>2 DEF FreshCopies
  <1>5. ASSUME NEW p \in Threads, CloseSocket(p) PROVE FreshCopies'
    BY <1>5, CloseShape DEF FreshCopies
  <1>6. ASSUME NEW w \in Workers, CopyList(w) PROVE FreshCopies'
    <2>1. /\ conn' = conn
          /\ socketList'[w] = {conn[c].fd : c \in ClientsOf(w)}
          /\ \A v \in Workers \ {w} : socketList'[v] = socketList[v]
      BY <1>1, <1>6 DEF CopyList
    <2> QED BY <2>1 DEF FreshCopies, ClientsOf
  <1>7. ASSUME NEW w \in Workers, NEW k, Visited(w, k), conn' = conn PROVE FreshCopies'
    BY <1>1, <1>2, <1>7 DEF Visited
  <1>8. CASE \E w \in Workers : \/ \E c \in Conns : Receive(w, c)
                                \/ \E k \in Sockets : Skip(w, k)
    BY <1>7, <1>8 DEF Receive, Skip
  <1>9. CASE \E c \in Conns : SendRequest(c) \/ HangUp(c)
    <2>1. socketList' = socketList
      BY <1>9 DEF SendRequest, HangUp
    <2>2. \A d \in Conns : /\ conn'[d].fd = conn[d].fd
                           /\ conn'[d].listed = conn[d].listed
                           /\ conn'[d].worker = conn[d].worker
      <3>1. conn \in [Conns -> Connection]
        BY <1>1
      <3> QED BY <1>9, <3>1 DEF SendRequest, HangUp, Connection
    <2> QED BY <1>2, <2>1, <2>2
  <1>10. CASE SendSucceeds
    BY <1>1, <1>2, <1>10 DEF SendSucceeds, Addressees, Holders, Connection
  <1>11. CASE \/ \E w \in Workers : EnqueueTask(w)
              \/ \E p \in Threads : Notify(p)
    BY <1>2, <1>11 DEF EnqueueTask, Notify
  <1>12. CASE Database \/ TakeResponse \/ SendGivesUp \/ UNCHANGED serverVars
    BY <1>2, <1>12 DEF Database, TakeResponse, SendGivesUp, serverVars, pipes
  <1> QED BY <1>3, <1>4, <1>5, <1>6, <1>8, <1>9, <1>10, <1>11, <1>12, PipeKinds
          DEF PipeStep

\* A worker that holds a request keeps the client it came from.
LEMMA OwnRequestsNext ==
    ASSUME PipeTypes, [ServerNext]_serverVars, Undisturbed, UniqueHandles, FreshCopies,
           OwnRequests
    PROVE  OwnRequests'
  <1>1. /\ conn \in [Conns -> Connection] /\ thread \in [Threads -> ThreadState]
        /\ Workers \subseteq Threads
        /\ \A p \in Threads : thread[p].pc = "enqueue" => thread[p].conn \in Conns
    BY DEF PipeTypes, ConnType, ThreadType, Threads, Holding
  <1>2. ASSUME NEW p \in Threads, thread[p].pc = "enqueue",
               thread'[p] = thread[p]
        PROVE  conn'[thread'[p].conn].listed /\ conn'[thread'[p].conn].worker = p
    <2> DEFINE c == thread[p].conn
    <2>1. c \in Conns /\ conn[c].listed /\ conn[c].worker = p
      BY <1>1, <1>2 DEF OwnRequests
    <2>2. ASSUME NEW d \in Conns, Accept(d) PROVE conn'[c] = conn[c]
      BY <2>1, <2>2, AcceptShape
    <2>3. CASE Removal
      <3>1. PICK w \in Workers, d \in Conns :
               thread[w].pc = "idle" /\ conn[d].worker = w /\ Unlink(w, d)
        BY <2>3, OwnRemoval
      <3>2. d # c
        BY <1>2, <2>1, <3>1
      <3> QED BY <1>1, <1>2, <2>1, <3>1, <3>2 DEF Unlink
    <2>4. ASSUME NEW q \in Threads, CloseSocket(q)
          PROVE  conn'[c].listed /\ conn'[c].worker = p
      BY <2>1, <2>4, CloseShape
    <2> QED BY <1>2, <2>1, <2>2, <2>3, <2>4, HandleStep
  <1>3. ASSUME NEW p \in Threads, thread'[p].pc = "enqueue", thread'[p] # thread[p]
        PROVE  conn'[thread'[p].conn].listed /\ conn'[thread'[p].conn].worker = p
    <2>1. PICK w \in Workers, c \in Conns : Receive(w, c)
      <3>1. CASE \/ \E c \in Conns : Accept(c) \/ SendRequest(c) \/ HangUp(c)
                 \/ \E w \in Workers : CopyList(w) \/ \E k \in Sockets : Skip(w, k)
                 \/ Database \/ UNCHANGED serverVars
        BY <1>3, <3>1 DEF Accept, SendRequest, HangUp, CopyList, Skip, Database, serverVars,
           pipes
      <3>2. CASE \/ \E w \in Workers : EnqueueTask(w)
                 \/ \E q \in Threads : CloseSocket(q)
                 \/ SendSucceeds \/ SendGivesUp
        <4>1. PICK q \in Threads : thread' = [thread EXCEPT ![q] = Idle]
          BY <3>2 DEF EnqueueTask, CloseSocket, SendSucceeds, SendGivesUp, Threads
        <4> QED BY <1>1, <1>3, <4>1 DEF Idle
      <3>3. ASSUME NEW q \in Threads, Notify(q) PROVE FALSE
        BY <1>1, <1>3, <3>3 DEF Notify, ThreadState
      <3>4. CASE TakeResponse
        BY <1>1, <1>3, <3>4 DEF TakeResponse
      <3>5. CASE Removal
        <4>1. PICK q \in Threads, c \in Conns : Unlink(q, c)
          BY <3>5, RemovalShape
        <4> QED BY <1>1, <1>3, <4>1 DEF Unlink
      <3> QED BY <3>1, <3>2, <3>3, <3>4, <3>5, PipeKinds DEF PipeStep
    <2>2. p = w /\ thread'[p].conn = c
      BY <1>1, <1>3, <2>1 DEF Receive
    <2>3. conn[c].listed /\ conn[c].worker = w
      BY <2>1, VisitsOwn DEF Receive
    <2> QED BY <2>1, <2>2, <2>3 DEF Receive
  <1> QED BY <1>2, <1>3 DEF OwnRequests

\* A report stays the last entry of its client.
LEMMA ReportIsLastNext ==
    ASSUME PipeTypes, [ServerNext]_serverVars, Reported, OwnRequests, ReportIsLast
    PROVE  ReportIsLast'
  <1>1. recvQ \in Seq(Entry) /\ Len(recvQ) \in Nat
    BY DEF PipeTypes, QueueTypes
  <1>2. CASE recvQ' = recvQ
    BY <1>2 DEF ReportIsLast, IsBye
  <1>3. ASSUME NEW e \in Entry, recvQ' = Append(recvQ, e),
               \A i \in 1..Len(recvQ) : IsBye(recvQ[i]) => recvQ[i].from # e.from
        PROVE  ReportIsLast'
    <2>1. /\ Len(recvQ') = Len(recvQ) + 1 /\ recvQ'[Len(recvQ) + 1] = e
          /\ \A i \in 1..Len(recvQ) : recvQ'[i] = recvQ[i]
      BY <1>1, <1>3, AppendFacts
    <2>2. \A i, j \in 1..Len(recvQ') :
             i < j /\ IsBye(recvQ'[i]) => recvQ'[j].from # recvQ'[i].from
      <3> SUFFICES ASSUME NEW i \in 1..Len(recvQ'), NEW j \in 1..Len(recvQ'), i < j,
                          IsBye(recvQ'[i])
                   PROVE  recvQ'[j].from # recvQ'[i].from
        OBVIOUS
      <3>1. i \in 1..Len(recvQ)
        BY <1>1, <2>1
      <3>2. CASE j \in 1..Len(recvQ)
        BY <2>1, <3>1, <3>2 DEF ReportIsLast
      <3>3. CASE j = Len(recvQ) + 1
        BY <1>3, <2>1, <3>1, <3>3
      <3> QED BY <1>1, <2>1, <3>2, <3>3
    <2> QED BY <2>2 DEF ReportIsLast, IsBye
  <1>4. ASSUME NEW p \in Threads, Notify(p) PROVE ReportIsLast'
    <2>1. /\ thread[p].item \in Entry /\ recvQ' = Append(recvQ, thread[p].item)
          /\ thread[p].pc = "notify" /\ thread[p].item.from = thread[p].conn
          /\ thread[p].conn \in Conns
      BY <1>4, NotifyShape
    <2>2. \A i \in 1..Len(recvQ) : IsBye(recvQ[i]) => recvQ[i].from # thread[p].item.from
      BY <1>4, <2>1 DEF Reported, Gone
    <2> QED BY <1>3, <2>1, <2>2
  <1>5. ASSUME NEW w \in Workers, EnqueueTask(w) PROVE ReportIsLast'
    <2> DEFINE e == [task |-> thread[w].item, from |-> thread[w].conn]
    <2>1. /\ e \in Entry /\ recvQ' = Append(recvQ, e) /\ e.from \in Conns
          /\ conn[e.from].listed
      BY <1>5, EnqueueShape DEF OwnRequests
    <2>2. \A i \in 1..Len(recvQ) : IsBye(recvQ[i]) => recvQ[i].from # e.from
      BY <2>1 DEF Reported, Gone
    <2> QED BY <1>3, <2>1, <2>2
  <1>6. CASE Database
    <2>1. /\ Len(recvQ') = Len(recvQ) - 1
          /\ \A i \in 1..Len(recvQ') : recvQ'[i] = recvQ[i + 1]
      BY <1>6, DatabaseTakes
    <2>2. \A i \in 1..Len(recvQ') : i \in Int /\ i + 1 \in 1..Len(recvQ)
      BY <1>1, <2>1
    <2>3. \A i, j \in 1..Len(recvQ') :
             i < j /\ IsBye(recvQ'[i]) => recvQ'[j].from # recvQ'[i].from
      <3> SUFFICES ASSUME NEW i \in 1..Len(recvQ'), NEW j \in 1..Len(recvQ'), i < j,
                          IsBye(recvQ'[i])
                   PROVE  recvQ'[j].from # recvQ'[i].from
        OBVIOUS
      <3>1. i + 1 < j + 1
        BY <2>2
      <3> QED BY <2>1, <2>2, <3>1 DEF ReportIsLast
    <2> QED BY <2>3 DEF ReportIsLast, IsBye
  <1> QED BY <1>2, <1>4, <1>5, <1>6, RecvStep

\* Reports of clients, the handles of the connections and, while nothing disturbs the
\* workers, the clients each of them reads from.
PipeInv == PipeTypes /\ Reported /\ UniqueHandles /\ (Undisturbed => Owned)

\* PipeInv always holds.
LEMMA PipeInvHolds == ServerSpec => []PipeInv
  <1>1. ServerInit => PipeInv
    <2> SUFFICES ASSUME ServerInit PROVE PipeInv
      OBVIOUS
    <2>1. Reported /\ UniqueHandles
      BY DEF ServerInit, Reported, UniqueHandles, Unconnected
    <2>2. FreshCopies /\ OwnRequests /\ ReportIsLast
      BY DEF ServerInit, FreshCopies, OwnRequests, ReportIsLast, Idle
    <2> QED BY <2>1, <2>2, PipeInit DEF PipeInv, Owned
  <1>2. PipeInv /\ [ServerNext]_serverVars => PipeInv'
    <2> SUFFICES ASSUME PipeInv, [ServerNext]_serverVars PROVE PipeInv'
      OBVIOUS
    <2>1. PipeTypes' /\ Reported' /\ UniqueHandles'
      BY PipeNext, ReportedNext, UniqueNext DEF PipeInv
    <2>2. ASSUME Undisturbed PROVE Owned'
      BY <2>2, FreshNext, OwnRequestsNext, ReportIsLastNext DEF PipeInv, Owned
    <2>3. Undisturbed' => Undisturbed
      BY SettingStays DEF PipeInv, Undisturbed
    <2> QED BY <2>1, <2>2, <2>3 DEF PipeInv
  <1> QED BY <1>1, <1>2, PTL DEF ServerSpec

\* While no send breaks and select reports no error, nothing of a connection follows its
\* disconnection on the way to the database thread.
THEOREM NothingFollowsAReport == ServerSpec => []NothingAfterDisconnect
  <1>1. PipeInv => NothingAfterDisconnect
    BY DEF PipeInv, PipeTypes, QueueTypes, Owned, ReportIsLast, IsBye, NothingAfterDisconnect
  <1> QED BY <1>1, PipeInvHolds, PTL

-----------------------------------------------------------------------------
(* What is sent, held or reported over a handle carries that handle.       *)

\* a thread about to report a client has its handle, and reports it
HandlesHeld == \A p \in Threads : thread[p].pc = "notify" =>
                  thread[p].item = Bye(conn[thread[p].conn].fd, thread[p].conn)

InboxSockets == \A c \in Conns : \A i \in 1..Len(inbox[c]) : inbox[c][i].socket = conn[c].fd

ItemSockets == \A p \in Threads : thread[p].pc = "enqueue" =>
                  thread[p].item.socket = conn[thread[p].conn].fd

\* A client on a list, or about to be reported, keeps its handle.
LEMMA HandleKept ==
    ASSUME PipeTypes, [ServerNext]_serverVars, NEW c \in Conns,
           conn[c].listed \/ \E p \in Threads : thread[p].pc = "notify" /\ thread[p].conn = c
    PROVE  conn'[c].fd = conn[c].fd
  <1>1. conn[c].fd # NoSocket
    BY DEF PipeTypes, Consistent, OneRemover, Removing
  <1>2. ASSUME NEW d \in Conns, Accept(d) PROVE conn'[c].fd = conn[c].fd
    BY <1>1, <1>2, AcceptShape
  <1>3. CASE Removal
    <2>1. PICK p \in Threads, d \in Conns : Unlink(p, d)
      BY <1>3, RemovalShape
    <2> QED BY <2>1, UnlinkShape DEF PipeTypes, ConnType, Connection
  <1>4. ASSUME NEW p \in Threads, CloseSocket(p) PROVE conn'[c].fd = conn[c].fd
    <2>1. thread[p].conn # c
      BY <1>4, CloseShape DEF PipeTypes, OneRemover, Removing
    <2> QED BY <1>4, <2>1, CloseShape
  <1> QED BY <1>2, <1>3, <1>4, HandleStep

\* Every step keeps what is about to be reported.
LEMMA HeldNext ==
    ASSUME PipeTypes, [ServerNext]_serverVars, HandlesHeld
    PROVE  HandlesHeld'
  <1>1. /\ thread \in [Threads -> ThreadState] /\ conn \in [Conns -> Connection]
        /\ \A p \in Threads : thread[p].pc = "notify" => thread[p].conn \in Conns
    BY DEF PipeTypes, ThreadType, ConnType, Holding
  <1>2. ASSUME NEW p \in Threads, thread[p].pc = "notify", thread'[p] = thread[p]
        PROVE  thread'[p].item = Bye(conn'[thread'[p].conn].fd, thread'[p].conn)
    <2>1. conn'[thread[p].conn].fd = conn[thread[p].conn].fd
      BY <1>1, <1>2, HandleKept
    <2> QED BY <1>2, <2>1 DEF HandlesHeld
  <1>3. CASE thread' = thread
    BY <1>2, <1>3 DEF HandlesHeld
  <1>4. ASSUME NEW p \in Threads, NEW s \in ThreadState, ThreadGoes(p, s) PROVE HandlesHeld'
    <2>1. /\ thread' = [thread EXCEPT ![p] = s] /\ thread'[p] = s
          /\ \A q \in Threads \ {p} : thread'[q] = thread[q]
      BY <1>1, <1>4 DEF ThreadGoes
    <2>2. ASSUME s.pc = "notify" PROVE s.item = Bye(conn'[s.conn].fd, s.conn)
      <3>1. s.conn \in Conns /\ Unlink(p, s.conn)
        BY <1>4, <2>2 DEF ThreadGoes, Idle
      <3>2. /\ thread'[p].item = Bye(conn[s.conn].fd, s.conn)
            /\ conn'[s.conn].fd = conn[s.conn].fd
        BY <1>1, <3>1, UnlinkShape DEF Connection
      <3> QED BY <2>1, <3>2
    <2> QED BY <1>2, <2>1, <2>2 DEF HandlesHeld
  <1> QED BY <1>3, <1>4, ThreadStep

\* Every step keeps the handles of the requests that wait.
LEMMA InboxSocketsNext ==
    ASSUME PipeTypes, [ServerNext]_serverVars, InboxSockets
    PROVE  InboxSockets'
  <1>1. /\ inbox \in [Conns -> Seq(Requests)] /\ conn \in [Conns -> Connection]
        /\ \A c \in Conns : Len(inbox[c]) \in Nat
    BY DEF PipeTypes, InboxType, ConnType
  <1>2. ASSUME inbox' = inbox, \A c \in Conns : conn'[c].fd = conn[c].fd PROVE InboxSockets'
    BY <1>2 DEF InboxSockets
  <1>3. ASSUME NEW c \in Conns, Accept(c) PROVE InboxSockets'
    <2>1. ASSUME NEW i \in 1..Len(inbox[c]) PROVE FALSE
      <3>1. inbox[c][i] \in Requests /\ inbox[c][i].socket = NoSocket
        BY <1>1, <1>3, AcceptShape DEF InboxSockets
      <3> QED BY <3>1, TaskShape, NullsAssumption DEF Requests
    <2> QED BY <1>3, <2>1, AcceptShape DEF InboxSockets
  <1>4. ASSUME NEW c \in Conns, SendRequest(c) PROVE InboxSockets'
    <2>1. PICK r \in Settings[setting].requests :
             inbox' = [inbox EXCEPT ![c] = Append(inbox[c], [r EXCEPT !.socket = conn[c].fd])]
      BY <1>4 DEF SendRequest
    <2> DEFINE e == [r EXCEPT !.socket = conn[c].fd]
    <2>2. Settings[setting] \in Range(Settings)
      BY DEF PipeTypes, OtherTypes, Range
    <2>3. r \in Requests
      BY <2>1, <2>2, PipelineAssumption DEF Requests
    <2>4. conn[c].fd \in Sockets
      BY <1>4 DEF SendRequest, PipeTypes, Consistent, ConnType, Connection
    <2>5. e \in Requests /\ e.socket = conn[c].fd
      BY <2>3, <2>4, OverAnyHandle
    <2>6. \A d \in Conns : conn'[d].fd = conn[d].fd
      BY <1>1, <1>4 DEF SendRequest, Connection
    <2>7. \A i \in 1..Len(inbox'[c]) : inbox'[c][i].socket = conn[c].fd
      <3> HIDE DEF e
      <3>1. inbox'[c] = Append(inbox[c], e) /\ inbox[c] \in Seq(Requests)
        BY <1>1, <2>1 DEF e
      <3>2. /\ Len(inbox'[c]) = Len(inbox[c]) + 1 /\ inbox'[c][Len(inbox[c]) + 1] = e
            /\ \A i \in 1..Len(inbox[c]) : inbox'[c][i] = inbox[c][i]
        BY <2>5, <3>1, AppendFacts
      <3>3. \A i \in 1..Len(inbox'[c]) : i = Len(inbox[c]) + 1 \/ i \in 1..Len(inbox[c])
        BY <1>1, <3>2
      <3> QED BY <2>5, <3>2, <3>3 DEF InboxSockets
    <2>8. \A d \in Conns \ {c} : inbox'[d] = inbox[d]
      BY <1>1, <2>1
    <2> QED BY <2>6, <2>7, <2>8 DEF InboxSockets
  <1>5. ASSUME NEW w \in Workers, NEW c \in Conns, Receive(w, c) PROVE InboxSockets'
    <2>1. /\ inbox[c] # <<>> /\ conn' = conn /\ inbox'[c] = Tail(inbox[c])
          /\ \A d \in Conns \ {c} : inbox'[d] = inbox[d]
      BY <1>1, <1>5 DEF Receive
    <2>2. /\ Len(inbox'[c]) = Len(inbox[c]) - 1
          /\ \A i \in 1..Len(inbox'[c]) : inbox'[c][i] = inbox[c][i + 1]
      BY <1>1, <2>1, TailFacts
    <2>3. \A i \in 1..Len(inbox'[c]) : i + 1 \in 1..Len(inbox[c])
      BY <1>1, <2>2
    <2>4. \A i \in 1..Len(inbox'[c]) : inbox'[c][i].socket = conn'[c].fd
      BY <2>1, <2>2, <2>3 DEF InboxSockets
    <2> QED BY <2>1, <2>4 DEF InboxSockets
  <1>6. ASSUME NEW p \in Threads, CloseSocket(p) PROVE InboxSockets'
    <2>1. inbox'[thread[p].conn] = <<>>
      BY <1>1, <1>6, CloseShape
    <2>2. \A i \in 1..Len(inbox'[thread[p].conn]) : FALSE
      BY <2>1
    <2>3. \A d \in Conns \ {thread[p].conn} : inbox'[d] = inbox[d] /\ conn'[d] = conn[d]
      BY <1>1, <1>6, CloseShape
    <2> QED BY <2>2, <2>3 DEF InboxSockets
  <1>7. CASE Removal
    <2>1. PICK p \in Threads, d \in Conns : Unlink(p, d) /\ inbox' = inbox
      BY <1>7, RemovalShape
    <2>2. conn \in [Conns -> Connection] /\ conn' = [conn EXCEPT ![d].listed = FALSE]
      BY <1>1, <2>1, UnlinkShape
    <2>3. \A c \in Conns : conn'[c].fd = conn[c].fd
      BY <2>2 DEF Connection
    <2> QED BY <1>2, <2>1, <2>3
  <1>8. CASE (\E c \in Conns : HangUp(c)) \/ SendSucceeds
    <2>1. \A c \in Conns : conn'[c].fd = conn[c].fd
      <3>1. conn \in [Conns -> Connection]
        BY <1>1
      <3>2. CASE \E c \in Conns : HangUp(c)
        BY <3>1, <3>2 DEF HangUp, Connection
      <3>3. CASE SendSucceeds
        BY <3>1, <3>3 DEF SendSucceeds, Addressees, Holders, Connection
      <3> QED BY <1>8, <3>2, <3>3
    <2> QED BY <1>2, <1>8, <2>1 DEF HangUp, SendSucceeds
  <1>9. CASE \/ \E w \in Workers : \/ CopyList(w) \/ EnqueueTask(w)
                                   \/ \E k \in Sockets : Skip(w, k)
             \/ \E p \in Threads : Notify(p)
    BY <1>2, <1>9 DEF CopyList, EnqueueTask, Skip, Notify
  <1>10. CASE Database \/ TakeResponse \/ SendGivesUp \/ UNCHANGED serverVars
    BY <1>2, <1>10 DEF Database, TakeResponse, SendGivesUp, serverVars, pipes
  <1> QED BY <1>3, <1>4, <1>5, <1>6, <1>7, <1>8, <1>9, <1>10, PipeKinds DEF PipeStep

\* A worker that holds a request holds it over the handle of its client.
LEMMA ItemSocketsNext ==
    ASSUME PipeTypes, [ServerNext]_serverVars, OwnRequests, InboxSockets, ItemSockets
    PROVE  ItemSockets'
  <1>1. /\ thread \in [Threads -> ThreadState] /\ Workers \subseteq Threads
        /\ \A p \in Threads : thread[p].pc = "enqueue" => thread[p].conn \in Conns
    BY DEF PipeTypes, ThreadType, Threads, Holding
  <1>2. ASSUME NEW p \in Threads, thread[p].pc = "enqueue", thread'[p] = thread[p]
        PROVE  thread'[p].item.socket = conn'[thread'[p].conn].fd
    <2>1. conn'[thread[p].conn].fd = conn[thread[p].conn].fd
      BY <1>1, <1>2, HandleKept DEF OwnRequests
    <2> QED BY <1>2, <2>1 DEF ItemSockets
  <1>3. ASSUME NEW w \in Workers, NEW c \in Conns, Receive(w, c) PROVE ItemSockets'
    <2>1. /\ thread' = [thread EXCEPT ![w] = [pc |-> "enqueue", conn |-> c,
                                             item |-> Head(inbox[c])]]
          /\ conn' = conn /\ inbox[c] # <<>>
      BY <1>3 DEF Receive
    <2>2. inbox[c] \in Seq(Requests)
      BY DEF PipeTypes, InboxType
    <2>3. Head(inbox[c]) = inbox[c][1] /\ 1 \in 1..Len(inbox[c])
      BY <2>1, <2>2, TailFacts
    <2>4. Head(inbox[c]).socket = conn'[c].fd
      BY <2>1, <2>3 DEF InboxSockets
    <2>5. /\ thread'[w].conn = c /\ thread'[w].item = Head(inbox[c])
          /\ \A q \in Threads \ {w} : thread'[q] = thread[q]
      BY <1>1, <2>1
    <2> QED BY <1>2, <2>4, <2>5 DEF ItemSockets
  <1>4. CASE \A p \in Threads : thread'[p].pc = "enqueue" => thread'[p] = thread[p]
    BY <1>2, <1>4 DEF ItemSockets
  <1>5. CASE \/ \E c \in Conns : Accept(c) \/ SendRequest(c) \/ HangUp(c)
             \/ \E w \in Workers : CopyList(w) \/ \E k \in Sockets : Skip(w, k)
             \/ Database \/ UNCHANGED serverVars
    BY <1>4, <1>5 DEF Accept, SendRequest, HangUp, CopyList, Skip, Database, serverVars, pipes
  <1>6. CASE \/ \E w \in Workers : EnqueueTask(w)
             \/ \E q \in Threads : CloseSocket(q)
             \/ SendSucceeds \/ SendGivesUp
    <2>1. PICK q \in Threads : thread' = [thread EXCEPT ![q] = Idle]
      BY <1>6 DEF EnqueueTask, CloseSocket, SendSucceeds, SendGivesUp, Threads
    <2> QED BY <1>1, <1>4, <2>1 DEF Idle
  <1>7. ASSUME NEW q \in Threads, Notify(q) PROVE ItemSockets'
    BY <1>1, <1>4, <1>7 DEF Notify, ThreadState
  <1>8. CASE TakeResponse
    BY <1>1, <1>4, <1>8 DEF TakeResponse
  <1>9. CASE Removal
    <2>1. PICK q \in Threads, c \in Conns : Unlink(q, c)
      BY <1>9, RemovalShape
    <2> QED BY <1>1, <1>4, <2>1 DEF Unlink
  <1> QED BY <1>3, <1>5, <1>6, <1>7, <1>8, <1>9, PipeKinds DEF PipeStep

-----------------------------------------------------------------------------
(* The report of every client that has something in the tables is to come. *)

\* connection c, with handle k, is on a list, or about to be reported, or its report is
\* on the queue q behind position i
Coming(cn, th, q, k, c, i) ==
    \/ cn[c].listed /\ cn[c].fd = k
    \/ \E p \in Threads : /\ th[p].pc = "notify" /\ th[p].conn = c
                          /\ th[p].item = Bye(k, c)
    \/ \E j \in 1..Len(q) : j > i /\ q[j] = Bye(k, c)

\* between position i of the queue q and another client's report of handle k is c's own
OwnFirst(q, k, c, i) ==
    \A j \in 1..Len(q) : \A d \in Conns :
        j > i /\ q[j] = Bye(k, d) /\ d # c => \E m \in 1..Len(q) : i < m /\ m < j /\ q[m] = Bye(k, c)

\* both, for position i
Covered(cn, th, q, k, c, i) == Coming(cn, th, q, k, c, i) /\ OwnFirst(q, k, c, i)

\* What one append to the queue does to both.
LEMMA CoveredAppend ==
    ASSUME NEW q \in Seq(Entry), NEW e \in Entry, NEW k, NEW c, NEW i \in 0..Len(q),
           NEW cn, NEW th, OwnFirst(q, k, c, i),
           \A d \in Conns : e = Bye(k, d) /\ d # c =>
              \E m \in 1..Len(q) : m > i /\ q[m] = Bye(k, c)
    PROVE  OwnFirst(Append(q, e), k, c, i)
  <1> DEFINE r == Append(q, e)
  <1>1. /\ Len(q) \in Nat /\ Len(r) = Len(q) + 1 /\ r[Len(q) + 1] = e
        /\ \A j \in 1..Len(q) : r[j] = q[j]
    BY AppendFacts
  <1> HIDE DEF r
  <1> SUFFICES ASSUME NEW j \in 1..Len(r), NEW d \in Conns, j > i, r[j] = Bye(k, d), d # c
               PROVE  \E m \in 1..Len(r) : i < m /\ m < j /\ r[m] = Bye(k, c)
    BY DEF OwnFirst, r
  <1>2. CASE j \in 1..Len(q)
    <2>1. \E m \in 1..Len(q) : i < m /\ m < j /\ q[m] = Bye(k, c)
      BY <1>1, <1>2 DEF OwnFirst
    <2> QED BY <1>1, <2>1
  <1>3. CASE j = Len(q) + 1
    <2>1. PICK m \in 1..Len(q) : m > i /\ q[m] = Bye(k, c)
      BY <1>1, <1>3
    <2> QED BY <1>1, <1>3, <2>1
  <1> QED BY <1>1, <1>2, <1>3

\* What taking the first entry does to both, for an entry behind it.
LEMMA CoveredTail ==
    ASSUME NEW q \in Seq(Entry), NEW r \in Seq(Entry), NEW k, NEW c, NEW i \in Nat, NEW cn, NEW th,
           Len(q) \in Nat \ {0}, Len(r) = Len(q) - 1, \A j \in 1..Len(r) : r[j] = q[j + 1],
           Covered(cn, th, q, k, c, i + 1)
    PROVE  Covered(cn, th, r, k, c, i)
  <1>1. ASSUME NEW j \in 1..Len(q), j > i + 1 PROVE j - 1 \in 1..Len(r) /\ r[j - 1] = q[j]
    BY <1>1
  <1>2. Coming(cn, th, r, k, c, i)
    <2>1. CASE \E j \in 1..Len(q) : j > i + 1 /\ q[j] = Bye(k, c)
      <3>1. PICK j \in 1..Len(q) : j > i + 1 /\ q[j] = Bye(k, c)
        BY <2>1
      <3>2. j - 1 \in 1..Len(r) /\ r[j - 1] = Bye(k, c) /\ j - 1 > i
        BY <1>1, <3>1
      <3> QED BY <3>2 DEF Coming
    <2> QED BY <2>1 DEF Covered, Coming
  <1>3. OwnFirst(r, k, c, i)
    <2> SUFFICES ASSUME NEW j \in 1..Len(r), NEW d \in Conns, j > i, r[j] = Bye(k, d), d # c
                 PROVE  \E m \in 1..Len(r) : i < m /\ m < j /\ r[m] = Bye(k, c)
      BY DEF OwnFirst
    <2>1. j + 1 \in 1..Len(q) /\ q[j + 1] = Bye(k, d) /\ j + 1 > i + 1
      OBVIOUS
    <2>2. PICK m \in 1..Len(q) : i + 1 < m /\ m < j + 1 /\ q[m] = Bye(k, c)
      BY <2>1 DEF Covered, OwnFirst
    <2>3. m - 1 \in 1..Len(r) /\ r[m - 1] = Bye(k, c) /\ i < m - 1 /\ m - 1 < j
      BY <1>1, <2>2
    <2> QED BY <2>3
  <1> QED BY <1>2, <1>3 DEF Covered

\* A position that does not hold the client's own report can be passed over.
LEMMA CoveredSkip ==
    ASSUME NEW q \in Seq(Entry), NEW k, NEW c, NEW cn, NEW th,
           Covered(cn, th, q, k, c, 0), q[1] # Bye(k, c)
    PROVE  Covered(cn, th, q, k, c, 1)
  <1>1. Len(q) \in Nat
    OBVIOUS
  <1>2. Coming(cn, th, q, k, c, 1)
    <2>1. CASE \E j \in 1..Len(q) : j > 0 /\ q[j] = Bye(k, c)
      BY <1>1, <2>1 DEF Coming
    <2> QED BY <2>1 DEF Covered, Coming
  <1>3. OwnFirst(q, k, c, 1)
    <2> SUFFICES ASSUME NEW j \in 1..Len(q), NEW d \in Conns, j > 1, q[j] = Bye(k, d), d # c
                 PROVE  \E m \in 1..Len(q) : 1 < m /\ m < j /\ q[m] = Bye(k, c)
      BY DEF OwnFirst
    <2>1. PICK m \in 1..Len(q) : 0 < m /\ m < j /\ q[m] = Bye(k, c)
      BY <1>1 DEF Covered, OwnFirst
    <2> QED BY <1>1, <2>1
  <1> QED BY <1>2, <1>3 DEF Covered

\* A thread that is about to report goes on only by reporting.
LEMMA NotifyWaits ==
    ASSUME PipeTypes, [ServerNext]_serverVars, NEW p \in Threads, thread[p].pc = "notify",
           ~Notify(p)
    PROVE  thread'[p] = thread[p]
  <1>1. thread \in [Threads -> ThreadState]
    BY DEF PipeTypes, ThreadType
  <1>2. CASE \/ \E c \in Conns : Accept(c) \/ SendRequest(c) \/ HangUp(c)
             \/ \E w \in Workers : CopyList(w) \/ \E k \in Sockets : Skip(w, k)
             \/ Database \/ UNCHANGED serverVars
    BY <1>2 DEF Accept, SendRequest, HangUp, CopyList, Skip, Database, serverVars, pipes
  <1>3. ASSUME NEW w \in Workers, EnqueueTask(w) \/ \E c \in Conns : Receive(w, c)
        PROVE  thread'[p] = thread[p]
    BY <1>1, <1>3 DEF EnqueueTask, Receive, Visits
  <1>4. CASE Removal
    BY <1>1, <1>4, RemovalShape DEF Unlink
  <1>5. ASSUME NEW q \in Threads, CloseSocket(q) PROVE thread'[p] = thread[p]
    BY <1>1, <1>5 DEF CloseSocket
  <1>6. ASSUME NEW q \in Threads, Notify(q) PROVE thread'[p] = thread[p]
    BY <1>1, <1>6 DEF Notify
  <1>7. CASE TakeResponse \/ SendSucceeds \/ SendGivesUp
    BY <1>1, <1>7 DEF TakeResponse, SendSucceeds, SendGivesUp
  <1> QED BY <1>2, <1>3, <1>4, <1>5, <1>6, <1>7, PipeKinds DEF PipeStep

\* Other threads only append to RecvPakets.
LEMMA RecvGrows ==
    ASSUME PipeTypes, [ServerNext]_serverVars, ~Database
    PROVE  /\ \A j \in 1..Len(recvQ) : j \in 1..Len(recvQ') /\ recvQ'[j] = recvQ[j]
           /\ Len(recvQ) \in Nat
  <1>1. recvQ \in Seq(Entry) /\ Len(recvQ) \in Nat
    BY DEF PipeTypes, QueueTypes
  <1>2. CASE recvQ' = recvQ
    BY <1>1, <1>2
  <1>3. ASSUME NEW e \in Entry, recvQ' = Append(recvQ, e)
        PROVE  \A j \in 1..Len(recvQ) : j \in 1..Len(recvQ') /\ recvQ'[j] = recvQ[j]
    BY <1>1, <1>3, AppendFacts
  <1> QED BY <1>1, <1>2, <1>3, RecvStep, NotifyShape, EnqueueShape

\* A report that is to come is still to come after a step of another thread.
LEMMA ComingKept ==
    ASSUME PipeTypes, [ServerNext]_serverVars, ~Database, NEW k, NEW c \in Conns,
           NEW i \in 0..Len(recvQ), Coming(conn, thread, recvQ, k, c, i)
    PROVE  Coming(conn', thread', recvQ', k, c, i)
  <1>1. thread \in [Threads -> ThreadState] /\ conn \in [Conns -> Connection]
    BY DEF PipeTypes, ThreadType, ConnType
  <1>2. ASSUME conn[c].listed, conn[c].fd = k
        PROVE  Coming(conn', thread', recvQ', k, c, i)
    <2>1. conn'[c].fd = k
      BY <1>2, HandleKept
    <2>2. ASSUME NEW d \in Conns, Accept(d) PROVE conn'[c].listed
      BY <1>2, <2>2, AcceptShape
    <2>3. ASSUME NEW p \in Threads, CloseSocket(p) PROVE conn'[c].listed
      BY <1>2, <2>3, CloseShape
    <2>4. CASE Removal
      <3>1. PICK p \in Threads, d \in Conns : Unlink(p, d)
        BY <2>4, RemovalShape
      <3>2. CASE d = c
        <4>1. /\ thread'[p].pc = "notify" /\ thread'[p].conn = c
              /\ thread'[p].item = Bye(k, c)
          BY <1>1, <1>2, <3>1, <3>2, UnlinkShape
        <4> QED BY <4>1 DEF Coming
      <3>3. CASE d # c
        BY <1>1, <1>2, <2>1, <3>1, <3>3, UnlinkShape DEF Coming
      <3> QED BY <3>2, <3>3
    <2> QED BY <1>2, <2>1, <2>2, <2>3, <2>4, HandleStep DEF Coming
  <1>3. ASSUME NEW p \in Threads, thread[p].pc = "notify", thread[p].conn = c,
               thread[p].item = Bye(k, c)
        PROVE  Coming(conn', thread', recvQ', k, c, i)
    <2>1. CASE Notify(p)
      <3>1. recvQ \in Seq(Entry) /\ thread[p].item \in Entry
            /\ recvQ' = Append(recvQ, thread[p].item)
        BY <2>1, NotifyShape DEF PipeTypes, QueueTypes
      <3>2. Len(recvQ') = Len(recvQ) + 1 /\ recvQ'[Len(recvQ) + 1] = Bye(k, c)
        BY <1>3, <3>1, AppendFacts
      <3>3. Len(recvQ) + 1 \in 1..Len(recvQ') /\ Len(recvQ) + 1 > i
        BY <3>2, RecvGrows
      <3> QED BY <3>2, <3>3 DEF Coming
    <2>2. CASE ~Notify(p)
      BY <1>3, <2>2, NotifyWaits DEF Coming
    <2> QED BY <2>1, <2>2
  <1>4. ASSUME NEW j \in 1..Len(recvQ), j > i, recvQ[j] = Bye(k, c)
        PROVE  Coming(conn', thread', recvQ', k, c, i)
    BY <1>4, RecvGrows DEF Coming
  <1> QED BY <1>2, <1>3, <1>4 DEF Coming

\* So is a client's own report before the next client's of the same handle: two
\* connections never hold the handle together.
LEMMA CoveredKept ==
    ASSUME PipeTypes, [ServerNext]_serverVars, ~Database, UniqueHandles, HandlesHeld,
           NEW k \in Sockets, NEW c \in Conns, NEW i \in 0..Len(recvQ),
           Covered(conn, thread, recvQ, k, c, i)
    PROVE  Covered(conn', thread', recvQ', k, c, i)
  <1>1. Coming(conn', thread', recvQ', k, c, i)
    BY ComingKept DEF Covered
  <1>2. recvQ \in Seq(Entry) /\ Len(recvQ) \in Nat
    BY DEF PipeTypes, QueueTypes
  <1>3. OwnFirst(recvQ', k, c, i)
    <2>1. CASE recvQ' = recvQ
      BY <2>1 DEF Covered
    <2>2. ASSUME NEW p \in Threads, Notify(p) PROVE OwnFirst(recvQ', k, c, i)
      <3> DEFINE e == thread[p].item
      <3>1. /\ e \in Entry /\ recvQ' = Append(recvQ, e) /\ e.from = thread[p].conn
            /\ thread[p].pc = "notify" /\ thread[p].conn \in Conns
        BY <2>2, NotifyShape
      <3>2. ASSUME NEW d \in Conns, e = Bye(k, d), d # c
            PROVE  \E m \in 1..Len(recvQ) : m > i /\ recvQ[m] = Bye(k, c)
        <4>1. thread[p].conn = d /\ conn[d].fd = k /\ k # NoSocket
          <5>1. thread[p].conn = d
            BY <3>1, <3>2 DEF Bye
          <5>2. Bye(conn[d].fd, d) = Bye(k, d)
            BY <3>1, <3>2, <5>1 DEF HandlesHeld
          <5> QED BY <5>1, <5>2, NullsAssumption DEF Bye
        <4>2. conn[c].fd # k
          BY <3>2, <4>1 DEF UniqueHandles
        <4>3. ASSUME NEW q \in Threads, thread[q].pc = "notify", thread[q].conn = c,
                     thread[q].item = Bye(k, c)
              PROVE  FALSE
          <5>1. Bye(conn[c].fd, c) = Bye(k, c)
            BY <4>3 DEF HandlesHeld
          <5> QED BY <4>2, <5>1 DEF Bye
        <4> QED BY <4>2, <4>3 DEF Covered, Coming
      <3> HIDE DEF e
      <3>3. OwnFirst(Append(recvQ, e), k, c, i)
        BY <1>2, <3>1, <3>2, CoveredAppend DEF Covered
      <3> QED BY <3>1, <3>3
    <2>3. ASSUME NEW w \in Workers, EnqueueTask(w) PROVE OwnFirst(recvQ', k, c, i)
      <3> DEFINE e == [task |-> thread[w].item, from |-> thread[w].conn]
      <3>1. e \in Entry /\ recvQ' = Append(recvQ, e) /\ ~IsBye(e)
        BY <2>3, EnqueueShape
      <3>2. \A d \in Conns : e # Bye(k, d)
        BY <3>1 DEF IsBye, Bye
      <3> HIDE DEF e
      <3>3. OwnFirst(Append(recvQ, e), k, c, i)
        BY <1>2, <3>1, <3>2, CoveredAppend DEF Covered
      <3> QED BY <3>1, <3>3
    <2> QED BY <2>1, <2>2, <2>3, RecvStep
  <1> QED BY <1>1, <1>3 DEF Covered

\* The entries behind the first keep their cover when the database thread takes it, and
\* what the first one left in the tables keeps it too.
LEMMA CoveredTake ==
    ASSUME PipeTypes, Database, NEW k, NEW c
    PROVE  /\ \A i \in Nat : Covered(conn, thread, recvQ, k, c, i + 1)
                             => Covered(conn', thread', recvQ', k, c, i)
           /\ Covered(conn, thread, recvQ, k, c, 0) /\ Head(recvQ) # Bye(k, c)
              => Covered(conn', thread', recvQ', k, c, 0)
  <1>1. /\ recvQ \in Seq(Entry) /\ recvQ' \in Seq(Entry) /\ recvQ[1] = Head(recvQ)
        /\ Len(recvQ) \in Nat \ {0} /\ Len(recvQ') = Len(recvQ) - 1
        /\ \A j \in 1..Len(recvQ') : recvQ'[j] = recvQ[j + 1]
        /\ conn' = conn /\ thread' = thread
    BY DatabaseShape, DatabaseTakes DEF PipeTypes, QueueTypes
  <1>2. ASSUME NEW i \in Nat, Covered(conn, thread, recvQ, k, c, i + 1)
        PROVE  Covered(conn', thread', recvQ', k, c, i)
    <2>1. Covered(conn, thread, recvQ', k, c, i)
      BY <1>1, <1>2, CoveredTail
    <2> QED BY <1>1, <2>1
  <1>3. ASSUME Covered(conn, thread, recvQ, k, c, 0), Head(recvQ) # Bye(k, c)
        PROVE  Covered(conn', thread', recvQ', k, c, 0)
    <2>1. Covered(conn, thread, recvQ, k, c, 0 + 1)
      BY <1>1, <1>3, CoveredSkip
    <2> QED BY <1>2, <2>1
  <1> QED BY <1>2, <1>3

\* Where a session comes from: it was there, or the request opened it over its own handle.
LEMMA SessionOrigin ==
    ASSUME TypeOK, NEW t \in Tasks, ProcessTask(t), NEW u \in UserIds,
           user_sessions'[u].is_online
    PROVE  \/ user_sessions[u].is_online /\ user_sessions'[u] = user_sessions[u]
           \/ /\ ~user_sessions[u].is_online
              /\ t.kind # "ClientDisconnected"
              /\ user_sessions'[u].client_socket = t.socket
  <1>1. user_sessions \in [UserIds -> Session]
    BY DEF TypeOK
  <1>2. CASE t.kind = "ClientDisconnected"
    <2>1. HandleClientDisconnected(t)
      BY <1>2 DEF ProcessTask
    <2> QED BY <1>1, <2>1 DEF HandleClientDisconnected, CleanupUserSessionBySocket, Offline
  <1>3. CASE t.kind # "ClientDisconnected"
    BY <1>1, <1>3, SessionStep
       DEF SetUserOnlineStatus, Offline, NewSession, CleanupUserSessionBySocket
  <1> QED BY <1>2, <1>3

\* Where an active server comes from: it was, or the request made it so over its own handle.
LEMMA ServerOrigin ==
    ASSUME TypeOK, NEW t \in Tasks, ProcessTask(t), NEW s \in ServerIds,
           game_servers'[s].is_active
    PROVE  \/ /\ game_servers[s].is_active
              /\ game_servers'[s].owner_socket = game_servers[s].owner_socket
           \/ /\ t.kind # "ClientDisconnected"
              /\ game_servers'[s].owner_socket = t.socket
  <1>1. game_servers \in [ServerIds -> GameServer]
    BY DEF TypeOK
  <1>2. ASSUME NEW S \in SUBSET ServerIds, game_servers' = Deactivate(S)
        PROVE  /\ game_servers[s].is_active
               /\ game_servers'[s].owner_socket = game_servers[s].owner_socket
    BY <1>1, <1>2 DEF Deactivate, GameServer
  <1>3. CASE t.kind = "CreateGameServer" /\ \E r \in ServerIds : InsertServer(r, t)
    BY <1>1, <1>3 DEF InsertServer
  <1>4. CASE t.kind = "JoinGameServer" /\ t.server \in ServerIds /\ game_servers' = Reactivate(t)
    BY <1>1, <1>4 DEF Reactivate, GameServer
  <1> QED BY <1>2, <1>3, <1>4, ServerStep

\* A disconnection whose statements take effect leaves the handle nothing.
LEMMA CleanupWorks ==
    ASSUME TypeOK, "error" \notin QueryOutcomes, NEW t \in Tasks, ProcessTask(t),
           t.kind = "ClientDisconnected"
    PROVE  /\ \A u \in UserIds : user_sessions'[u].is_online
                                 => user_sessions'[u].client_socket # t.socket
           /\ \A s \in ServerIds : game_servers'[s].is_active
                                   => game_servers'[s].owner_socket # t.socket
           /\ \A u \in UserIds : user_sessions[u].is_online /\ ~user_sessions'[u].is_online
                                 => user_sessions[u].client_socket = t.socket
  <1>1. /\ user_sessions \in [UserIds -> Session] /\ game_servers \in [ServerIds -> GameServer]
    BY DEF TypeOK
  <1>2. \A q \in QueryOutcomes : Applied(q)
    BY OutcomesAssumption DEF Outcomes, Applied
  <1>3. HandleClientDisconnected(t)
    BY DEF ProcessTask
  <1>4. /\ user_sessions' = CleanupUserSessionBySocket(t.socket)
        /\ game_servers' = CleanupGameServerBySocket(t.socket)
    BY <1>2, <1>3 DEF HandleClientDisconnected
  <1>5. \A u \in UserIds : /\ user_sessions'[u].is_online
                              => user_sessions'[u].client_socket # t.socket
                           /\ user_sessions[u].is_online /\ ~user_sessions'[u].is_online
                              => user_sessions[u].client_socket = t.socket
    BY <1>1, <1>4 DEF CleanupUserSessionBySocket, OnlineAt, Offline
  <1>6. \A s \in ServerIds : game_servers'[s].is_active
                             => game_servers'[s].owner_socket # t.socket
    BY <1>1, <1>4 DEF CleanupGameServerBySocket, Deactivate, GameServer
  <1> QED BY <1>5, <1>6

QueueCovered == \A i \in 1..Len(recvQ) : ~IsBye(recvQ[i]) =>
    Covered(conn, thread, recvQ, recvQ[i].task.socket, recvQ[i].from, i)

SessionsCovered == \A u \in UserIds : user_sessions[u].is_online =>
    /\ user_sessions[u].client_socket \in Sockets /\ opener[u] \in Conns
    /\ Covered(conn, thread, recvQ, user_sessions[u].client_socket, opener[u], 0)

ServersCovered == \A s \in ServerIds : game_servers[s].is_active =>
    /\ game_servers[s].owner_socket \in Sockets
    /\ \E c \in Conns : Covered(conn, thread, recvQ, game_servers[s].owner_socket, c, 0)

\* The tasks on the queue stay covered.
LEMMA QueueCoveredNext ==
    ASSUME PipeTypes, [ServerNext]_serverVars, UniqueHandles, HandlesHeld, OwnRequests,
           ItemSockets, QueueCovered
    PROVE  QueueCovered'
  <1>1. /\ recvQ \in Seq(Entry) /\ Len(recvQ) \in Nat
        /\ \A i \in 1..Len(recvQ) : recvQ[i].task.socket \in Sockets /\ recvQ[i].from \in Conns
    <2>1. recvQ \in Seq(Entry)
      BY DEF PipeTypes, QueueTypes
    <2>2. \A i \in 1..Len(recvQ) : recvQ[i] \in Entry
      BY <2>1
    <2>3. \A i \in 1..Len(recvQ) : recvQ[i].task \in Tasks /\ recvQ[i].from \in Conns
      BY <2>2 DEF Entry
    <2> QED BY <2>1, <2>3, TaskShape
  <1>2. ASSUME ~Database, NEW i \in 1..Len(recvQ), ~IsBye(recvQ[i])
        PROVE  Covered(conn', thread', recvQ', recvQ[i].task.socket, recvQ[i].from, i)
    <2>1. Covered(conn, thread, recvQ, recvQ[i].task.socket, recvQ[i].from, i)
      BY <1>2 DEF QueueCovered
    <2>2. i \in 0..Len(recvQ)
      BY <1>1
    <2> QED BY <1>1, <1>2, <2>1, <2>2, CoveredKept
  <1>3. ASSUME ~Database, recvQ' = recvQ PROVE QueueCovered'
    BY <1>2, <1>3 DEF QueueCovered, IsBye
  <1>4. ASSUME ~Database, NEW e \in Entry, recvQ' = Append(recvQ, e),
               ~IsBye(e) => Coming(conn', thread', recvQ', e.task.socket, e.from, Len(recvQ) + 1)
        PROVE  QueueCovered'
    <2>1. /\ Len(recvQ') = Len(recvQ) + 1 /\ recvQ'[Len(recvQ) + 1] = e
          /\ \A i \in 1..Len(recvQ) : recvQ'[i] = recvQ[i]
      BY <1>1, <1>4, AppendFacts
    <2>2. OwnFirst(recvQ', e.task.socket, e.from, Len(recvQ) + 1)
      BY <1>1, <2>1 DEF OwnFirst
    <2>3. ~IsBye(e) => Covered(conn', thread', recvQ', e.task.socket, e.from, Len(recvQ) + 1)
      BY <1>4, <2>2 DEF Covered
    <2> SUFFICES ASSUME NEW i \in 1..Len(recvQ'), ~IsBye(recvQ'[i])
                 PROVE  Covered(conn', thread', recvQ', recvQ'[i].task.socket, recvQ'[i].from, i)
      BY DEF QueueCovered, IsBye
    <2>4. CASE i \in 1..Len(recvQ)
      BY <1>2, <1>4, <2>1, <2>4
    <2>5. CASE i = Len(recvQ) + 1
      BY <2>1, <2>3, <2>5
    <2> QED BY <1>1, <2>1, <2>4, <2>5
  <1>5. ASSUME NEW p \in Threads, Notify(p) PROVE QueueCovered'
    <2>1. ~Database \/ QueueCovered'
      <3>1. thread[p].pc = "notify" /\ thread'[p].pc = "close"
        BY <1>5 DEF Notify, PipeTypes, ThreadType, ThreadState
      <3> QED BY <3>1 DEF Database
    <2>2. thread[p].item \in Entry /\ IsBye(thread[p].item) /\ recvQ' = Append(recvQ, thread[p].item)
      BY <1>5, NotifyShape
    <2> QED BY <1>4, <2>1, <2>2
  <1>6. ASSUME NEW w \in Workers, EnqueueTask(w) PROVE QueueCovered'
    <2> DEFINE e == [task |-> thread[w].item, from |-> thread[w].conn]
    <2>1. /\ e \in Entry /\ recvQ' = Append(recvQ, e) /\ w \in Threads
          /\ thread[w].pc = "enqueue" /\ conn' = conn
          /\ thread' = [thread EXCEPT ![w] = Idle]
      BY <1>6, EnqueueShape
    <2>2. e.from = thread[w].conn /\ e.task.socket = thread[w].item.socket
      OBVIOUS
    <2>3. conn'[e.from].listed /\ conn'[e.from].fd = e.task.socket
      BY <2>1, <2>2 DEF OwnRequests, ItemSockets
    <2>4. ~Database
      <3>1. thread[w].pc = "enqueue" /\ thread'[w].pc = "idle"
        BY <2>1 DEF PipeTypes, ThreadType, Idle
      <3> QED BY <3>1 DEF Database
    <2> HIDE DEF e
    <2>5. Coming(conn', thread', recvQ', e.task.socket, e.from, Len(recvQ) + 1)
      BY <2>3 DEF Coming
    <2> QED BY <1>4, <2>1, <2>4, <2>5
  <1>7. CASE Database
    <2> SUFFICES ASSUME NEW i \in 1..Len(recvQ'), ~IsBye(recvQ'[i])
                 PROVE  Covered(conn', thread', recvQ', recvQ'[i].task.socket, recvQ'[i].from, i)
      BY DEF QueueCovered, IsBye
    <2>1. Len(recvQ') = Len(recvQ) - 1 /\ recvQ'[i] = recvQ[i + 1]
      BY <1>7, DatabaseTakes
    <2>2. i + 1 \in 1..Len(recvQ) /\ i \in Nat
      BY <1>1, <2>1
    <2>3. Covered(conn, thread, recvQ, recvQ[i + 1].task.socket, recvQ[i + 1].from, i + 1)
      BY <2>1, <2>2 DEF QueueCovered
    <2>4. Covered(conn', thread', recvQ', recvQ[i + 1].task.socket, recvQ[i + 1].from, i)
      BY <1>7, <2>2, <2>3, CoveredTake
    <2> QED BY <2>1, <2>4
  <1> QED BY <1>3, <1>5, <1>6, <1>7, RecvStep

\* What the first entry leaves in the tables is covered by what follows.
LEMMA HeadCovers ==
    ASSUME PipeTypes, Database, QueueCovered, Head(recvQ).task.kind # "ClientDisconnected"
    PROVE  /\ Head(recvQ).task.socket \in Sockets /\ Head(recvQ).from \in Conns
           /\ Covered(conn', thread', recvQ', Head(recvQ).task.socket, Head(recvQ).from, 0)
  <1>1. /\ Head(recvQ) = recvQ[1] /\ Len(recvQ) \in Nat \ {0}
        /\ Head(recvQ).task \in Tasks /\ Head(recvQ).from \in Conns
    BY DatabaseShape, DatabaseTakes
  <1>2. 1 \in 1..Len(recvQ) /\ ~IsBye(recvQ[1])
    BY <1>1 DEF IsBye
  <1>3. Covered(conn, thread, recvQ, recvQ[1].task.socket, recvQ[1].from, 0 + 1)
    BY <1>2 DEF QueueCovered
  <1>4. Covered(conn', thread', recvQ', recvQ[1].task.socket, recvQ[1].from, 0)
    BY <1>3, CoveredTake
  <1> QED BY <1>1, <1>4, TaskShape

\* The online sessions stay covered, each by the client that opened it.
LEMMA SessionsCoveredNext ==
    ASSUME PipeTypes, [ServerNext]_serverVars, UniqueHandles, HandlesHeld,
           "error" \notin QueryOutcomes, QueueCovered, SessionsCovered
    PROVE  SessionsCovered'
  <1>1. 0 \in 0..Len(recvQ) /\ TypeOK
    BY DEF PipeTypes, QueueTypes
  <1>2. CASE ~Database
    <2>1. user_sessions' = user_sessions /\ opener' = opener
      BY <1>2, NoDatabaseShape DEF vars, tables
    <2> QED BY <1>1, <1>2, <2>1, CoveredKept DEF SessionsCovered
  <1>3. CASE Database
    <2> SUFFICES ASSUME NEW u \in UserIds, user_sessions'[u].is_online
                 PROVE  /\ user_sessions'[u].client_socket \in Sockets /\ opener'[u] \in Conns
                        /\ Covered(conn', thread', recvQ', user_sessions'[u].client_socket,
                                   opener'[u], 0)
      BY DEF SessionsCovered
    <2> DEFINE t == Head(recvQ).task
    <2>1. t \in Tasks /\ ProcessTask(t)
      BY <1>3, DatabaseShape
    <2>2. opener'[u] = IF ~user_sessions[u].is_online THEN Head(recvQ).from ELSE opener[u]
      BY <1>3 DEF Database
    <2>3. CASE user_sessions[u].is_online /\ user_sessions'[u] = user_sessions[u]
      <3> DEFINE k == user_sessions[u].client_socket
      <3>1. k \in Sockets /\ opener[u] \in Conns /\ Covered(conn, thread, recvQ, k, opener[u], 0)
        BY <2>3 DEF SessionsCovered
      <3>2. Head(recvQ) # Bye(k, opener[u])
        <4>1. t.kind = "ClientDisconnected" => k # t.socket
          BY <1>1, <2>1, <2>3, CleanupWorks
        <4> QED BY <4>1 DEF Bye
      <3>3. Covered(conn', thread', recvQ', k, opener[u], 0)
        BY <1>3, <3>1, <3>2, CoveredTake
      <3> QED BY <2>2, <2>3, <3>1, <3>3
    <2>4. CASE /\ ~user_sessions[u].is_online /\ t.kind # "ClientDisconnected"
               /\ user_sessions'[u].client_socket = t.socket
      BY <1>3, <2>2, <2>4, HeadCovers
    <2> QED BY <1>1, <2>1, <2>3, <2>4, SessionOrigin
  <1> QED BY <1>2, <1>3

\* The active game servers stay covered.
LEMMA ServersCoveredNext ==
    ASSUME PipeTypes, [ServerNext]_serverVars, UniqueHandles, HandlesHeld,
           "error" \notin QueryOutcomes, QueueCovered, ServersCovered
    PROVE  ServersCovered'
  <1>1. 0 \in 0..Len(recvQ) /\ TypeOK
    BY DEF PipeTypes, QueueTypes
  <1>2. CASE ~Database
    <2>1. game_servers' = game_servers
      BY <1>2, NoDatabaseShape DEF vars, tables
    <2> QED BY <1>1, <1>2, <2>1, CoveredKept DEF ServersCovered
  <1>3. CASE Database
    <2> SUFFICES ASSUME NEW s \in ServerIds, game_servers'[s].is_active
                 PROVE  /\ game_servers'[s].owner_socket \in Sockets
                        /\ \E c \in Conns : Covered(conn', thread', recvQ',
                                                    game_servers'[s].owner_socket, c, 0)
      BY DEF ServersCovered
    <2> DEFINE t == Head(recvQ).task
    <2>1. t \in Tasks /\ ProcessTask(t)
      BY <1>3, DatabaseShape
    <2>2. CASE /\ game_servers[s].is_active
               /\ game_servers'[s].owner_socket = game_servers[s].owner_socket
      <3> DEFINE k == game_servers[s].owner_socket
      <3>1. PICK c \in Conns : Covered(conn, thread, recvQ, k, c, 0)
        BY <2>2 DEF ServersCovered
      <3>2. Head(recvQ) # Bye(k, c)
        <4>1. t.kind = "ClientDisconnected" => k # t.socket
          BY <1>1, <2>1, <2>2, CleanupWorks
        <4> QED BY <4>1 DEF Bye
      <3>3. Covered(conn', thread', recvQ', k, c, 0)
        BY <1>3, <3>1, <3>2, CoveredTake
      <3> QED BY <2>2, <3>3 DEF ServersCovered
    <2>3. CASE /\ t.kind # "ClientDisconnected"
               /\ game_servers'[s].owner_socket = t.socket
      BY <1>3, <2>3, HeadCovers
    <2> QED BY <1>1, <2>1, <2>2, <2>3, ServerOrigin
  <1> QED BY <1>2, <1>3

\* PipeInv, and the cover of all that waits or has been done.
CoverInv == /\ PipeInv /\ HandlesHeld /\ InboxSockets
            /\ Undisturbed => ItemSockets /\ QueueCovered /\ SessionsCovered /\ ServersCovered

\* If every statement of a clean-up takes effect, CoverInv always holds.
LEMMA CoverInvHolds ==
    ASSUME "error" \notin QueryOutcomes
    PROVE  ServerSpec => []CoverInv
  <1>1. ServerInit => CoverInv
    <2> SUFFICES ASSUME ServerInit PROVE CoverInv
      OBVIOUS
    <2>1. PipeInv
      <3>1. Reported /\ UniqueHandles
        BY DEF ServerInit, Reported, UniqueHandles, Unconnected
      <3>2. FreshCopies /\ OwnRequests /\ ReportIsLast
        BY DEF ServerInit, FreshCopies, OwnRequests, ReportIsLast, Idle
      <3> QED BY <3>1, <3>2, PipeInit DEF PipeInv, Owned
    <2>2. HandlesHeld /\ ItemSockets
      BY DEF ServerInit, HandlesHeld, ItemSockets, Idle
    <2>3. InboxSockets /\ QueueCovered
      BY DEF ServerInit, InboxSockets, QueueCovered
    <2>4. SessionsCovered /\ ServersCovered
      BY DEF ServerInit, InitTables, AllOffline, Offline, NoServer, SessionsCovered,
             ServersCovered
    <2> QED BY <2>1, <2>2, <2>3, <2>4 DEF CoverInv
  <1>2. CoverInv /\ PipeInv' /\ [ServerNext]_serverVars => CoverInv'
    <2> SUFFICES ASSUME CoverInv, PipeInv', [ServerNext]_serverVars PROVE CoverInv'
      OBVIOUS
    <2>1. PipeTypes /\ UniqueHandles
      BY DEF CoverInv, PipeInv
    <2>2. HandlesHeld' /\ InboxSockets'
      BY <2>1, HeldNext, InboxSocketsNext DEF CoverInv
    <2>3. Undisturbed' => Undisturbed
      BY <2>1, SettingStays DEF Undisturbed
    <2>4. ASSUME Undisturbed PROVE ItemSockets' /\ QueueCovered'
      BY <2>1, <2>4, ItemSocketsNext, QueueCoveredNext DEF CoverInv, PipeInv, Owned
    <2>5. ASSUME Undisturbed PROVE SessionsCovered' /\ ServersCovered'
      BY <2>1, <2>5, SessionsCoveredNext, ServersCoveredNext DEF CoverInv
    <2> QED BY <2>2, <2>3, <2>4, <2>5 DEF CoverInv
  <1> QED BY <1>1, <1>2, PipeInvHolds, PTL DEF ServerSpec

\* While no send breaks, select reports no error and every statement takes effect: for each
\* session and each active game server the clean-up of its socket is still to come.
THEOREM CleanupIsToCome ==
    ASSUME "error" \notin QueryOutcomes
    PROVE  ServerSpec => []CleanupCoversUndisturbed
  <1>1. CoverInv => CleanupCoversUndisturbed
    <2> SUFFICES ASSUME CoverInv, Undisturbed PROVE CleanupCovers
      BY DEF CleanupCoversUndisturbed
    <2>1. ASSUME NEW k \in Sockets, NEW c \in Conns, Covered(conn, thread, recvQ, k, c, 0)
          PROVE  WillBeCleaned(k)
      <3>1. DOMAIN recvQ = 1..Len(recvQ)
        BY DEF CoverInv, PipeInv, PipeTypes, QueueTypes
      <3> QED BY <2>1, <3>1 DEF Covered, Coming, WillBeCleaned, Listed, Holders, Bye
    <2> QED BY <2>1 DEF CoverInv, SessionsCovered, ServersCovered, CleanupCovers
  <1> QED BY <1>1, CoverInvHolds, PTL

\* Under the same conditions a disconnection ends only sessions its own connection opened,
\* never one of the next client that was given the handle.
THEOREM DisconnectsHitTheirOwn ==
    ASSUME "error" \notin QueryOutcomes
    PROVE  ServerSpec => DisconnectHitsOwnSessions
  <1>1. ASSUME CoverInv, [ServerNext]_serverVars
        PROVE  [\A u \in UserIds :
                   /\ Undisturbed
                   /\ recvQ # <<>> /\ recvQ' = Tail(recvQ)
                   /\ Head(recvQ).task.kind = "ClientDisconnected"
                   /\ user_sessions[u].is_online /\ ~user_sessions'[u].is_online
                   => opener[u] = Head(recvQ).from]_serverVars
    <2>1. PipeTypes /\ TypeOK
      BY <1>1 DEF CoverInv, PipeInv, PipeTypes
    <2> SUFFICES ASSUME NEW u \in UserIds, Undisturbed,
                        Head(recvQ).task.kind = "ClientDisconnected",
                        user_sessions[u].is_online, ~user_sessions'[u].is_online
                 PROVE  opener[u] = Head(recvQ).from
      OBVIOUS
    <2>2. Database
      BY <1>1, <2>1, NoDatabaseShape DEF vars, tables
    <2> DEFINE t == Head(recvQ).task
               k == user_sessions[u].client_socket
               d == Head(recvQ).from
    <2>3. /\ t \in Tasks /\ ProcessTask(t) /\ Head(recvQ) \in Entry /\ d \in Conns
          /\ Head(recvQ) = recvQ[1] /\ Len(recvQ) \in Nat \ {0}
      BY <2>1, <2>2, DatabaseShape, DatabaseTakes
    <2>4. k = t.socket
      BY <2>1, <2>3, CleanupWorks
    <2>5. recvQ[1] = Bye(k, d)
      <3>1. t \in ClientDisconnectedTask
        BY <2>3, TaskShape
      <3>2. t = [kind |-> "ClientDisconnected", socket |-> k]
        BY <2>4, <3>1 DEF ClientDisconnectedTask
      <3>3. Head(recvQ) = [task |-> t, from |-> d]
        BY <2>3 DEF Entry
      <3> QED BY <2>3, <3>2, <3>3 DEF Bye
    <2>6. OwnFirst(recvQ, k, opener[u], 0)
      BY <1>1 DEF CoverInv, SessionsCovered, Covered
    <2>7. ASSUME d # opener[u] PROVE FALSE
      <3>1. 1 \in 1..Len(recvQ)
        BY <2>3
      <3>2. \E m \in 1..Len(recvQ) : 0 < m /\ m < 1 /\ recvQ[m] = Bye(k, opener[u])
        BY <2>3, <2>5, <2>6, <2>7, <3>1 DEF OwnFirst
      <3> QED BY <3>2
    <2> QED BY <2>7
  <1> QED BY <1>1, CoverInvHolds, PTL DEF ServerSpec, DisconnectHitsOwnSessions
=============================================================================
