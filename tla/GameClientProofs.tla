-------------------------- MODULE GameClientProofs --------------------------
(***************************************************************************)
(* Proofs about GameClient, for any number of clients and connections.     *)
(* A step of the model is first put into one of nine forms (Form), which   *)
(* say what it does to the network; the invariants are then shown for each *)
(* form.  Types and Owned say what lies where, InFlight that a connection  *)
(* carries at most one thing of its client; the properties follow.         *)
(***************************************************************************)
EXTENDS GameClient, DatabaseThreadProofs

-----------------------------------------------------------------------------
(* Sequences.                                                              *)

\* What Append does, index by index.
LEMMA AppendFacts ==
    ASSUME NEW S, NEW s \in Seq(S), NEW e \in S
    PROVE  /\ Append(s, e) \in Seq(S)
           /\ Append(s, e) # <<>>
           /\ Len(s) \in Nat
           /\ Len(Append(s, e)) = Len(s) + 1
           /\ Append(s, e)[Len(s) + 1] = e
           /\ \A i \in 1..Len(s) : Append(s, e)[i] = s[i]
  OBVIOUS

\* What Tail does, index by index.
LEMMA TailFacts ==
    ASSUME NEW S, NEW s \in Seq(S), s # <<>>
    PROVE  /\ Tail(s) \in Seq(S)
           /\ Head(s) \in S
           /\ Head(s) = s[1]
           /\ Len(s) \in Nat \ {0}
           /\ Len(Tail(s)) = Len(s) - 1
           /\ \A i \in 1..Len(Tail(s)) : Tail(s)[i] = s[i + 1]
  OBVIOUS

\* all elements of s are in P
Every(s, P) == \A i \in 1..Len(s) : s[i] \in P

\* What holds of every element holds of every one of a longer or shorter sequence.
LEMMA EveryFacts ==
    ASSUME NEW T, NEW s \in Seq(T), NEW P
    PROVE  /\ \A e \in T : Every(s, P) /\ e \in P => Every(Append(s, e), P)
           /\ s # <<>> /\ Every(s, P) => Every(Tail(s), P) /\ Head(s) \in P
           /\ Every(<<>>, P)
  <1>1. ASSUME NEW e \in T, Every(s, P), e \in P PROVE Every(Append(s, e), P)
    <2>1. /\ Len(s) \in Nat /\ Len(Append(s, e)) = Len(s) + 1 /\ Append(s, e)[Len(s) + 1] = e
          /\ \A i \in 1..Len(s) : Append(s, e)[i] = s[i]
      BY AppendFacts
    <2>2. \A i \in 1..Len(Append(s, e)) : i \in 1..Len(s) \/ i = Len(s) + 1
      BY <2>1
    <2> QED BY <1>1, <2>1, <2>2 DEF Every
  <1>2. ASSUME s # <<>>, Every(s, P) PROVE Every(Tail(s), P) /\ Head(s) \in P
    <2>1. /\ Head(s) = s[1] /\ Len(s) \in Nat \ {0} /\ Len(Tail(s)) = Len(s) - 1
          /\ \A i \in 1..Len(Tail(s)) : Tail(s)[i] = s[i + 1]
      BY <1>2, TailFacts
    <2>2. /\ \A i \in 1..Len(Tail(s)) : i + 1 \in 1..Len(s)
          /\ 1 \in 1..Len(s)
      BY <2>1
    <2> QED BY <1>2, <2>1, <2>2 DEF Every
  <1>3. Every(<<>>, P)
    BY DEF Every
  <1> QED BY <1>1, <1>2, <1>3

\* s has no element of S
None(s, S) == \A i \in 1..Len(s) : s[i] \notin S

\* s has one element of S, which is in X
Once(s, S, X) == \E i \in 1..Len(s) : /\ s[i] \in S \cap X
                                      /\ \A j \in 1..Len(s) : s[j] \in S => j = i

\* An element is added at the end.
LEMMA CountAppend ==
    ASSUME NEW T, NEW s \in Seq(T), NEW e \in T, NEW S, NEW X
    PROVE  /\ None(s, S) /\ e \notin S => None(Append(s, e), S)
           /\ None(s, S) /\ e \in S \cap X => Once(Append(s, e), S, X)
           /\ Once(s, S, X) /\ e \notin S => Once(Append(s, e), S, X)
  <1> DEFINE a == Append(s, e)
  <1>1. /\ Len(s) \in Nat /\ Len(a) = Len(s) + 1 /\ a[Len(s) + 1] = e
        /\ \A i \in 1..Len(s) : a[i] = s[i]
    BY AppendFacts
  <1> HIDE DEF a
  <1>2. \A i \in 1..Len(a) : i \in 1..Len(s) \/ i = Len(s) + 1
    BY <1>1
  <1>3. \A i \in 1..Len(s) : i \in 1..Len(a) /\ i # Len(s) + 1
    BY <1>1
  <1>4. Len(s) + 1 \in 1..Len(a)
    BY <1>1
  <1>5. None(s, S) /\ e \notin S => None(a, S)
    BY <1>1, <1>2 DEF None
  <1>6. ASSUME None(s, S), e \in S \cap X PROVE Once(a, S, X)
    BY <1>1, <1>2, <1>4, <1>6 DEF None, Once
  <1>7. ASSUME Once(s, S, X), e \notin S PROVE Once(a, S, X)
    <2>1. PICK i \in 1..Len(s) : s[i] \in S \cap X /\ \A j \in 1..Len(s) : s[j] \in S => j = i
      BY <1>7 DEF Once
    <2>2. i \in 1..Len(a) /\ a[i] \in S \cap X
      BY <1>1, <1>3, <2>1
    <2>3. ASSUME NEW j \in 1..Len(a), a[j] \in S PROVE j = i
      BY <1>1, <1>2, <1>7, <2>1, <2>3
    <2> QED BY <2>2, <2>3 DEF Once
  <1> QED BY <1>5, <1>6, <1>7 DEF a

\* The first element is taken.
LEMMA CountTail ==
    ASSUME NEW T, NEW s \in Seq(T), s # <<>>, NEW S, NEW X
    PROVE  /\ None(s, S) => None(Tail(s), S) /\ Head(s) \notin S
           /\ Once(s, S, X) /\ Head(s) \in S => None(Tail(s), S) /\ Head(s) \in X
           /\ Once(s, S, X) /\ Head(s) \notin S => Once(Tail(s), S, X)
  <1> DEFINE r == Tail(s)
  <1>1. /\ Head(s) = s[1] /\ Len(s) \in Nat \ {0} /\ Len(r) = Len(s) - 1
        /\ \A i \in 1..Len(r) : r[i] = s[i + 1]
    BY TailFacts
  <1> HIDE DEF r
  <1>2. \A i \in 1..Len(r) : i + 1 \in 1..Len(s) /\ i + 1 # 1
    BY <1>1
  <1>3. \A i \in 1..Len(s) : i # 1 => i - 1 \in 1..Len(r) /\ (i - 1) + 1 = i
    BY <1>1
  <1>4. 1 \in 1..Len(s)
    BY <1>1
  <1>5. None(s, S) => None(r, S) /\ Head(s) \notin S
    BY <1>1, <1>2, <1>4 DEF None
  <1>6. ASSUME Once(s, S, X), Head(s) \in S PROVE None(r, S) /\ Head(s) \in X
    <2>1. PICK i \in 1..Len(s) : s[i] \in S \cap X /\ \A j \in 1..Len(s) : s[j] \in S => j = i
      BY <1>6 DEF Once
    <2>2. i = 1
      BY <1>1, <1>4, <1>6, <2>1
    <2>3. \A j \in 1..Len(s) : j # 1 => s[j] \notin S
      BY <2>1, <2>2
    <2> QED BY <1>1, <1>2, <2>1, <2>2, <2>3 DEF None
  <1>7. ASSUME Once(s, S, X), Head(s) \notin S PROVE Once(r, S, X)
    <2>1. PICK i \in 1..Len(s) : s[i] \in S \cap X /\ \A j \in 1..Len(s) : s[j] \in S => j = i
      BY <1>7 DEF Once
    <2>2. i # 1
      BY <1>1, <1>7, <2>1
    <2>3. i - 1 \in 1..Len(r) /\ r[i - 1] = s[i]
      BY <1>1, <1>3, <2>2
    <2>4. ASSUME NEW j \in 1..Len(r), r[j] \in S PROVE j = i - 1
      <3>1. j + 1 \in 1..Len(s) /\ s[j + 1] \in S
        BY <1>1, <1>2, <2>4
      <3>2. j + 1 = i
        BY <2>1, <3>1
      <3> QED BY <3>2
    <2> QED BY <2>1, <2>3, <2>4 DEF Once
  <1> QED BY <1>5, <1>6, <1>7 DEF r

\* Elements outside S are replaced by others outside S.
LEMMA CountSame ==
    ASSUME NEW s, NEW r, NEW S, NEW X, Len(r) = Len(s),
           \A i \in 1..Len(s) : r[i] = s[i] \/ (s[i] \notin S /\ r[i] \notin S)
    PROVE  /\ None(s, S) => None(r, S)
           /\ Once(s, S, X) => Once(r, S, X)
  <1>1. None(s, S) => None(r, S)
    BY DEF None
  <1>2. ASSUME Once(s, S, X) PROVE Once(r, S, X)
    <2>1. PICK i \in 1..Len(s) : s[i] \in S \cap X /\ \A j \in 1..Len(s) : s[j] \in S => j = i
      BY <1>2 DEF Once
    <2>2. r[i] = s[i]
      BY <2>1
    <2>3. \A j \in 1..Len(r) : r[j] \in S => j = i
      BY <2>1
    <2> QED BY <2>1, <2>2, <2>3 DEF Once
  <1> QED BY <1>1, <1>2
-----------------------------------------------------------------------------
(* The invariant.                                                          *)

ClientRecord == [pc : {"ended", "menu", "send", "resend", "reconnect", "await"},
                 sock : Sockets \cup {NoSocket}, connected : BOOLEAN,
                 user : UserIds \cup {NoId}, command : Tasks \cup {NoCommand},
                 misled : BOOLEAN]
Someone == Clients \cup {NoClient}
Entry == [task : Tasks, from : Someone]
Answered == [reply : Reply, from : Someone]

Types ==
    /\ TypeOK /\ phase = "running"
    /\ client \in [Clients -> ClientRecord]
    /\ holder \in [Sockets -> Someone]
    /\ ended \subseteq Sockets /\ mishaps \in 0..MaxMishaps
    /\ uplink \in [Sockets -> Seq(Requests)]
    /\ downlink \in [Sockets -> Seq(Answered)]
    /\ RecvPakets \in Seq(Entry)

\* a client that is to send a request, or has sent one, has one
Wanting(r) == r.pc \in {"send", "resend", "await"} => r.command \in Requests

ClientOwn == \A c \in Clients : /\ client[c].sock # NoSocket => holder[client[c].sock] = c
                                /\ Wanting(client[c])

FreeEmpty == \A k \in Sockets : Free(k) => uplink[k] = <<>> /\ downlink[k] = <<>>

PacketsOf(k) == {m \in Requests : m.socket = k}

\* a response to a login that succeeded has the id of an account
Logs(a) == a.reply.task.kind = "Login" /\ a.reply.result = "SUCCESS" => a.reply.id \in UserIds

\* responses to c, or to a client that had the handle before it
AnswersTo(c) == {a \in Answered : Logs(a) /\ a.from \in {NoClient, c}}

\* a task whose sender is known is a request over a handle that is the sender's in h
SentBy(h) == {e \in Entry : e.from # NoClient => /\ e.task.kind # "ClientDisconnected"
                                                 /\ h[e.task.socket] = e.from}

UplinkOwn == \A k \in Sockets : Every(uplink[k], PacketsOf(k))
DownlinkOwn == \A k \in Sockets : Every(downlink[k], AnswersTo(holder[k]))
QueueOwn == Every(RecvPakets, SentBy(holder))

Owned == ClientOwn /\ FreeEmpty /\ UplinkOwn /\ DownlinkOwn /\ QueueOwn

\* ClientTypeOK is part of Types and Owned.
LEMMA TypesSuffice == Types /\ ClientOwn /\ FreeEmpty => ClientTypeOK
  BY DEF Types, ClientOwn, FreeEmpty, ClientTypeOK, ClientRecord, Someone

-----------------------------------------------------------------------------
(* What a step may do to the network.                                      *)

NewRecord(c, r) == r \in ClientRecord /\ Wanting(r) /\ client' = [client EXCEPT ![c] = r]

\* a client gives up its connection, or has none; nothing moves
Quiet(c) ==
    /\ \E r : /\ NewRecord(c, r)
              /\ ~r.connected
              /\ r.sock \in {client[c].sock, NoSocket}
    /\ UNCHANGED <<holder, uplink, downlink, RecvPakets>>

Connects(c, k) ==
    /\ Free(k)
    /\ \E r : NewRecord(c, r) /\ r.sock = k /\ r.pc # "await"
    /\ holder' = [holder EXCEPT ![k] = c]
    /\ UNCHANGED <<uplink, downlink, RecvPakets>>

Sends(c, k, m) ==
    /\ client[c].connected /\ client[c].sock = k /\ client[c].pc # "await"
    /\ m \in Requests /\ m.socket = k
    /\ \E r : /\ NewRecord(c, r)
              /\ r.sock = k /\ r.pc = "await" /\ r.command = m /\ r.misled = client[c].misled
    /\ uplink' = [uplink EXCEPT ![k] = Append(@, m)]
    /\ UNCHANGED <<holder, downlink, RecvPakets>>

Reads(c, k) ==
    /\ client[c].sock = k /\ client[c].pc = "await" /\ downlink[k] # <<>>
    /\ \E r : /\ NewRecord(c, r)
              /\ r.sock = k /\ r.pc # "await" /\ r.connected = client[c].connected
              /\ r.misled = (client[c].misled \/ Head(downlink[k]).from # c)
    /\ downlink' = [downlink EXCEPT ![k] = Tail(@)]
    /\ UNCHANGED <<holder, uplink, RecvPakets>>

Receives(k) ==
    /\ uplink[k] # <<>>
    /\ uplink' = [uplink EXCEPT ![k] = Tail(@)]
    /\ RecvPakets' = Append(RecvPakets, [task |-> Head(uplink[k]), from |-> holder[k]])
    /\ UNCHANGED <<client, holder, downlink>>

\* the queue the database thread leaves: as it is, or without its first task
Rest(k, queue) == \/ queue = RecvPakets
                  \/ /\ RecvPakets # <<>> /\ queue = Tail(RecvPakets)
                     /\ Head(RecvPakets).task.socket = k

Drops == RecvPakets # <<>> /\ RecvPakets' = Tail(RecvPakets)
         /\ UNCHANGED <<client, holder, uplink, downlink>>

Answers(k) ==
    /\ RecvPakets # <<>> /\ Head(RecvPakets).task.socket = k /\ ~Free(k)
    /\ RecvPakets' = Tail(RecvPakets)
    /\ reply' \in Reply /\ reply'.task = Head(RecvPakets).task
    /\ Logs([reply |-> reply', from |-> NoClient])
    /\ downlink' = [downlink EXCEPT ![k] =
           Append(@, [reply |-> reply', from |-> Head(RecvPakets).from])]
    /\ UNCHANGED <<client, holder, uplink>>

Still == UNCHANGED <<client, holder, uplink, downlink, RecvPakets>>

Form ==
    \/ \E c \in Clients : Quiet(c)
    \/ \E c \in Clients, k \in Sockets : Connects(c, k) \/ Reads(c, k)
    \/ \E c \in Clients, k \in Sockets, m \in Requests : Sends(c, k, m)
    \/ \E k \in Sockets : Receives(k) \/ Answers(k)
    \/ \E k \in Sockets : \E queue : Rest(k, queue) /\ Remove(k, queue)
    \/ Drops
    \/ Still

\* A client's state is changed in some fields.
LEMMA Records ==
    ASSUME NEW c \in Clients, client \in [Clients -> ClientRecord]
    PROVE  /\ client[c] \in ClientRecord
           /\ \A k, then : [client EXCEPT ![c].sock = k, ![c].connected = TRUE, ![c].pc = then,
                                          ![c].misled = FALSE]
                 = [client EXCEPT ![c] = [client[c] EXCEPT !.sock = k, !.connected = TRUE,
                                                           !.pc = then, !.misled = FALSE]]
           /\ \A then : [client EXCEPT ![c].sock = NoSocket, ![c].connected = FALSE,
                                       ![c].pc = then]
                 = [client EXCEPT ![c] = [client[c] EXCEPT !.sock = NoSocket,
                                                           !.connected = FALSE, !.pc = then]]
  <1>1. client[c] \in ClientRecord /\ DOMAIN client = Clients
    OBVIOUS
  <1>2. DOMAIN client[c] = {"pc", "sock", "connected", "user", "command", "misled"}
    BY <1>1 DEF ClientRecord
  <1>3. ASSUME NEW k, NEW then
        PROVE  [client EXCEPT ![c].sock = k, ![c].connected = TRUE, ![c].pc = then,
                              ![c].misled = FALSE]
                 = [client EXCEPT ![c] = [client[c] EXCEPT !.sock = k, !.connected = TRUE,
                                                           !.pc = then, !.misled = FALSE]]
    BY <1>1, <1>2
  <1>4. ASSUME NEW then
        PROVE  [client EXCEPT ![c].sock = NoSocket, ![c].connected = FALSE, ![c].pc = then]
                 = [client EXCEPT ![c] = [client[c] EXCEPT !.sock = NoSocket,
                                                           !.connected = FALSE, !.pc = then]]
    BY <1>1, <1>2
  <1> QED BY <1>1, <1>3, <1>4

\* A connection is opened.
LEMMA ConnectForm ==
    ASSUME Types, NEW c \in Clients, NEW then \in {"menu", "send"}, Connect(c, then),
           then = "send" => client[c].command \in Requests
    PROVE  Form
  <1>1. client[c] \in ClientRecord /\ client \in [Clients -> ClientRecord]
    BY DEF Types
  <1>2. PICK k \in Sockets : /\ Free(k)
                             /\ holder' = [holder EXCEPT ![k] = c]
                             /\ client' = [client EXCEPT ![c].sock = k, ![c].connected = TRUE,
                                                         ![c].pc = then, ![c].misled = FALSE]
                             /\ UNCHANGED <<ended, uplink, downlink, RecvPakets, mishaps>>
    BY DEF Connect
  <1> DEFINE r == [client[c] EXCEPT !.sock = k, !.connected = TRUE, !.pc = then,
                                    !.misled = FALSE]
  <1>3. client' = [client EXCEPT ![c] = r]
    BY <1>1, <1>2, Records, Zenon
  <1>4. r \in ClientRecord /\ r.sock = k /\ r.pc = then /\ r.command = client[c].command
    BY <1>1 DEF ClientRecord
  <1>5. Wanting(r)
    BY <1>4 DEF Wanting
  <1> HIDE DEF r
  <1>6. Connects(c, k)
    BY <1>2, <1>3, <1>4, <1>5, Zenon DEF Connects, NewRecord
  <1> QED BY <1>6 DEF Form

\* A connection is given up, or not got.
LEMMA NoConnectionForm ==
    ASSUME Types, NEW c \in Clients, NEW then \in {"ended", "menu", "reconnect"},
           NoConnection(c, then), UNCHANGED <<holder, uplink, downlink, RecvPakets>>
    PROVE  Form
  <1>1. client[c] \in ClientRecord /\ client \in [Clients -> ClientRecord]
    BY DEF Types
  <1> DEFINE r == [client[c] EXCEPT !.sock = NoSocket, !.connected = FALSE, !.pc = then]
  <1>3. client' = [client EXCEPT ![c] = r]
    BY <1>1, Records, Zenon DEF NoConnection
  <1>4. r \in ClientRecord /\ r.sock = NoSocket /\ r.pc = then /\ ~r.connected
    BY <1>1 DEF ClientRecord
  <1>5. Wanting(r)
    BY <1>4 DEF Wanting
  <1> HIDE DEF r
  <1>6. Quiet(c)
    BY <1>3, <1>4, <1>5 DEF Quiet, NewRecord
  <1> QED BY <1>6 DEF Form

\* Starting, exiting and reconnecting.
LEMMA ProcessForm ==
    ASSUME Types, ClientOwn, NEW c \in Clients,
           Start(c) \/ Exit(c) \/ Reconnect(c) \/ TryReconnect(c)
    PROVE  Form
  <1>1. CASE Start(c)
    BY <1>1, ConnectForm, NoConnectionForm DEF Start, ConnectFails, network
  <1>2. CASE Reconnect(c)
    BY <1>2, NoConnectionForm DEF Reconnect
  <1>3. CASE TryReconnect(c)
    <2>1. client[c].pc = "resend" => client[c].command \in Requests
      BY DEF ClientOwn, Wanting
    <2> QED BY <1>3, <2>1, ConnectForm, NoConnectionForm DEF TryReconnect, ConnectFails, network
  <1>4. CASE Exit(c)
    <2>1. NewProcess \in ClientRecord /\ ~NewProcess.connected /\ NewProcess.sock = NoSocket
      BY DEF NewProcess, ClientRecord
    <2>2. Wanting(NewProcess)
      BY DEF NewProcess, Wanting
    <2>3. Quiet(c)
      BY <1>4, <2>1, <2>2 DEF Exit, Quiet, NewRecord
    <2> QED BY <2>3 DEF Form
  <1> QED BY <1>1, <1>2, <1>3, <1>4

\* A request is sent, or cannot be.
LEMMA SendForm ==
    ASSUME Types, NEW c \in Clients, NEW t \in Requests, client[c].pc # "await",
           \/ SendPacket(c, t)
           \/ SendFails(c, t, "resend")
           \/ SendFails(c, NoCommand, "menu")
    PROVE  Form
  <1>1. client[c] \in ClientRecord /\ client \in [Clients -> ClientRecord]
    BY DEF Types
  <1>2. t \in Tasks
    BY DEF Requests
  <1>3. CASE SendPacket(c, t)
    <2> DEFINE k == client[c].sock
               m == [t EXCEPT !.socket = k]
               r == [client[c] EXCEPT !.pc = "await", !.command = m]
    <2>1. k \in Sockets /\ client[c].connected
      BY <1>1, <1>3 DEF SendPacket, ClientRecord
    <2>2. m \in Requests /\ m.socket = k
      BY <2>1, OverAnyHandle
    <2>3. /\ uplink' = [uplink EXCEPT ![k] = Append(@, m)]
          /\ client' = [client EXCEPT ![c].pc = "await", ![c].command = m]
          /\ UNCHANGED <<holder, downlink, RecvPakets>>
      BY <1>3 DEF SendPacket
    <2>4. client[c].sock = k
      OBVIOUS
    <2> HIDE DEF m, k
    <2>5. client' = [client EXCEPT ![c] = r]
      BY <1>1, <2>3 DEF ClientRecord
    <2>6. m \in Tasks
      BY <2>2 DEF Requests
    <2>7. /\ r \in ClientRecord /\ r.sock = k /\ r.pc = "await" /\ r.command = m
          /\ r.misled = client[c].misled
      BY <1>1, <2>4, <2>6 DEF ClientRecord
    <2>8. Wanting(r)
      BY <2>2, <2>7 DEF Wanting
    <2> HIDE DEF r
    <2>9. Sends(c, k, m)
      BY <2>1, <2>2, <2>3, <2>4, <2>5, <2>7, <2>8 DEF Sends, NewRecord
    <2> QED BY <2>1, <2>2, <2>9 DEF Form
  <1>4. ASSUME NEW x \in Tasks \cup {NoCommand}, NEW then \in {"resend", "menu"},
               SendFails(c, x, then), then = "resend" => x \in Requests
        PROVE  Form
    <2> DEFINE r == [client[c] EXCEPT !.pc = then, !.connected = FALSE, !.command = x]
    <2>1. /\ client' = [client EXCEPT ![c].pc = then, ![c].connected = FALSE, ![c].command = x]
          /\ UNCHANGED <<holder, uplink, downlink, RecvPakets>>
      BY <1>4 DEF SendFails, network
    <2>2. client' = [client EXCEPT ![c] = r]
      BY <1>1, <2>1 DEF ClientRecord
    <2>3. /\ r \in ClientRecord /\ r.sock = client[c].sock /\ ~r.connected
          /\ r.pc = then /\ r.command = x
      BY <1>1 DEF ClientRecord
    <2>4. Wanting(r)
      BY <1>4, <2>3 DEF Wanting
    <2> HIDE DEF r
    <2>5. Quiet(c)
      BY <2>1, <2>2, <2>3, <2>4 DEF Quiet, NewRecord
    <2> QED BY <2>5 DEF Form
  <1> QED BY <1>2, <1>3, <1>4

\* A response is read, or has not come in time.
LEMMA AnswerForm ==
    ASSUME Types, DownlinkOwn, NEW c \in Clients, Response(c) \/ NoResponse(c)
    PROVE  Form
  <1>1. client[c] \in ClientRecord /\ client \in [Clients -> ClientRecord]
    BY DEF Types
  <1>2. CASE NoResponse(c)
    <2> DEFINE r == [client[c] EXCEPT !.pc = AfterReceive(c), !.connected = FALSE,
                                      !.command = NoCommand]
    <2>0. AfterReceive(c) \in {"reconnect", "menu"}
      BY DEF AfterReceive
    <2>1. /\ client' = [client EXCEPT ![c].pc = AfterReceive(c), ![c].connected = FALSE,
                                      ![c].command = NoCommand]
          /\ UNCHANGED <<holder, uplink, downlink, RecvPakets>>
      BY <1>2 DEF NoResponse, network
    <2>2. client' = [client EXCEPT ![c] = r]
      BY <1>1, <2>1 DEF ClientRecord
    <2>3. /\ r \in ClientRecord /\ r.sock = client[c].sock /\ ~r.connected
          /\ r.pc \in {"reconnect", "menu"}
      BY <1>1, <2>0 DEF ClientRecord
    <2>4. Wanting(r)
      BY <2>3 DEF Wanting
    <2> HIDE DEF r
    <2>5. Quiet(c)
      BY <2>1, <2>2, <2>3, <2>4 DEF Quiet, NewRecord
    <2> QED BY <2>5 DEF Form
  <1>3. CASE Response(c)
    <2> DEFINE k == client[c].sock
               a == Head(downlink[k])
               user == UserAfter(c, a)
               misled == client[c].misled \/ a.from # c
               r == [client[c] EXCEPT !.pc = "menu", !.command = NoCommand,
                                      !.misled = misled, !.user = user]
    <2>1. k \in Sockets /\ client[c].pc = "await" /\ downlink[k] # <<>>
      BY <1>1, <1>3 DEF Response, ClientRecord
    <2>2. downlink[k] \in Seq(Answered)
      BY <2>1 DEF Types
    <2>3. a = downlink[k][1] /\ 1 \in 1..Len(downlink[k])
      BY <2>1, <2>2, TailFacts
    <2>4. Logs(a)
      BY <2>1, <2>3 DEF DownlinkOwn, Every, AnswersTo
    <2>5. user \in UserIds \cup {NoId}
      <3>1. client[c].user \in UserIds \cup {NoId}
        BY <1>1 DEF ClientRecord
      <3> HIDE DEF a
      <3>2. a.reply.task.kind = "Login" /\ a.reply.result = "SUCCESS" => a.reply.id \in UserIds
        BY <2>4, Zenon DEF Logs
      <3> QED BY <3>1, <3>2 DEF UserAfter
    <2>6. /\ downlink' = [downlink EXCEPT ![k] = Tail(@)]
          /\ client' = [client EXCEPT ![c] = r]
          /\ UNCHANGED <<holder, uplink, RecvPakets>>
      BY <1>3 DEF Response
    <2>7. client[c].sock = k
      OBVIOUS
    <2>8. misled \in BOOLEAN
      OBVIOUS
    <2>9. misled = (client[c].misled \/ Head(downlink[k]).from # c)
      OBVIOUS
    <2> HIDE DEF a, user, misled, k
    <2>10. /\ r \in ClientRecord /\ r.sock = k /\ r.pc = "menu" /\ r.misled = misled
           /\ r.connected = client[c].connected
      BY <1>1, <2>5, <2>7, <2>8 DEF ClientRecord
    <2>11. Wanting(r)
      BY <2>10 DEF Wanting
    <2> HIDE DEF r
    <2>12. Reads(c, k)
      BY <2>1, <2>6, <2>7, <2>9, <2>10, <2>11 DEF Reads, NewRecord
    <2> QED BY <2>1, <2>12 DEF Form
  <1> QED BY <1>2, <1>3

\* The first task and its sender.
LEMMA First ==
    ASSUME Types, RecvPakets # <<>>
    PROVE  /\ Head(RecvPakets) = RecvPakets[1] /\ 1 \in 1..Len(RecvPakets)
           /\ Head(RecvPakets) \in Entry
           /\ Head(RecvPakets).task \in Tasks /\ Head(RecvPakets).task.socket \in Sockets
           /\ Head(RecvPakets).from \in Someone
  <1>1. RecvPakets \in Seq(Entry)
    BY DEF Types
  <1>2. /\ Head(RecvPakets) = RecvPakets[1] /\ 1 \in 1..Len(RecvPakets)
        /\ Head(RecvPakets) \in Entry
    BY <1>1, TailFacts
  <1>3. Head(RecvPakets).task \in Tasks /\ Head(RecvPakets).from \in Someone
    BY <1>2 DEF Entry
  <1> QED BY <1>2, <1>3, TaskShape

\* The database thread handles its first task.
LEMMA HandleForm == Types /\ Handle => Form
  <1> SUFFICES ASSUME Types, Handle PROVE Form
    OBVIOUS
  <1> DEFINE e == Head(RecvPakets)
             t == e.task
             k == t.socket
  <1>1. RecvPakets # <<>> /\ ProcessTask(t) /\ Answer(k, e.from, Tail(RecvPakets))
    BY DEF Handle
  <1>2. e \in Entry /\ t \in Tasks /\ k \in Sockets /\ e.from \in Someone
    BY <1>1, First
  <1>3. reply' # NoReply => reply' \in Reply /\ reply'.task = t
    BY <1>1, <1>2, ReplyStep
  <1>4. reply' # NoReply => Logs([reply |-> reply', from |-> NoClient])
    BY <1>1, <1>2, <1>3, LoginAnswer DEF Logs
  <1>5. Head(RecvPakets).task.socket = k /\ Head(RecvPakets).task = t
        /\ Head(RecvPakets).from = e.from
    OBVIOUS
  <1> HIDE DEF e, t, k
  <1>6. CASE /\ Sendable(k)
             /\ downlink' = [downlink EXCEPT ![k] = Append(@, [reply |-> reply', from |-> e.from])]
             /\ RecvPakets' = Tail(RecvPakets)
             /\ UNCHANGED <<client, holder, ended, uplink, mishaps>>
    <2>1. Answers(k)
      BY <1>1, <1>2, <1>3, <1>4, <1>5, <1>6 DEF Sendable, Answers
    <2> QED BY <1>2, <2>1 DEF Form
  <1>7. CASE /\ RecvPakets' = Tail(RecvPakets)
             /\ UNCHANGED <<client, holder, ended, uplink, downlink>>
    <2>1. Drops
      BY <1>1, <1>7 DEF Drops
    <2> QED BY <2>1 DEF Form
  <1>8. CASE Remove(k, Tail(RecvPakets))
    <2>1. Rest(k, Tail(RecvPakets))
      BY <1>1, <1>5 DEF Rest
    <2> QED BY <1>2, <1>8, <2>1 DEF Form
  <1> QED BY <1>1, <1>6, <1>7, <1>8 DEF Answer

\* Every step has one of the forms.
LEMMA Forms == Types /\ ClientOwn /\ DownlinkOwn /\ [ClientNext]_allVars => Form
  <1> SUFFICES ASSUME Types, ClientOwn, DownlinkOwn, [ClientNext]_allVars PROVE Form
    OBVIOUS
  <1>1. ASSUME NEW c \in Clients, Start(c) \/ Exit(c) \/ Reconnect(c) \/ TryReconnect(c)
        PROVE  Form
    BY <1>1, ProcessForm
  <1>2. ASSUME NEW c \in Clients, SendAgain(c) PROVE Form
    <2>1. client[c].command \in Requests
      BY <1>2 DEF SendAgain, ClientOwn, Wanting
    <2> QED BY <1>2, <2>1, SendForm DEF SendAgain
  <1>3. ASSUME NEW c \in Clients, NEW t \in Commands(c), Issue(c, t) PROVE Form
    <2>1. t \in Requests
      BY DEF Commands, Requests
    <2> QED BY <1>3, <2>1, SendForm DEF Issue
  <1>4. ASSUME NEW c \in Clients, Response(c) \/ NoResponse(c) PROVE Form
    BY <1>4, AnswerForm
  <1>5. CASE Handle
    BY <1>5, HandleForm
  <1>6. ASSUME NEW k \in Sockets, Receive(k) PROVE Form
    <2>1. Receives(k)
      BY <1>6 DEF Receive, Receives
    <2> QED BY <2>1 DEF Form
  <1>7. ASSUME NEW k \in Sockets, NoticeEnd(k) PROVE Form
    BY <1>7 DEF NoticeEnd, Rest, Form
  <1>8. CASE UNCHANGED allVars
    BY <1>8 DEF allVars, clientVars, network, Form, Still
  <1> QED BY <1>1, <1>2, <1>3, <1>4, <1>5, <1>6, <1>7, <1>8 DEF ClientNext, Proceed, Server

\* Only the database thread changes tables.
LEMMA TablesStep ==
    ASSUME [ClientNext]_allVars
    PROVE  \/ UNCHANGED tables /\ phase' = phase /\ reply' \in {reply, NoReply}
           \/ Handle
  <1>1. ASSUME NEW c \in Clients, Start(c) \/ Exit(c) \/ Reconnect(c) \/ TryReconnect(c)
                                  \/ SendAgain(c) \/ Response(c) \/ NoResponse(c)
        PROVE  NoTask
    BY <1>1 DEF Start, Exit, Reconnect, TryReconnect, SendAgain, Response, NoResponse
  <1>2. ASSUME NEW c \in Clients, NEW t \in Commands(c), Issue(c, t) PROVE NoTask
    BY <1>2 DEF Issue
  <1>3. ASSUME NEW k \in Sockets, Receive(k) \/ NoticeEnd(k) PROVE NoTask
    BY <1>3 DEF Receive, NoticeEnd
  <1>4. CASE UNCHANGED allVars
    BY <1>4 DEF allVars, vars
  <1>5. NoTask => UNCHANGED tables /\ phase' = phase /\ reply' = NoReply
    BY DEF NoTask
  <1>6. CASE NoTask
    BY <1>5, <1>6
  <1>7. ASSUME ClientNext PROVE Handle \/ NoTask
    <2>1. CASE Server
      BY <1>3, <2>1 DEF Server
    <2>2. ASSUME NEW c \in Clients, Proceed(c) PROVE NoTask
      BY <1>1, <2>2 DEF Proceed
    <2> QED BY <1>1, <1>2, <1>7, <2>1, <2>2, Zenon DEF ClientNext
  <1> QED BY <1>4, <1>6, <1>7, Zenon

\* The tables keep their types.
LEMMA TablesNext == Types /\ [ClientNext]_allVars => TypeOK' /\ phase' = "running"
  <1> SUFFICES ASSUME Types, [ClientNext]_allVars PROVE TypeOK' /\ phase' = "running"
    OBVIOUS
  <1>1. TypeOK /\ phase = "running"
    BY DEF Types
  <1>2. CASE UNCHANGED tables /\ phase' = phase /\ reply' \in {reply, NoReply}
    BY <1>1, <1>2 DEF tables, TypeOK, ServerExists
  <1>3. CASE Handle
    <2>1. Head(RecvPakets).task \in Tasks
      BY <1>3, First DEF Handle
    <2>2. Run
      BY <1>1, <1>3, <2>1 DEF Handle, Run
    <2>3. [Next]_vars
      BY <2>2 DEF Next
    <2> QED BY <1>1, <1>3, <2>3, TypeNext DEF Handle
  <1> QED BY <1>2, <1>3, TablesStep

-----------------------------------------------------------------------------
(* Types and owners.                                                       *)

\* What is left of the queue are tasks that were in it.
LEMMA RestFacts ==
    ASSUME Types, NEW k \in Sockets, NEW queue, Rest(k, queue)
    PROVE  /\ queue \in Seq(Entry)
           /\ \A i \in 1..Len(queue) : \E j \in 1..Len(RecvPakets) : queue[i] = RecvPakets[j]
  <1>1. RecvPakets \in Seq(Entry)
    BY DEF Types
  <1>2. CASE queue = RecvPakets
    BY <1>1, <1>2
  <1>3. CASE RecvPakets # <<>> /\ queue = Tail(RecvPakets)
    <2>1. /\ queue \in Seq(Entry) /\ Len(RecvPakets) \in Nat \ {0}
          /\ Len(queue) = Len(RecvPakets) - 1
          /\ \A i \in 1..Len(queue) : queue[i] = RecvPakets[i + 1]
      BY <1>1, <1>3, TailFacts
    <2>2. \A i \in 1..Len(queue) : i + 1 \in 1..Len(RecvPakets)
      BY <2>1
    <2> QED BY <2>1, <2>2
  <1> QED BY <1>2, <1>3 DEF Rest

\* The queue with the tasks of a handle disowned, before the disconnection is added.
Disowned(k, queue) == [i \in DOMAIN queue |-> IF queue[i].task.socket = k
                                              THEN [queue[i] EXCEPT !.from = NoClient]
                                              ELSE queue[i]]

\* A task that is disowned.
LEMMA DisownedFacts ==
    ASSUME NEW k \in Sockets, NEW queue \in Seq(Entry)
    PROVE  /\ Disowned(k, queue) \in Seq(Entry)
           /\ Len(Disowned(k, queue)) = Len(queue)
           /\ \A i \in 1..Len(queue) :
                 /\ Disowned(k, queue)[i] \in Entry
                 /\ Disowned(k, queue)[i].task = queue[i].task
                 /\ queue[i].task.socket = k => Disowned(k, queue)[i].from = NoClient
                 /\ queue[i].task.socket # k => Disowned(k, queue)[i] = queue[i]
  <1> DEFINE D == Disowned(k, queue)
  <1>1. DOMAIN queue = 1..Len(queue) /\ Len(queue) \in Nat
    OBVIOUS
  <1>2. \A i \in 1..Len(queue) : queue[i] \in Entry
    OBVIOUS
  <1>3. /\ D = [i \in 1..Len(queue) |-> D[i]]
        /\ \A i \in 1..Len(queue) : D[i] = IF queue[i].task.socket = k
                                           THEN [queue[i] EXCEPT !.from = NoClient] ELSE queue[i]
    BY <1>1 DEF Disowned
  <1> HIDE DEF D
  <1>4. ASSUME NEW i \in 1..Len(queue)
        PROVE  /\ D[i] \in Entry /\ D[i].task = queue[i].task
               /\ queue[i].task.socket = k => D[i].from = NoClient
               /\ queue[i].task.socket # k => D[i] = queue[i]
    <2>1. queue[i] \in Entry
      BY <1>2
    <2> QED BY <1>3, <2>1 DEF Entry, Someone
  <1>5. D \in [1..Len(queue) -> Entry]
    BY <1>3, <1>4
  <1>6. D \in Seq(Entry) /\ Len(D) = Len(queue)
    BY <1>1, <1>5
  <1> QED BY <1>4, <1>6 DEF D

\* A client is removed: its tasks are disowned and its disconnection is the last task.
LEMMA RemoveFacts ==
    ASSUME Types, NEW k \in Sockets, NEW queue \in Seq(Entry), Remove(k, queue)
    PROVE  /\ Disconnection(k) \in Entry
           /\ RecvPakets' = Append(Disowned(k, queue), Disconnection(k))
           /\ RecvPakets' \in Seq(Entry)
           /\ client' \in [Clients -> ClientRecord]
           /\ \A c \in Clients :
                 \/ client[c].sock = k /\ client'[c] = [client[c] EXCEPT !.sock = NoSocket]
                 \/ client[c].sock # k /\ client'[c] = client[c]
  <1>1. Disconnection(k) \in Entry
    BY ClientAssumption DEF Disconnection, Entry, Someone, Tasks, ClientDisconnectedTask
  <1>2. RecvPakets' = Disowned(k, queue) \o <<Disconnection(k)>>
    BY DEF Remove, Disowned
  <1>3. Disowned(k, queue) \in Seq(Entry)
    BY DisownedFacts
  <1> DEFINE d == Disowned(k, queue)
             e == Disconnection(k)
  <1> HIDE DEF d, e
  <1>4. d \o <<e>> = Append(d, e)
    <2> SUFFICES ASSUME d \in Seq(Entry), e \in Entry PROVE d \o <<e>> = Append(d, e)
      BY <1>1, <1>3 DEF d, e
    <2> QED OBVIOUS
  <1>5. RecvPakets' = Append(Disowned(k, queue), Disconnection(k))
    BY <1>2, <1>4 DEF d, e
  <1>6. client \in [Clients -> ClientRecord]
    BY DEF Types
  <1>7. client' = [c \in Clients |-> IF client[c].sock = k
                                     THEN [client[c] EXCEPT !.sock = NoSocket] ELSE client[c]]
    BY DEF Remove
  <1>8. ASSUME NEW c \in Clients PROVE [client[c] EXCEPT !.sock = NoSocket] \in ClientRecord
    <2>1. client[c] \in ClientRecord
      BY <1>6
    <2> QED BY <2>1 DEF ClientRecord
  <1> QED BY <1>1, <1>3, <1>5, <1>6, <1>7, <1>8, AppendFacts

\* Handles and faults keep their types.
LEMMA CountersNext ==
    Types /\ [ClientNext]_allVars => ended' \subseteq Sockets /\ mishaps' \in 0..MaxMishaps
  <1> SUFFICES ASSUME Types, [ClientNext]_allVars
               PROVE  ended' \subseteq Sockets /\ mishaps' \in 0..MaxMishaps
    OBVIOUS
  <1> DEFINE Good == ended' \subseteq Sockets /\ mishaps' \in 0..MaxMishaps
  <1> SUFFICES Good
    OBVIOUS
  <1>1. ended \subseteq Sockets /\ mishaps \in 0..MaxMishaps /\ MaxMishaps \in Nat
    BY ClientAssumption DEF Types
  <1>2. Mishap \/ mishaps' = mishaps => mishaps' \in 0..MaxMishaps
    <2>1. CASE Mishap
      BY <1>1, <2>1 DEF Mishap
    <2>2. CASE mishaps' = mishaps
      BY <1>1, <2>2
    <2> QED BY <2>1, <2>2
  <1>3. ASSUME NEW c \in Clients, Start(c) \/ TryReconnect(c) PROVE Good
    <2>1. ASSUME NEW then, Connect(c, then) PROVE Good
      BY <1>1, <1>2, <2>1, Zenon DEF Connect
    <2>2. ASSUME NEW then, ConnectFails(c, then) PROVE Good
      BY <1>1, <1>2, <2>2, Zenon DEF ConnectFails, network
    <2> HIDE DEF Good
    <2>3. CASE Start(c)
      BY <2>1, <2>2, <2>3, Zenon DEF Start
    <2>4. CASE TryReconnect(c)
      BY <2>1, <2>2, <2>4, Zenon DEF TryReconnect
    <2> QED BY <1>3, <2>3, <2>4
  <1>4. ASSUME NEW c \in Clients, Exit(c) \/ Reconnect(c) PROVE Good
    BY <1>1, <1>2, <1>4 DEF Exit, Reconnect, HandlesOf
  <1>5. ASSUME NEW c \in Clients, NEW t, SendPacket(c, t) PROVE Good
    BY <1>1, <1>2, <1>5 DEF SendPacket
  <1>6. ASSUME NEW c \in Clients, NEW t, NEW then, SendFails(c, t, then) PROVE Good
    <2>1. UNCHANGED ended /\ (Mishap \/ mishaps' = mishaps)
      BY <1>6 DEF SendFails, network
    <2>2. mishaps' \in 0..MaxMishaps
      BY <1>2, <2>1, Zenon
    <2> QED BY <1>1, <2>1, <2>2, Zenon
  <1>7. ASSUME NEW c \in Clients, Response(c) \/ NoResponse(c) PROVE Good
    BY <1>1, <1>2, <1>7 DEF Response, NoResponse, network
  <1>8. ASSUME NEW k \in Sockets, NEW queue, Remove(k, queue) PROVE ended' \subseteq Sockets
    BY <1>1, <1>8 DEF Remove
  <1>9. ASSUME NEW k \in Sockets, Receive(k) \/ NoticeEnd(k) PROVE Good
    <2>1. mishaps' = mishaps
      BY <1>9 DEF Receive, NoticeEnd
    <2>2. ended' \subseteq Sockets
      BY <1>1, <1>8, <1>9 DEF Receive, NoticeEnd
    <2> QED BY <1>2, <2>1, <2>2
  <1>10. CASE Handle
    <2>1. Head(RecvPakets).task.socket \in Sockets
      BY <1>10, First DEF Handle
    <2>2. ended' \subseteq Sockets
      BY <1>1, <1>8, <1>10, <2>1 DEF Handle, Answer
    <2>3. Mishap \/ mishaps' = mishaps
      BY <1>10 DEF Handle, Answer
    <2> QED BY <1>2, <2>2, <2>3
  <1>11. CASE UNCHANGED allVars
    BY <1>1, <1>11 DEF allVars, clientVars, network
  <1> HIDE DEF Good
  <1>12. ASSUME NEW c \in Clients, NEW t \in Commands(c), Issue(c, t) PROVE Good
    BY <1>5, <1>6, <1>12 DEF Issue
  <1>13. ASSUME NEW c \in Clients, SendAgain(c) PROVE Good
    BY <1>5, <1>6, <1>13 DEF SendAgain
  <1> QED BY <1>3, <1>4, <1>7, <1>9, <1>10, <1>11, <1>12, <1>13
          DEF ClientNext, Proceed, Server

\* The network keeps its types.
LEMMA TypesNext ==
    Types /\ ClientOwn /\ DownlinkOwn /\ [ClientNext]_allVars => Types'
  <1> SUFFICES ASSUME Types, ClientOwn, DownlinkOwn, [ClientNext]_allVars PROVE Types'
    OBVIOUS
  <1>0. /\ client \in [Clients -> ClientRecord] /\ holder \in [Sockets -> Someone]
        /\ uplink \in [Sockets -> Seq(Requests)] /\ downlink \in [Sockets -> Seq(Answered)]
        /\ RecvPakets \in Seq(Entry)
    BY DEF Types
  <1> DEFINE Good == /\ client' \in [Clients -> ClientRecord]
                     /\ holder' \in [Sockets -> Someone]
                     /\ uplink' \in [Sockets -> Seq(Requests)]
                     /\ downlink' \in [Sockets -> Seq(Answered)]
                     /\ RecvPakets' \in Seq(Entry)
  <1>1. Good => Types'
    BY TablesNext, CountersNext DEF Types
  <1> SUFFICES Good
    BY <1>1
  <1>2. ASSUME NEW c \in Clients, Quiet(c) PROVE Good
    BY <1>0, <1>2 DEF Quiet, NewRecord
  <1>3. ASSUME NEW c \in Clients, NEW k \in Sockets, Connects(c, k) PROVE Good
    BY <1>0, <1>3 DEF Connects, NewRecord, Someone
  <1>4. ASSUME NEW c \in Clients, NEW k \in Sockets, Reads(c, k) PROVE Good
    <2>1. downlink[k] \in Seq(Answered) /\ downlink[k] # <<>>
      BY <1>0, <1>4 DEF Reads
    <2>2. Tail(downlink[k]) \in Seq(Answered)
      BY <2>1, TailFacts
    <2> QED BY <1>0, <1>4, <2>2 DEF Reads, NewRecord
  <1>5. ASSUME NEW c \in Clients, NEW k \in Sockets, NEW m \in Requests, Sends(c, k, m)
        PROVE  Good
    <2>1. Append(uplink[k], m) \in Seq(Requests)
      BY <1>0, AppendFacts
    <2> QED BY <1>0, <1>5, <2>1 DEF Sends, NewRecord
  <1>6. ASSUME NEW k \in Sockets, Receives(k) PROVE Good
    <2>1. uplink[k] \in Seq(Requests) /\ uplink[k] # <<>>
      BY <1>0, <1>6 DEF Receives
    <2>2. Tail(uplink[k]) \in Seq(Requests) /\ Head(uplink[k]) \in Requests
      BY <2>1, TailFacts
    <2>3. [task |-> Head(uplink[k]), from |-> holder[k]] \in Entry
      BY <1>0, <2>2 DEF Entry, Requests
    <2>4. RecvPakets' \in Seq(Entry)
      BY <1>0, <1>6, <2>3, AppendFacts DEF Receives
    <2> QED BY <1>0, <1>6, <2>2, <2>4 DEF Receives
  <1>7. ASSUME NEW k \in Sockets, Answers(k) PROVE Good
    <2>1. [reply |-> reply', from |-> Head(RecvPakets).from] \in Answered
      BY <1>7, First DEF Answers, Answered
    <2>2. Append(downlink[k], [reply |-> reply', from |-> Head(RecvPakets).from])
             \in Seq(Answered)
      BY <1>0, <2>1, AppendFacts
    <2>3. RecvPakets' \in Seq(Entry)
      BY <1>0, <1>7, TailFacts DEF Answers
    <2> QED BY <1>0, <1>7, <2>2, <2>3 DEF Answers
  <1>8. ASSUME NEW k \in Sockets, NEW queue, Rest(k, queue), Remove(k, queue) PROVE Good
    <2>1. queue \in Seq(Entry)
      BY <1>8, RestFacts
    <2>2. RecvPakets' \in Seq(Entry) /\ client' \in [Clients -> ClientRecord]
      BY <1>8, <2>1, RemoveFacts
    <2>3. <<>> \in Seq(Requests) /\ <<>> \in Seq(Answered)
      OBVIOUS
    <2>4. /\ holder' = [holder EXCEPT ![k] = NoClient]
          /\ uplink' = [uplink EXCEPT ![k] = <<>>]
          /\ downlink' = [downlink EXCEPT ![k] = <<>>]
      BY <1>8 DEF Remove
    <2> QED BY <1>0, <2>2, <2>3, <2>4 DEF Someone
  <1>9. Drops => Good
    BY <1>0, TailFacts DEF Drops
  <1>10. Still => Good
    BY <1>0 DEF Still
  <1> HIDE DEF Good
  <1> QED BY <1>2, <1>3, <1>4, <1>5, <1>6, <1>7, <1>8, <1>9, <1>10, Forms DEF Form

\* Clients hold their handles, and want to send what they have.
LEMMA ClientOwnNext ==
    ASSUME Types, ClientOwn, Form
    PROVE  ClientOwn'
  <1>0. /\ client \in [Clients -> ClientRecord] /\ holder \in [Sockets -> Someone]
        /\ NoClient \notin Clients /\ NoSocket \notin Sockets
    BY ClientAssumption, NullsAssumption DEF Types
  <1>a. \A c \in Clients : client[c].sock \in Sockets \cup {NoSocket}
    BY <1>0 DEF ClientRecord
  <1>b. \A c \in Clients : /\ client[c].sock # NoSocket => holder[client[c].sock] = c
                           /\ Wanting(client[c])
    BY DEF ClientOwn
  <1>1. ASSUME NEW c \in Clients, NEW r, NewRecord(c, r), holder' = holder,
               r.sock \in {client[c].sock, NoSocket}
        PROVE  ClientOwn'
    <2>1. ASSUME NEW d \in Clients
          PROVE  /\ client'[d].sock # NoSocket => holder'[client'[d].sock] = d
                 /\ Wanting(client'[d])
      BY <1>0, <1>b, <1>1 DEF NewRecord
    <2> QED BY <2>1 DEF ClientOwn, Wanting
  <1>2. ASSUME NEW c \in Clients, Quiet(c) PROVE ClientOwn'
    BY <1>1, <1>2 DEF Quiet
  <1>3. ASSUME NEW c \in Clients, NEW k \in Sockets, Reads(c, k) PROVE ClientOwn'
    BY <1>1, <1>3 DEF Reads
  <1>4. ASSUME NEW c \in Clients, NEW k \in Sockets, NEW m, Sends(c, k, m) PROVE ClientOwn'
    BY <1>1, <1>4 DEF Sends
  <1>5. ASSUME NEW c \in Clients, NEW k \in Sockets, Connects(c, k) PROVE ClientOwn'
    <2>1. PICK r : NewRecord(c, r) /\ r.sock = k
      BY <1>5 DEF Connects
    <2>2. holder' = [holder EXCEPT ![k] = c] /\ holder[k] = NoClient
      BY <1>5 DEF Connects, Free
    <2>3. ASSUME NEW d \in Clients
          PROVE  /\ client'[d].sock # NoSocket => holder'[client'[d].sock] = d
                 /\ Wanting(client'[d])
      <3>1. CASE d = c
        BY <1>0, <2>1, <2>2, <3>1 DEF NewRecord
      <3>2. CASE d # c
        <4>1. client'[d] = client[d]
          BY <1>0, <2>1, <3>2 DEF NewRecord
        <4>2. client[d].sock # k
          BY <1>0, <1>b, <2>2
        <4> QED BY <1>0, <1>a, <1>b, <2>2, <4>1, <4>2
      <3> QED BY <3>1, <3>2
    <2> QED BY <2>3 DEF ClientOwn, Wanting
  <1>6. ASSUME UNCHANGED <<client, holder>> PROVE ClientOwn'
    BY <1>b, <1>6 DEF ClientOwn, Wanting
  <1>7. ASSUME NEW k \in Sockets, NEW queue, Rest(k, queue), Remove(k, queue) PROVE ClientOwn'
    <2>1. \A c \in Clients :
              \/ client[c].sock = k /\ client'[c] = [client[c] EXCEPT !.sock = NoSocket]
              \/ client[c].sock # k /\ client'[c] = client[c]
      BY <1>7, RestFacts, RemoveFacts
    <2>2. holder' = [holder EXCEPT ![k] = NoClient]
      BY <1>7 DEF Remove
    <2>3. ASSUME NEW d \in Clients
          PROVE  /\ client'[d].sock # NoSocket => holder'[client'[d].sock] = d
                 /\ Wanting(client'[d])
      <3>1. CASE client[d].sock = k
        <4>1. client'[d] = [client[d] EXCEPT !.sock = NoSocket]
          BY <2>1, <3>1
        <4>2. client[d] \in ClientRecord
          BY <1>0
        <4>3. /\ client'[d].sock = NoSocket /\ client'[d].pc = client[d].pc
              /\ client'[d].command = client[d].command
          BY <4>1, <4>2 DEF ClientRecord
        <4>4. Wanting(client[d])
          BY <1>b
        <4> QED BY <4>3, <4>4 DEF Wanting
      <3>2. CASE client[d].sock # k
        <4>1. client'[d] = client[d]
          BY <2>1, <3>2
        <4>2. Wanting(client[d])
          BY <1>b
        <4>3. ASSUME client[d].sock # NoSocket PROVE holder'[client[d].sock] = d
          <5>1. client[d].sock \in Sockets /\ holder[client[d].sock] = d
            BY <1>0, <1>a, <1>b, <4>3
          <5> QED BY <1>0, <2>2, <3>2, <5>1
        <4> QED BY <4>1, <4>2, <4>3
      <3> QED BY <3>1, <3>2
    <2> QED BY <2>3 DEF ClientOwn, Wanting
  <1> QED BY <1>2, <1>3, <1>4, <1>5, <1>6, <1>7
          DEF Form, Receives, Answers, Drops, Still

\* Nothing is on its way over a free handle, and packets are for their handle.
LEMMA UplinkNext ==
    ASSUME Types, ClientOwn, FreeEmpty, UplinkOwn, Form
    PROVE  FreeEmpty' /\ UplinkOwn'
  <1>0. /\ holder \in [Sockets -> Someone] /\ NoClient \notin Clients /\ NoSocket \notin Sockets
        /\ uplink \in [Sockets -> Seq(Requests)] /\ downlink \in [Sockets -> Seq(Answered)]
    BY ClientAssumption, NullsAssumption DEF Types
  <1>a. /\ \A k \in Sockets : holder[k] = NoClient => uplink[k] = <<>> /\ downlink[k] = <<>>
        /\ \A k \in Sockets : Every(uplink[k], PacketsOf(k))
    BY DEF FreeEmpty, Free, UplinkOwn
  <1> DEFINE Empty(k) == holder'[k] = NoClient => uplink'[k] = <<>> /\ downlink'[k] = <<>>
             Mine(k) == Every(uplink'[k], PacketsOf(k))
  <1> SUFFICES ASSUME NEW j \in Sockets PROVE Empty(j) /\ Mine(j)
    BY DEF FreeEmpty, Free, UplinkOwn, Every, PacketsOf
  <1>1. ASSUME UNCHANGED <<holder, uplink, downlink>> PROVE Empty(j) /\ Mine(j)
    BY <1>a, <1>1
  <1>2. ASSUME NEW c \in Clients, NEW k \in Sockets, Connects(c, k) PROVE Empty(j) /\ Mine(j)
    BY <1>0, <1>a, <1>2 DEF Connects
  <1>3. ASSUME NEW c \in Clients, NEW k \in Sockets, Reads(c, k) PROVE Empty(j) /\ Mine(j)
    <2>1. holder' = holder /\ uplink' = uplink /\ downlink[k] # <<>>
          /\ downlink' = [downlink EXCEPT ![k] = Tail(@)]
      BY <1>3 DEF Reads
    <2> QED BY <1>0, <1>a, <2>1
  <1>4. ASSUME NEW c \in Clients, NEW k \in Sockets, NEW m \in Requests, Sends(c, k, m)
        PROVE  Empty(j) /\ Mine(j)
    <2>1. /\ holder' = holder /\ downlink' = downlink
          /\ uplink' = [uplink EXCEPT ![k] = Append(@, m)]
          /\ m \in PacketsOf(k) /\ client[c].sock = k
      BY <1>4 DEF Sends, PacketsOf
    <2>2. holder[k] = c
      BY <1>0, <2>1 DEF ClientOwn
    <2>3. Every(Append(uplink[k], m), PacketsOf(k))
      BY <1>0, <1>a, <2>1, EveryFacts
    <2> QED BY <1>0, <1>a, <2>1, <2>2, <2>3
  <1>5. ASSUME NEW k \in Sockets, Receives(k) PROVE Empty(j) /\ Mine(j)
    <2>1. /\ holder' = holder /\ downlink' = downlink /\ uplink[k] # <<>>
          /\ uplink' = [uplink EXCEPT ![k] = Tail(@)]
      BY <1>5 DEF Receives
    <2>2. Every(Tail(uplink[k]), PacketsOf(k))
      BY <1>0, <1>a, <2>1, EveryFacts
    <2> QED BY <1>0, <1>a, <2>1, <2>2
  <1>6. ASSUME NEW k \in Sockets, Answers(k) PROVE Empty(j) /\ Mine(j)
    BY <1>0, <1>a, <1>6 DEF Answers, Free
  <1>7. ASSUME NEW k \in Sockets, NEW queue, Remove(k, queue) PROVE Empty(j) /\ Mine(j)
    <2>1. /\ holder' = [holder EXCEPT ![k] = NoClient]
          /\ uplink' = [uplink EXCEPT ![k] = <<>>]
          /\ downlink' = [downlink EXCEPT ![k] = <<>>]
      BY <1>7 DEF Remove
    <2>2. Every(<<>>, PacketsOf(k))
      BY DEF Every
    <2> QED BY <1>0, <1>a, <2>1, <2>2
  <1> HIDE DEF Empty, Mine
  <1> QED BY <1>1, <1>2, <1>3, <1>4, <1>5, <1>6, <1>7 DEF Form, Quiet, Drops, Still

\* Responses are to the holder of the handle, or to one before.
LEMMA DownlinkNext ==
    ASSUME Types, FreeEmpty, DownlinkOwn, QueueOwn, Form
    PROVE  DownlinkOwn'
  <1>0. /\ holder \in [Sockets -> Someone] /\ downlink \in [Sockets -> Seq(Answered)]
        /\ RecvPakets \in Seq(Entry)
    BY DEF Types
  <1>a. /\ \A k \in Sockets : holder[k] = NoClient => downlink[k] = <<>>
        /\ \A k \in Sockets : Every(downlink[k], AnswersTo(holder[k]))
    BY DEF FreeEmpty, Free, DownlinkOwn
  <1>b. \A P : Every(<<>>, P)
    BY DEF Every
  <1> DEFINE To(k) == Every(downlink'[k], AnswersTo(holder'[k]))
  <1> SUFFICES ASSUME NEW j \in Sockets PROVE To(j)
    BY DEF DownlinkOwn, Every, AnswersTo, Logs
  <1>1. ASSUME UNCHANGED <<holder, downlink>> PROVE To(j)
    BY <1>a, <1>1
  <1>2. ASSUME NEW c \in Clients, NEW k \in Sockets, Connects(c, k) PROVE To(j)
    BY <1>0, <1>a, <1>b, <1>2 DEF Connects, Free
  <1>3. ASSUME NEW c \in Clients, NEW k \in Sockets, Reads(c, k) PROVE To(j)
    <2>1. /\ holder' = holder /\ downlink[k] # <<>>
          /\ downlink' = [downlink EXCEPT ![k] = Tail(@)]
      BY <1>3 DEF Reads
    <2>2. Every(Tail(downlink[k]), AnswersTo(holder[k]))
      BY <1>0, <1>a, <2>1, EveryFacts
    <2> QED BY <1>0, <1>a, <2>1, <2>2
  <1>4. ASSUME NEW k \in Sockets, Answers(k) PROVE To(j)
    <2> DEFINE e == Head(RecvPakets)
               a == [reply |-> reply', from |-> e.from]
    <2>1. /\ RecvPakets # <<>> /\ e.task.socket = k /\ reply' \in Reply
          /\ Logs([reply |-> reply', from |-> NoClient])
          /\ downlink' = [downlink EXCEPT ![k] = Append(@, a)]
          /\ holder' = holder
      BY <1>4 DEF Answers
    <2>2. e \in SentBy(holder) /\ e.from \in Someone
      BY <1>0, <2>1, First, EveryFacts DEF QueueOwn
    <2>3. e.from \in {NoClient, holder[k]}
      BY <2>1, <2>2 DEF SentBy
    <2>4. a \in Answered
      BY <2>1, <2>2 DEF Answered
    <2>5. Logs(a)
      BY <2>1 DEF Logs
    <2>6. a \in AnswersTo(holder[k])
      BY <2>3, <2>4, <2>5 DEF AnswersTo
    <2> HIDE DEF a, e
    <2>7. Every(Append(downlink[k], a), AnswersTo(holder[k]))
      BY <1>0, <1>a, <2>4, <2>6, EveryFacts
    <2> QED BY <1>0, <1>a, <2>1, <2>7
  <1>5. ASSUME NEW k \in Sockets, NEW queue, Remove(k, queue) PROVE To(j)
    <2>1. /\ holder' = [holder EXCEPT ![k] = NoClient]
          /\ downlink' = [downlink EXCEPT ![k] = <<>>]
      BY <1>5 DEF Remove
    <2> QED BY <1>0, <1>a, <1>b, <2>1
  <1> HIDE DEF To
  <1> QED BY <1>1, <1>2, <1>3, <1>4, <1>5 DEF Form, Quiet, Sends, Receives, Drops, Still

\* A sender that is known still holds the handle.
LEMMA QueueNext ==
    ASSUME Types, UplinkOwn, QueueOwn, Form
    PROVE  QueueOwn'
  <1>0. /\ holder \in [Sockets -> Someone] /\ uplink \in [Sockets -> Seq(Requests)]
        /\ RecvPakets \in Seq(Entry)
    BY DEF Types
  <1>a. Every(RecvPakets, SentBy(holder))
    BY DEF QueueOwn
  <1> SUFFICES Every(RecvPakets', SentBy(holder'))
    BY DEF QueueOwn, Every, SentBy
  <1> DEFINE Good == Every(RecvPakets', SentBy(holder'))
  <1>1. ASSUME UNCHANGED <<holder, RecvPakets>> PROVE Good
    BY <1>a, <1>1
  <1>2. ASSUME NEW c \in Clients, NEW k \in Sockets, Connects(c, k) PROVE Good
    <2>1. /\ holder' = [holder EXCEPT ![k] = c] /\ holder[k] = NoClient
          /\ RecvPakets' = RecvPakets
      BY <1>2 DEF Connects, Free
    <2>2. ASSUME NEW e \in SentBy(holder) PROVE e \in SentBy(holder')
      <3>1. e \in Entry /\ e.task \in Tasks
        BY DEF SentBy, Entry
      <3>2. e.task.socket \in Sockets
        BY <3>1, TaskShape
      <3>3. CASE e.from = NoClient
        BY <3>1, <3>3 DEF SentBy
      <3>4. CASE e.from # NoClient
        <4>1. e.task.kind # "ClientDisconnected" /\ holder[e.task.socket] = e.from
          BY <3>4 DEF SentBy
        <4>2. holder'[e.task.socket] = e.from
          BY <1>0, <2>1, <3>2, <3>4, <4>1
        <4> QED BY <3>1, <4>1, <4>2 DEF SentBy
      <3> QED BY <3>3, <3>4
    <2> QED BY <1>a, <2>1, <2>2 DEF Every
  <1>3. ASSUME NEW k \in Sockets, Receives(k) PROVE Good
    <2> DEFINE e == [task |-> Head(uplink[k]), from |-> holder[k]]
    <2>1. holder' = holder /\ uplink[k] # <<>> /\ RecvPakets' = Append(RecvPakets, e)
      BY <1>3 DEF Receives
    <2>2. Head(uplink[k]) \in PacketsOf(k)
      BY <1>0, <2>1, EveryFacts DEF UplinkOwn
    <2>3. e \in Entry /\ e \in SentBy(holder)
      BY <1>0, <2>2 DEF PacketsOf, Requests, Entry, SentBy
    <2> HIDE DEF e
    <2> QED BY <1>0, <1>a, <2>1, <2>3, EveryFacts
  <1>4. ASSUME RecvPakets # <<>>, RecvPakets' = Tail(RecvPakets), holder' = holder PROVE Good
    BY <1>0, <1>a, <1>4, EveryFacts
  <1>5. ASSUME NEW k \in Sockets, NEW queue, Rest(k, queue), Remove(k, queue) PROVE Good
    <2>1. queue \in Seq(Entry) /\ Every(queue, SentBy(holder))
      BY <1>a, <1>5, RestFacts DEF Every
    <2>2. RecvPakets' = Append(Disowned(k, queue), Disconnection(k))
          /\ Disconnection(k) \in Entry
      BY <1>5, <2>1, RemoveFacts
    <2>3. holder' = [holder EXCEPT ![k] = NoClient]
      BY <1>5 DEF Remove
    <2>4. Disconnection(k) \in SentBy(holder')
      BY <2>2 DEF Disconnection, SentBy
    <2>5. Disowned(k, queue) \in Seq(Entry)
      BY <2>1, DisownedFacts
    <2>6. ASSUME NEW i \in 1..Len(queue) PROVE Disowned(k, queue)[i] \in SentBy(holder')
      <3> DEFINE d == Disowned(k, queue)[i]
      <3>1. /\ d \in Entry /\ d.task = queue[i].task
            /\ queue[i].task.socket = k => d.from = NoClient
            /\ queue[i].task.socket # k => d = queue[i]
        BY <2>1, DisownedFacts
      <3>2. queue[i] \in SentBy(holder)
        BY <2>1 DEF Every
      <3>3. d.task.socket \in Sockets
        <4>1. d.task \in Tasks
          BY <3>1 DEF Entry
        <4> QED BY <4>1, TaskShape
      <3> HIDE DEF d
      <3>4. ASSUME d.from = NoClient PROVE d \in SentBy(holder')
        BY <3>1, <3>4 DEF SentBy
      <3>5. ASSUME d.from # NoClient PROVE d \in SentBy(holder')
        <4>1. d = queue[i] /\ d.task.socket # k
          BY <3>1, <3>5
        <4>2. d.task.kind # "ClientDisconnected" /\ holder[d.task.socket] = d.from
          BY <3>2, <3>5, <4>1 DEF SentBy
        <4>3. holder'[d.task.socket] = d.from
          BY <1>0, <2>3, <3>3, <4>1, <4>2
        <4> QED BY <3>1, <4>2, <4>3 DEF SentBy
      <3>6. d \in SentBy(holder')
        BY <3>4, <3>5
      <3> QED BY <3>6 DEF d
    <2>7. Every(Disowned(k, queue), SentBy(holder'))
      BY <2>1, <2>6, DisownedFacts DEF Every
    <2> QED BY <2>2, <2>4, <2>5, <2>7, EveryFacts
  <1> HIDE DEF Good
  <1>6. Good
    BY <1>1, <1>2, <1>3, <1>4, <1>5 DEF Form, Quiet, Reads, Sends, Answers, Drops, Still
  <1> QED BY <1>6 DEF Good

\* It holds at the start: the queue is empty, or holds what a client that has gone left.
LEMMA OwnedInit == ClientInit => Types /\ Owned
  <1> SUFFICES ASSUME ClientInit PROVE Types /\ Owned
    OBVIOUS
  <1>1. /\ InitTables /\ phase = "running" /\ reply = NoReply
        /\ client = [c \in Clients |-> NewProcess]
        /\ holder = [k \in Sockets |-> NoClient]
        /\ ended = {}
        /\ uplink = [k \in Sockets |-> <<>>]
        /\ downlink = [k \in Sockets |-> <<>>]
        /\ RecvPakets \in {<<>>} \cup Leftovers
        /\ mishaps = 0
    BY DEF ClientInit
  <1>2. TypeOK
    BY <1>1 DEF InitTables, TypeOK, AllOffline, Offline, Session, NoServer, GameServer
  <1>3. NewProcess \in ClientRecord /\ NewProcess.sock = NoSocket /\ Wanting(NewProcess)
    BY DEF NewProcess, ClientRecord, Wanting
  <1>4. ASSUME NEW t \in LoginTask, RecvPakets = <<[task |-> t, from |-> NoClient],
                                                   Disconnection(t.socket)>>
        PROVE  RecvPakets \in Seq(Entry) /\ Every(RecvPakets, SentBy(holder))
    <2>1. t \in Tasks /\ t.socket \in Sockets
      BY ClientAssumption DEF LoginTask, Tasks
    <2>2. [kind |-> "ClientDisconnected", socket |-> t.socket] \in Tasks
      BY <2>1, ClientAssumption DEF Tasks, ClientDisconnectedTask
    <2>3. ASSUME NEW e \in {[task |-> t, from |-> NoClient], Disconnection(t.socket)}
          PROVE  e \in Entry /\ e \in SentBy(holder)
      BY <2>1, <2>2 DEF Disconnection, Entry, Someone, SentBy
    <2>4. /\ Len(RecvPakets) = 2 /\ RecvPakets[1] = [task |-> t, from |-> NoClient]
          /\ RecvPakets[2] = Disconnection(t.socket)
      BY <1>4
    <2>5. RecvPakets \in Seq(Entry)
      BY <1>4, <2>3
    <2>6. \A i \in 1..2 : i = 1 \/ i = 2
      OBVIOUS
    <2> QED BY <2>3, <2>4, <2>5, <2>6 DEF Every
  <1>5. RecvPakets \in Seq(Entry) /\ Every(RecvPakets, SentBy(holder))
    <2>1. CASE RecvPakets = <<>>
      BY <2>1 DEF Every
    <2> QED BY <1>1, <1>4, <2>1 DEF Leftovers
  <1>6. <<>> \in Seq(Requests) /\ <<>> \in Seq(Answered) /\ \A P : Every(<<>>, P)
    BY DEF Every
  <1>7. Types
    BY <1>1, <1>2, <1>3, <1>5, <1>6, ClientAssumption DEF Types, Someone
  <1>8. Owned
    BY <1>1, <1>3, <1>5, <1>6
       DEF Owned, ClientOwn, FreeEmpty, UplinkOwn, DownlinkOwn, QueueOwn
  <1> QED BY <1>7, <1>8

\* Types and owners hold in every state.
LEMMA OwnedHolds == ClientSpec => [](Types /\ Owned)
  <1>1. Types /\ Owned /\ [ClientNext]_allVars => (Types /\ Owned)'
    <2> SUFFICES ASSUME Types, Owned, [ClientNext]_allVars PROVE (Types /\ Owned)'
      OBVIOUS
    <2>1. ClientOwn /\ FreeEmpty /\ UplinkOwn /\ DownlinkOwn /\ QueueOwn
      BY DEF Owned
    <2>2. Form
      BY <2>1, Forms
    <2>3. Types'
      BY <2>1, TypesNext
    <2>4. ClientOwn' /\ FreeEmpty' /\ UplinkOwn' /\ DownlinkOwn' /\ QueueOwn'
      BY <2>1, <2>2, ClientOwnNext, UplinkNext, DownlinkNext, QueueNext
    <2> QED BY <2>3, <2>4 DEF Owned
  <1> QED BY <1>1, OwnedInit, PTL DEF ClientSpec

\* A client waits or is at its menu, its handle is its own, and a free handle has nothing
\* on its way.
THEOREM ClientTypes == ClientSpec => []ClientTypeOK
  <1>1. Types /\ Owned => ClientTypeOK
    BY TypesSuffice DEF Owned
  <1> QED BY <1>1, OwnedHolds, PTL

-----------------------------------------------------------------------------
(* The database thread behind the connections.  A step handles a task as   *)
(* DatabaseThread does, or leaves the tables alone and answers nothing.    *)

\* Every step is one of the database thread, or changes no table and answers nothing new.
LEMMA ThreadSteps ==
    ASSUME Types, [ClientNext]_allVars
    PROVE  [Next]_vars \/ (UNCHANGED tables /\ reply' \in {reply, NoReply})
  <1>1. CASE Handle
    <2>1. Head(RecvPakets).task \in Tasks
      BY <1>1, First DEF Handle
    <2>2. phase = "running"
      BY DEF Types
    <2>3. Run
      BY <1>1, <2>1, <2>2 DEF Handle, Run
    <2> QED BY <2>3 DEF Next
  <1> QED BY <1>1, TablesStep

\* With any number of clients, reconnections and lost connections, the columns of a session
\* agree, and a session or a game server row belongs to an account that exists.
THEOREM TablesStayBound == ClientSpec => [](SessionBound /\ ServerBound)
  <1>1. ClientInit => SessionBound /\ ServerBound
    BY SessionBoundInit, ServerBoundInit DEF ClientInit
  <1>2. Types /\ SessionBound /\ ServerBound /\ [ClientNext]_allVars
        => (SessionBound /\ ServerBound)'
    <2> SUFFICES ASSUME Types, SessionBound, ServerBound, [ClientNext]_allVars
                 PROVE  SessionBound' /\ ServerBound'
      OBVIOUS
    <2>1. CASE [Next]_vars
      BY <2>1, SessionBoundNext, ServerBoundNext DEF Types
    <2>2. CASE UNCHANGED tables
      BY <2>2 DEF tables, SessionBound, ServerBound, ServerExists
    <2> QED BY <2>1, <2>2, ThreadSteps
  <1> QED BY <1>1, <1>2, OwnedHolds, PTL DEF ClientSpec

\* What a SUCCESS tells a client was true of the tables when it was sent, and no client gets
\* an account while another one is logged in to it.
THEOREM ClientsAreToldTheTruth == ClientSpec => TruthfulSuccess /\ NoSessionTakeover
  <1>1. Types /\ [ClientNext]_allVars => [Truthful']_vars /\ [NotTakenOver]_vars
    <2> SUFFICES ASSUME Types, [ClientNext]_allVars
                 PROVE  [Truthful']_vars /\ [NotTakenOver]_vars
      OBVIOUS
    <2>1. CASE [Next]_vars
      BY <2>1, TruthfulNext, NotTakenOverNext DEF Types
    <2>2. CASE UNCHANGED tables /\ reply' \in {reply, NoReply}
      <3>1. NotTakenOver
        BY <2>2 DEF tables, NotTakenOver
      <3>2. CASE reply' = NoReply
        BY <3>1, <3>2 DEF Truthful, Acknowledged
      <3>3. CASE reply' = reply
        <4>1. phase' = phase
          BY TablesNext DEF Types
        <4>2. UNCHANGED vars
          BY <2>2, <3>3, <4>1 DEF vars
        <4> QED BY <4>2
      <3> QED BY <2>2, <3>2, <3>3
    <2> QED BY <2>1, <2>2, ThreadSteps
  <1> QED BY <1>1, OwnedHolds, PTL DEF ClientSpec, TruthfulSuccess, NoSessionTakeover

\* Whatever the clients and the network do, sessions begin and end as SessionLifecycle allows.
THEOREM SessionsFollowLifecycle == ClientSpec => ImplementsLifecycle
  <1>1. ClientInit => Lifecycle!Init
    BY LifecycleInit DEF ClientInit
  <1>2. Types /\ SessionBound /\ [ClientNext]_allVars => [Lifecycle!Next]_location
    <2> SUFFICES ASSUME Types, SessionBound, [ClientNext]_allVars
                 PROVE  [Lifecycle!Next]_location
      OBVIOUS
    <2>1. CASE [Next]_vars
      BY <2>1, LifecycleNext DEF Types
    <2>2. CASE UNCHANGED tables
      BY <2>2 DEF tables, location
    <2> QED BY <2>1, <2>2, ThreadSteps
  <1> QED BY <1>1, <1>2, OwnedHolds, TablesStayBound, PTL
          DEF ClientSpec, Lifecycle!Spec, ImplementsLifecycle

-----------------------------------------------------------------------------
(* One thing at a time.                                                    *)

TasksOf(c, k) == {e \in Entry : e.from = c /\ e.task.socket = k}
ResponsesTo(c) == {a \in Answered : a.from = c}

\* c has nothing under way over handle k, with u and d on its links and q in the queue
Nothing(c, k, u, q, d) == /\ None(u, Requests)
                          /\ None(q, TasksOf(c, k))
                          /\ None(d, ResponsesTo(c))

\* c has only m under way
Single(c, k, m, u, q, d) ==
    \/ /\ Once(u, Requests, {m})
       /\ None(q, TasksOf(c, k))
       /\ None(d, ResponsesTo(c))
    \/ /\ None(u, Requests)
       /\ Once(q, TasksOf(c, k), {e \in Entry : e.task = m})
       /\ None(d, ResponsesTo(c))
    \/ /\ None(u, Requests)
       /\ None(q, TasksOf(c, k))
       /\ Once(d, ResponsesTo(c), {a \in Answered : a.reply.task = m})

\* what a client that waits, or does not, may have under way
Allowed(waits, c, k, m, u, q, d) == \/ Nothing(c, k, u, q, d)
                                    \/ waits /\ Single(c, k, m, u, q, d)

Using(c) == client[c].connected /\ client[c].sock # NoSocket /\ ~client[c].misled

Flow(c) == LET k == client[c].sock
           IN  Allowed(client[c].pc = "await", c, k, client[c].command,
                       uplink[k], RecvPakets, downlink[k])

InFlight == \A c \in Clients : Using(c) => Flow(c)

\* A request is sent.
LEMMA FlowSend ==
    ASSUME NEW c, NEW k, NEW m \in Requests, NEW n, NEW u \in Seq(Requests), NEW q, NEW d,
           Allowed(FALSE, c, k, n, u, q, d)
    PROVE  Allowed(TRUE, c, k, m, Append(u, m), q, d)
  <1>1. Nothing(c, k, u, q, d)
    BY DEF Allowed
  <1>2. m \in Requests \cap {m}
    OBVIOUS
  <1>3. Once(Append(u, m), Requests, {m})
    BY <1>1, <1>2, CountAppend DEF Nothing
  <1> QED BY <1>1, <1>3 DEF Allowed, Single, Nothing

\* A packet of c becomes a task.
LEMMA FlowReceive ==
    ASSUME NEW c \in Someone, NEW k, NEW m, NEW u \in Seq(Requests), u # <<>>,
           NEW q \in Seq(Entry), NEW d, NEW waits \in BOOLEAN, Allowed(waits, c, k, m, u, q, d),
           Head(u).socket = k
    PROVE  Allowed(waits, c, k, m, Tail(u), Append(q, [task |-> Head(u), from |-> c]), d)
  <1> DEFINE e == [task |-> Head(u), from |-> c]
             X == {x \in Entry : x.task = m}
  <1>1. Head(u) \in Requests
    BY TailFacts
  <1>2. e \in Entry /\ e \in TasksOf(c, k) /\ e.task = Head(u)
    BY <1>1 DEF Entry, TasksOf, Requests
  <1>3. ~None(u, Requests)
    BY <1>1, CountTail
  <1>4. waits /\ Once(u, Requests, {m}) /\ None(q, TasksOf(c, k)) /\ None(d, ResponsesTo(c))
    BY <1>3 DEF Allowed, Nothing, Single
  <1>5. None(Tail(u), Requests) /\ Head(u) = m
    BY <1>1, <1>4, CountTail
  <1>6. e \in TasksOf(c, k) \cap X
    BY <1>2, <1>5
  <1> HIDE DEF e, X
  <1>7. Once(Append(q, e), TasksOf(c, k), X)
    BY <1>2, <1>4, <1>6, CountAppend
  <1> QED BY <1>4, <1>5, <1>7 DEF Allowed, Single, e, X

\* A task of someone else, or over another handle, is added.
LEMMA FlowAppend ==
    ASSUME NEW c, NEW k, NEW m, NEW u, NEW q \in Seq(Entry), NEW d, NEW waits \in BOOLEAN,
           Allowed(waits, c, k, m, u, q, d), NEW e \in Entry, e \notin TasksOf(c, k)
    PROVE  Allowed(waits, c, k, m, u, Append(q, e), d)
  <1> DEFINE X == {x \in Entry : x.task = m}
  <1> HIDE DEF X
  <1>1. /\ None(q, TasksOf(c, k)) => None(Append(q, e), TasksOf(c, k))
        /\ Once(q, TasksOf(c, k), X) => Once(Append(q, e), TasksOf(c, k), X)
    BY CountAppend
  <1> QED BY <1>1 DEF Allowed, Nothing, Single, X

\* The first task is taken, and if it is a request of c over k, nothing is left of it.
LEMMA FlowTake ==
    ASSUME NEW c, NEW k, NEW m, NEW u, NEW q \in Seq(Entry), q # <<>>, NEW d, NEW waits \in BOOLEAN,
           Allowed(waits, c, k, m, u, q, d)
    PROVE  /\ Allowed(waits, c, k, m, u, Tail(q), d)
           /\ Head(q) \in TasksOf(c, k) => /\ waits /\ Head(q).task = m
                                           /\ Nothing(c, k, u, Tail(q), d)
  <1> DEFINE X == {x \in Entry : x.task = m}
             S == TasksOf(c, k)
  <1>1. Head(q) \in X => Head(q).task = m
    OBVIOUS
  <1>2. /\ None(q, S) => None(Tail(q), S) /\ Head(q) \notin S
        /\ Once(q, S, X) /\ Head(q) \in S => None(Tail(q), S) /\ Head(q) \in X
        /\ Once(q, S, X) /\ Head(q) \notin S => Once(Tail(q), S, X)
    <2> HIDE DEF X, S
    <2> QED BY CountTail
  <1> HIDE DEF X, S
  <1>3. /\ Nothing(c, k, u, q, d) <=> None(u, Requests) /\ None(q, S) /\ None(d, ResponsesTo(c))
        /\ Nothing(c, k, u, Tail(q), d)
              <=> None(u, Requests) /\ None(Tail(q), S) /\ None(d, ResponsesTo(c))
    BY DEF Nothing, S
  <1>4. CASE Nothing(c, k, u, q, d)
    BY <1>2, <1>3, <1>4 DEF Allowed, S
  <1>5. CASE waits /\ Once(u, Requests, {m}) /\ None(q, S) /\ None(d, ResponsesTo(c))
    BY <1>2, <1>5 DEF Allowed, Single, S
  <1>6. CASE waits /\ None(u, Requests) /\ Once(q, S, X) /\ None(d, ResponsesTo(c))
    BY <1>1, <1>2, <1>3, <1>6 DEF Allowed, Single, S, X
  <1>7. CASE /\ waits /\ None(u, Requests) /\ None(q, S)
             /\ Once(d, ResponsesTo(c), {a \in Answered : a.reply.task = m})
    BY <1>2, <1>7 DEF Allowed, Single, S
  <1> QED BY <1>4, <1>5, <1>6, <1>7 DEF Allowed, Single, S, X

\* A task over handle k is answered.
LEMMA FlowAnswer ==
    ASSUME NEW c \in Someone, NEW k, NEW m, NEW u, NEW q \in Seq(Entry), q # <<>>,
           NEW d \in Seq(Answered), NEW waits \in BOOLEAN, Allowed(waits, c, k, m, u, q, d),
           Head(q).task.socket = k, NEW a \in Answered, a.from = Head(q).from,
           a.reply.task = Head(q).task
    PROVE  Allowed(waits, c, k, m, u, Tail(q), Append(d, a))
  <1> DEFINE X == {x \in Answered : x.reply.task = m}
             S == ResponsesTo(c)
  <1>0. Head(q) \in Entry
    BY TailFacts
  <1>1. a \in S <=> Head(q) \in TasksOf(c, k)
    BY <1>0 DEF TasksOf, ResponsesTo
  <1>2. CASE a \in S
    <2>1. waits /\ Head(q).task = m /\ Nothing(c, k, u, Tail(q), d)
      <3>1. Head(q) \in TasksOf(c, k)
        BY <1>1, <1>2
      <3> HIDE DEF X, S
      <3> QED BY <3>1, FlowTake
    <2>2. a \in S \cap X
      BY <1>2, <2>1
    <2>3. None(d, S)
      BY <2>1 DEF Nothing
    <2> HIDE DEF X, S
    <2>4. Once(Append(d, a), S, X)
      BY <2>2, <2>3, CountAppend
    <2> QED BY <2>1, <2>4 DEF Allowed, Nothing, Single, X, S
  <1>3. CASE a \notin S
    <2>1. Allowed(waits, c, k, m, u, Tail(q), d)
      BY FlowTake
    <2> HIDE DEF X, S
    <2>2. /\ None(d, S) => None(Append(d, a), S)
          /\ Once(d, S, X) => Once(Append(d, a), S, X)
      BY <1>3, CountAppend
    <2> QED BY <2>1, <2>2 DEF Allowed, Nothing, Single, X, S
  <1> QED BY <1>2, <1>3

\* A response to c is read.
LEMMA FlowRead ==
    ASSUME NEW c \in Someone, NEW k, NEW m, NEW u, NEW q, NEW d \in Seq(Answered), d # <<>>,
           NEW waits \in BOOLEAN, Allowed(waits, c, k, m, u, q, d), Head(d).from = c
    PROVE  Nothing(c, k, u, q, Tail(d))
  <1> DEFINE X == {x \in Answered : x.reply.task = m}
             S == ResponsesTo(c)
  <1>1. Head(d) \in S
    BY TailFacts DEF ResponsesTo
  <1> HIDE DEF S, X
  <1>2. ~None(d, S) /\ (Once(d, S, X) => None(Tail(d), S))
    BY <1>1, CountTail
  <1> QED BY <1>2 DEF Allowed, Nothing, Single, S, X

\* The tasks of another handle are disowned.
LEMMA FlowDisown ==
    ASSUME NEW c \in Clients, NEW k \in Sockets, NEW j \in Sockets, j # k, NEW m, NEW u,
           NEW q \in Seq(Entry), NEW d, NEW waits \in BOOLEAN, Allowed(waits, c, k, m, u, q, d)
    PROVE  Allowed(waits, c, k, m, u, Disowned(j, q), d)
  <1> DEFINE X == {x \in Entry : x.task = m}
             S == TasksOf(c, k)
             D == Disowned(j, q)
  <1>0. NoClient # c
    BY ClientAssumption
  <1>1. ASSUME NEW i \in 1..Len(q) PROVE D[i] = q[i] \/ (q[i] \notin S /\ D[i] \notin S)
    <2>1. /\ D[i].task = q[i].task
          /\ q[i].task.socket = j => D[i].from = NoClient
          /\ q[i].task.socket # j => D[i] = q[i]
      BY DisownedFacts
    <2> HIDE DEF D
    <2> QED BY <1>0, <2>1 DEF TasksOf
  <1>2. Len(D) = Len(q)
    BY DisownedFacts
  <1> HIDE DEF X, S, D
  <1>3. (None(q, S) => None(D, S)) /\ (Once(q, S, X) => Once(D, S, X))
    BY <1>1, <1>2, CountSame
  <1> QED BY <1>3 DEF Allowed, Nothing, Single, X, S, D

\* What is allowed of given sequences does not change with the state.
LEMMA AllowedSame ==
    ASSUME NEW w, NEW c, NEW k, NEW m, NEW u, NEW q, NEW d, Allowed(w, c, k, m, u, q, d)
    PROVE  Allowed(w, c, k, m, u, q, d)'
  BY Zenon DEF Allowed, Nothing, Single, None, Once, TasksOf, ResponsesTo, Entry, Answered,
               Someone, Requests

\* What a client has under way after a step in which it sends and reads nothing.
LEMMA FlowChanged ==
    ASSUME NEW c, client'[c] = client[c], NEW w \in BOOLEAN, w = (client[c].pc = "await"),
           NEW k, k = client[c].sock,
           Allowed(w, c, k, client[c].command, uplink'[k], RecvPakets', downlink'[k])
    PROVE  Flow(c)'
  <1>1. PICK m, u, q, d : /\ m = client[c].command /\ u = uplink'[k]
                          /\ q = RecvPakets' /\ d = downlink'[k]
    OBVIOUS
  <1>2. Allowed(w, c, k, m, u, q, d)
    BY <1>1
  <1>3. Allowed(w, c, k, m, u, q, d)'
    BY <1>2, AllowedSame
  <1>4. client'[c].sock = k /\ client'[c].command = m /\ w = (client'[c].pc = "await")
    BY <1>1
  <1> QED BY <1>1, <1>3, <1>4 DEF Flow

\* A client over whose connection nothing moves.
LEMMA FlowKept ==
    ASSUME NEW c, Flow(c), client'[c] = client[c], UNCHANGED RecvPakets,
           uplink'[client[c].sock] = uplink[client[c].sock],
           downlink'[client[c].sock] = downlink[client[c].sock]
    PROVE  Flow(c)'
  <1>1. PICK w \in BOOLEAN : w = (client[c].pc = "await")
    OBVIOUS
  <1>2. PICK k : k = client[c].sock
    OBVIOUS
  <1>3. Allowed(w, c, k, client[c].command, uplink[k], RecvPakets, downlink[k])
    BY <1>1, <1>2 DEF Flow
  <1>4. Allowed(w, c, k, client[c].command, uplink'[k], RecvPakets', downlink'[k])
    BY <1>2, <1>3
  <1> QED BY <1>1, <1>2, <1>4, FlowChanged

\* A connection carries one thing of its client at a time.
LEMMA InFlightNext ==
    ASSUME Types, Owned, InFlight, Form
    PROVE  InFlight'
  <1>0. /\ client \in [Clients -> ClientRecord] /\ holder \in [Sockets -> Someone]
        /\ uplink \in [Sockets -> Seq(Requests)] /\ downlink \in [Sockets -> Seq(Answered)]
        /\ RecvPakets \in Seq(Entry)
        /\ NoClient \notin Clients /\ NoSocket \notin Sockets
    BY ClientAssumption, NullsAssumption DEF Types
  <1>a. /\ \A c \in Clients : client[c].sock # NoSocket => holder[client[c].sock] = c
        /\ \A k \in Sockets : holder[k] = NoClient => uplink[k] = <<>> /\ downlink[k] = <<>>
        /\ \A k \in Sockets : Every(uplink[k], PacketsOf(k))
        /\ Every(RecvPakets, SentBy(holder))
    BY DEF Owned, ClientOwn, FreeEmpty, Free, UplinkOwn, QueueOwn
  <1>b. \A c \in Clients : client[c].sock \in Sockets \cup {NoSocket}
    BY <1>0 DEF ClientRecord
  <1> SUFFICES ASSUME NEW c \in Clients, Using(c)' PROVE Flow(c)'
    BY DEF InFlight
  <1>u. client'[c].connected /\ client'[c].sock # NoSocket /\ ~client'[c].misled
    BY DEF Using
  <1>f. Using(c) => Flow(c)
    BY DEF InFlight
  <1>c. ASSUME client'[c] = client[c]
        PROVE  Flow(c) /\ client[c].sock \in Sockets /\ holder[client[c].sock] = c
    BY <1>a, <1>b, <1>c, <1>f, <1>u DEF Using
  <1>1. ASSUME NEW b \in Clients, Quiet(b) PROVE Flow(c)'
    <2>1. PICK r : NewRecord(b, r) /\ ~r.connected
      BY <1>1 DEF Quiet
    <2>2. c # b
      BY <1>0, <1>u, <2>1 DEF NewRecord
    <2>3. client'[c] = client[c]
      BY <1>0, <2>1, <2>2 DEF NewRecord
    <2> QED BY <1>1, <1>c, <2>3, FlowKept DEF Quiet
  <1>2. ASSUME NEW b \in Clients, NEW k \in Sockets, Connects(b, k) PROVE Flow(c)'
    <2>1. PICK r : NewRecord(b, r) /\ r.sock = k /\ r.pc # "await"
      BY <1>2 DEF Connects
    <2>2. holder[k] = NoClient /\ UNCHANGED <<uplink, downlink, RecvPakets>>
      BY <1>2 DEF Connects, Free
    <2>3. CASE c # b
      <3>1. client'[c] = client[c]
        BY <1>0, <2>1, <2>3 DEF NewRecord
      <3> QED BY <1>c, <2>2, <3>1, FlowKept
    <2>4. CASE c = b
      <3>1. client'[c].sock = k
        BY <1>0, <2>1, <2>4 DEF NewRecord
      <3>2. uplink[k] = <<>> /\ downlink[k] = <<>>
        BY <1>a, <2>2
      <3>3. None(RecvPakets, TasksOf(c, k))
        BY <1>0, <1>a, <2>2 DEF None, Every, SentBy, TasksOf
      <3>4. \A S : None(<<>>, S)
        BY DEF None
      <3>5. Nothing(c, k, uplink'[k], RecvPakets', downlink'[k])
        BY <2>2, <3>2, <3>3, <3>4 DEF Nothing
      <3> QED BY <3>1, <3>5 DEF Flow, Allowed, Nothing, None, TasksOf, ResponsesTo, Entry,
                                Answered, Someone, Requests
    <2> QED BY <2>3, <2>4
  <1>3. ASSUME NEW b \in Clients, NEW k \in Sockets, NEW m \in Requests, Sends(b, k, m)
        PROVE  Flow(c)'
    <2>1. PICK r : /\ NewRecord(b, r)
                   /\ r.sock = k /\ r.pc = "await" /\ r.command = m
                   /\ r.misled = client[b].misled
      BY <1>3 DEF Sends
    <2>2. /\ client[b].connected /\ client[b].sock = k /\ client[b].pc # "await"
          /\ uplink' = [uplink EXCEPT ![k] = Append(@, m)]
          /\ UNCHANGED <<holder, downlink, RecvPakets>>
      BY <1>3 DEF Sends
    <2>3. CASE c # b
      <3>1. client'[c] = client[c]
        BY <1>0, <2>1, <2>3 DEF NewRecord
      <3>2. client[c].sock # k
        BY <1>0, <1>a, <1>c, <2>2, <2>3, <3>1
      <3>3. uplink'[client[c].sock] = uplink[client[c].sock]
        BY <1>0, <1>c, <2>2, <3>1, <3>2
      <3> QED BY <1>c, <2>2, <3>1, <3>3, FlowKept
    <2>4. CASE c = b
      <3>1. /\ client'[c].sock = k /\ client'[c].pc = "await" /\ client'[c].command = m
            /\ client'[c].misled = client[c].misled
        BY <1>0, <2>1, <2>4 DEF NewRecord
      <3>2. Using(c)
        BY <1>0, <1>u, <2>2, <2>4, <3>1 DEF Using
      <3>3. Allowed(FALSE, c, k, client[c].command, uplink[k], RecvPakets, downlink[k])
        BY <1>f, <2>2, <2>4, <3>2 DEF Flow, Allowed
      <3>4. Allowed(TRUE, c, k, m, Append(uplink[k], m), RecvPakets, downlink[k])
        BY <1>0, <3>3, FlowSend
      <3>5. Allowed(TRUE, c, k, m, uplink'[k], RecvPakets', downlink'[k])
        BY <1>0, <2>2, <3>4
      <3> QED BY <3>1, <3>5 DEF Flow, Allowed, Nothing, Single, None, Once, TasksOf,
                                ResponsesTo, Entry, Answered, Someone, Requests
    <2> QED BY <2>3, <2>4
  <1>4. ASSUME NEW b \in Clients, NEW k \in Sockets, Reads(b, k) PROVE Flow(c)'
    <2>1. PICK r : /\ NewRecord(b, r)
                   /\ r.sock = k /\ r.connected = client[b].connected
                   /\ r.misled = (client[b].misled \/ Head(downlink[k]).from # b)
      BY <1>4 DEF Reads
    <2>2. /\ client[b].sock = k /\ downlink[k] # <<>>
          /\ downlink' = [downlink EXCEPT ![k] = Tail(@)]
          /\ UNCHANGED <<holder, uplink, RecvPakets>>
      BY <1>4 DEF Reads
    <2>3. CASE c # b
      <3>1. client'[c] = client[c]
        BY <1>0, <2>1, <2>3 DEF NewRecord
      <3>2. client[c].sock # k
        BY <1>0, <1>a, <1>c, <2>2, <2>3, <3>1
      <3>3. downlink'[client[c].sock] = downlink[client[c].sock]
        BY <1>0, <1>c, <2>2, <3>1, <3>2
      <3> QED BY <1>c, <2>2, <3>1, <3>3, FlowKept
    <2>4. CASE c = b
      <3>1. /\ client'[c].sock = k /\ client'[c].connected = client[c].connected
            /\ client'[c].misled = (client[c].misled \/ Head(downlink[k]).from # c)
        BY <1>0, <2>1, <2>4 DEF NewRecord
      <3>2. ~client[c].misled /\ Head(downlink[k]).from = c
        BY <1>u, <3>1
      <3>3. Using(c)
        BY <1>0, <1>u, <2>2, <2>4, <3>1, <3>2 DEF Using
      <3>4. PICK w \in BOOLEAN : w = (client[c].pc = "await")
        OBVIOUS
      <3>5. Allowed(w, c, k, client[c].command, uplink[k], RecvPakets, downlink[k])
        BY <1>f, <2>2, <2>4, <3>3, <3>4 DEF Flow
      <3>6. Nothing(c, k, uplink[k], RecvPakets, Tail(downlink[k]))
        BY <1>0, <2>2, <3>2, <3>5, FlowRead DEF Someone
      <3>7. Nothing(c, k, uplink'[k], RecvPakets', downlink'[k])
        BY <1>0, <2>2, <3>6
      <3> QED BY <3>1, <3>7 DEF Flow, Allowed, Nothing, None, TasksOf, ResponsesTo, Entry,
                                Answered, Someone, Requests
    <2> QED BY <2>3, <2>4
  <1> DEFINE j == client[c].sock
             n == client[c].command
  <1>d. ASSUME client'[c] = client[c]
        PROVE  \E w \in BOOLEAN : /\ w = (client[c].pc = "await")
                                  /\ Allowed(w, c, j, n, uplink[j], RecvPakets, downlink[j])
    BY <1>c, <1>d DEF Flow
  <1>j. j = client[c].sock /\ n = client[c].command
    OBVIOUS
  <1>e. ASSUME client'[c] = client[c], NEW w \in BOOLEAN, w = (client[c].pc = "await"),
               Allowed(w, c, j, n, uplink'[j], RecvPakets', downlink'[j])
        PROVE  Flow(c)'
    BY <1>e, FlowChanged
  <1> HIDE DEF j, n
  <1>5. ASSUME NEW k \in Sockets, Receives(k) PROVE Flow(c)'
    <2> DEFINE e == [task |-> Head(uplink[k]), from |-> holder[k]]
    <2>1. /\ uplink[k] # <<>> /\ client' = client /\ downlink' = downlink
          /\ uplink' = [uplink EXCEPT ![k] = Tail(@)]
          /\ RecvPakets' = Append(RecvPakets, e)
      BY <1>5 DEF Receives
    <2>2. j \in Sockets /\ holder[j] = c
      BY <1>c, <1>j, <2>1
    <2>3. Head(uplink[k]) \in PacketsOf(k)
      BY <1>0, <1>a, <2>1, EveryFacts
    <2>4. e \in Entry /\ e.task.socket = k
      BY <1>0, <2>3 DEF PacketsOf, Requests, Entry
    <2>5. PICK w \in BOOLEAN : /\ w = (client[c].pc = "await")
                               /\ Allowed(w, c, j, n, uplink[j], RecvPakets, downlink[j])
      BY <1>d, <2>1
    <2>6. CASE j = k
      <3>1. Allowed(w, c, j, n, Tail(uplink[j]), Append(RecvPakets, e), downlink[j])
        BY <1>0, <2>1, <2>2, <2>3, <2>5, <2>6, FlowReceive DEF Someone, PacketsOf
      <3>2. Allowed(w, c, j, n, uplink'[j], RecvPakets', downlink'[j])
        BY <1>0, <2>1, <2>2, <2>6, <3>1
      <3> QED BY <1>e, <2>1, <2>5, <3>2
    <2>7. CASE j # k
      <3>1. e \notin TasksOf(c, j)
        BY <2>4, <2>7 DEF TasksOf
      <3> HIDE DEF e
      <3>2. Allowed(w, c, j, n, uplink[j], Append(RecvPakets, e), downlink[j])
        BY <1>0, <2>4, <2>5, <3>1, FlowAppend
      <3>3. Allowed(w, c, j, n, uplink'[j], RecvPakets', downlink'[j])
        BY <1>0, <2>1, <2>2, <2>7, <3>2
      <3> QED BY <1>e, <2>1, <2>5, <3>3
    <2> QED BY <2>6, <2>7
  <1>6. ASSUME NEW k \in Sockets, Answers(k) PROVE Flow(c)'
    <2> DEFINE h == Head(RecvPakets)
               a == [reply |-> reply', from |-> h.from]
    <2>1. /\ RecvPakets # <<>> /\ h.task.socket = k /\ RecvPakets' = Tail(RecvPakets)
          /\ reply' \in Reply /\ reply'.task = h.task
          /\ downlink' = [downlink EXCEPT ![k] = Append(@, a)]
          /\ client' = client /\ uplink' = uplink
      BY <1>6 DEF Answers
    <2>2. a \in Answered /\ a.from = h.from /\ a.reply.task = h.task
      BY <2>1, First DEF Answered
    <2>3. PICK w \in BOOLEAN : /\ w = (client[c].pc = "await")
                               /\ Allowed(w, c, j, n, uplink[j], RecvPakets, downlink[j])
      BY <1>d, <2>1
    <2>4. j \in Sockets /\ c \in Someone
      BY <1>c, <1>j, <2>1 DEF Someone
    <2>5. CASE j = k
      <3>1. Head(RecvPakets).task.socket = j
        BY <2>1, <2>5
      <3>2. a.from = Head(RecvPakets).from /\ a.reply.task = Head(RecvPakets).task
        BY <2>2
      <3> HIDE DEF a
      <3>3. Allowed(w, c, j, n, uplink[j], Tail(RecvPakets), Append(downlink[j], a))
        BY <1>0, <2>1, <2>2, <2>3, <2>4, <3>1, <3>2, FlowAnswer
      <3>4. Allowed(w, c, j, n, uplink'[j], RecvPakets', downlink'[j])
        BY <1>0, <2>1, <2>4, <2>5, <3>3
      <3> QED BY <1>e, <2>1, <2>3, <3>4
    <2>6. CASE j # k
      <3>1. Allowed(w, c, j, n, uplink[j], Tail(RecvPakets), downlink[j])
        BY <1>0, <2>1, <2>3, FlowTake
      <3>2. Allowed(w, c, j, n, uplink'[j], RecvPakets', downlink'[j])
        BY <1>0, <2>1, <2>4, <2>6, <3>1
      <3> QED BY <1>e, <2>1, <2>3, <3>2
    <2> QED BY <2>5, <2>6
  <1>7. ASSUME Drops PROVE Flow(c)'
    <2>1. /\ RecvPakets # <<>> /\ RecvPakets' = Tail(RecvPakets)
          /\ client' = client /\ uplink' = uplink /\ downlink' = downlink
      BY <1>7 DEF Drops
    <2>2. PICK w \in BOOLEAN : /\ w = (client[c].pc = "await")
                               /\ Allowed(w, c, j, n, uplink[j], RecvPakets, downlink[j])
      BY <1>d, <2>1
    <2>3. Allowed(w, c, j, n, uplink[j], Tail(RecvPakets), downlink[j])
      BY <1>0, <2>1, <2>2, FlowTake
    <2>4. Allowed(w, c, j, n, uplink'[j], RecvPakets', downlink'[j])
      BY <2>1, <2>3
    <2> QED BY <1>e, <2>1, <2>2, <2>4
  <1>8. ASSUME NEW k \in Sockets, NEW queue, Rest(k, queue), Remove(k, queue) PROVE Flow(c)'
    <2>1. queue \in Seq(Entry)
      BY <1>8, RestFacts
    <2>2. /\ \/ client[c].sock = k /\ client'[c] = [client[c] EXCEPT !.sock = NoSocket]
             \/ client[c].sock # k /\ client'[c] = client[c]
          /\ Disconnection(k) \in Entry
          /\ RecvPakets' = Append(Disowned(k, queue), Disconnection(k))
      BY <1>8, <2>1, RemoveFacts
    <2>3. client[c] \in ClientRecord
      BY <1>0
    <2>4. client[c].sock # k /\ client'[c] = client[c]
      BY <1>u, <2>2, <2>3 DEF ClientRecord
    <2>5. j \in Sockets /\ j # k
      BY <1>c, <1>j, <2>4
    <2>6. PICK w \in BOOLEAN : /\ w = (client[c].pc = "await")
                               /\ Allowed(w, c, j, n, uplink[j], RecvPakets, downlink[j])
      BY <1>d, <2>4
    <2>7. Allowed(w, c, j, n, uplink[j], queue, downlink[j])
      <3>1. CASE queue = RecvPakets
        BY <2>6, <3>1
      <3>2. CASE RecvPakets # <<>> /\ queue = Tail(RecvPakets)
        <4>1. Allowed(w, c, j, n, uplink[j], Tail(RecvPakets), downlink[j])
          BY <1>0, <2>6, <3>2, FlowTake
        <4> QED BY <3>2, <4>1
      <3> QED BY <1>8, <3>1, <3>2 DEF Rest
    <2>8. Allowed(w, c, j, n, uplink[j], Disowned(k, queue), downlink[j])
      BY <2>1, <2>5, <2>7, FlowDisown
    <2>9. Disowned(k, queue) \in Seq(Entry)
      BY <2>1, DisownedFacts
    <2>10. Disconnection(k) \notin TasksOf(c, j)
      BY <2>5 DEF Disconnection, TasksOf
    <2>11. Allowed(w, c, j, n, uplink[j], RecvPakets', downlink[j])
      BY <2>2, <2>8, <2>9, <2>10, FlowAppend
    <2>12. uplink'[j] = uplink[j] /\ downlink'[j] = downlink[j]
      BY <1>0, <1>8, <2>5 DEF Remove
    <2>13. Allowed(w, c, j, n, uplink'[j], RecvPakets', downlink'[j])
      BY <2>11, <2>12
    <2> QED BY <1>e, <2>4, <2>6, <2>13
  <1>9. ASSUME Still PROVE Flow(c)'
    BY <1>9, <1>c, FlowKept DEF Still
  <1> QED BY <1>1, <1>2, <1>3, <1>4, <1>5, <1>6, <1>7, <1>8, <1>9 DEF Form

\* It holds in every state.
LEMMA InFlightHolds == ClientSpec => []InFlight
  <1>1. ClientInit => InFlight
    BY DEF ClientInit, InFlight, Using, NewProcess
  <1>2. Types /\ Owned /\ InFlight /\ [ClientNext]_allVars => InFlight'
    <2>1. Types /\ Owned /\ [ClientNext]_allVars => Form
      BY Forms DEF Owned
    <2> QED BY <2>1, InFlightNext
  <1> QED BY <1>1, <1>2, OwnedHolds, PTL DEF ClientSpec

\* An element that is counted.
LEMMA Counted ==
    ASSUME NEW T, NEW s \in Seq(T), NEW x \in Range(s), NEW S, x \in S, NEW X
    PROVE  ~None(s, S) /\ (Once(s, S, X) => x \in X)
  <1>1. PICK i \in 1..Len(s) : s[i] = x
    BY DEF Range
  <1>2. ~None(s, S)
    BY <1>1 DEF None
  <1>3. ASSUME Once(s, S, X) PROVE x \in X
    <2>1. PICK j \in 1..Len(s) : s[j] \in S \cap X /\ \A l \in 1..Len(s) : s[l] \in S => l = j
      BY <1>3 DEF Once
    <2> QED BY <1>1, <2>1
  <1> QED BY <1>2, <1>3

\* The response that a client which has not been given a stranger's reads next answers the
\* last request it has sent, whatever was late, lost or given up before: nothing else of it is
\* under way over its connection.
THEOREM AnswersAreOwn == ClientSpec => []OwnAnswer
  <1>1. Types /\ Owned /\ InFlight => OwnAnswer
    <2> SUFFICES ASSUME Types, Owned, InFlight, NEW c \in Clients, Using(c)
                 PROVE  UnderWay(c, client[c].sock) \subseteq
                           IF client[c].pc = "await" THEN {client[c].command} ELSE {}
      BY DEF OwnAnswer, Using
    <2> DEFINE k == client[c].sock
               m == client[c].command
    <2>1. k \in Sockets /\ holder[k] = c
      BY DEF Types, ClientRecord, Owned, ClientOwn, Using
    <2>2. /\ uplink[k] \in Seq(Requests) /\ downlink[k] \in Seq(Answered)
          /\ RecvPakets \in Seq(Entry)
      BY <2>1 DEF Types
    <2>3. Allowed(client[c].pc = "await", c, k, m, uplink[k], RecvPakets, downlink[k])
      BY DEF InFlight, Flow
    <2> SUFFICES ASSUME NEW x \in UnderWay(c, k)
                 PROVE  client[c].pc = "await" /\ x = m
      OBVIOUS
    <2> HIDE DEF k, m
    <2>4. CASE x \in Range(uplink[k])
      <3>1. x \in Requests
        BY <2>2, <2>4 DEF Range
      <3>2. ~None(uplink[k], Requests) /\ (Once(uplink[k], Requests, {m}) => x \in {m})
        BY <2>2, <2>4, <3>1, Counted
      <3> QED BY <2>3, <3>2 DEF Allowed, Nothing, Single
    <2>5. ASSUME NEW e \in Range(RecvPakets), e.from = c, e.task.socket = k, x = e.task
          PROVE  client[c].pc = "await" /\ x = m
      <3> DEFINE X == {y \in Entry : y.task = m}
      <3>1. e \in TasksOf(c, k)
        BY <2>2, <2>5 DEF Range, TasksOf
      <3> HIDE DEF X
      <3>2. /\ ~None(RecvPakets, TasksOf(c, k))
            /\ Once(RecvPakets, TasksOf(c, k), X) => e \in X
        BY <2>2, <3>1, Counted
      <3> QED BY <2>3, <2>5, <3>2 DEF Allowed, Nothing, Single, X
    <2>6. ASSUME NEW r \in Range(downlink[k]), r.from = c, x = r.reply.task
          PROVE  client[c].pc = "await" /\ x = m
      <3> DEFINE X == {y \in Answered : y.reply.task = m}
      <3>1. r \in ResponsesTo(c)
        BY <2>2, <2>6 DEF Range, ResponsesTo
      <3> HIDE DEF X
      <3>2. /\ ~None(downlink[k], ResponsesTo(c))
            /\ Once(downlink[k], ResponsesTo(c), X) => r \in X
        BY <2>2, <3>1, Counted
      <3> QED BY <2>3, <2>6, <3>2 DEF Allowed, Nothing, Single, X
    <2> QED BY <2>4, <2>5, <2>6 DEF UnderWay
  <1> QED BY <1>1, OwnedHolds, InFlightHolds, PTL

-----------------------------------------------------------------------------
(* Sessions of clients.                                                    *)

\* As long as a client keeps its handle, no task of a former holder comes into the queue.
LEMMA SettledNext ==
    ASSUME Types, Owned, [ClientNext]_allVars, NEW c \in Clients, client[c].sock # NoSocket,
           client'[c].sock = client[c].sock, Settled(client[c].sock)
    PROVE  Settled(client[c].sock)'
  <1> DEFINE k == client[c].sock
             S == {e \in Entry : e.task.socket = k => e.from = c}
  <1>0. /\ client \in [Clients -> ClientRecord] /\ holder \in [Sockets -> Someone]
        /\ uplink \in [Sockets -> Seq(Requests)] /\ RecvPakets \in Seq(Entry)
        /\ NoClient \notin Clients /\ NoSocket \notin Sockets
    BY ClientAssumption, NullsAssumption DEF Types
  <1>1. k \in Sockets /\ holder[k] = c
    BY <1>0 DEF ClientRecord, Owned, ClientOwn
  <1>2. Every(RecvPakets, S)
    BY <1>0, <1>1 DEF Settled, Every, Range
  <1>3. Form /\ RecvPakets' \in Seq(Entry)
    BY Forms, TypesNext DEF Owned, Types
  <1>4. client'[c].sock = k /\ client[c].sock = k
    OBVIOUS
  <1>5. ASSUME holder'[k] = c, Every(RecvPakets', S) PROVE Settled(client[c].sock)'
    BY <1>3, <1>4, <1>5 DEF Settled, Every, Range
  <1> DEFINE Good == holder'[k] = c /\ Every(RecvPakets', S)
  <1>6. \A e \in Entry : e \in S <=> (e.task.socket = k => e.from = c)
    OBVIOUS
  <1> HIDE DEF k, S
  <1>7. ASSUME UNCHANGED <<holder, RecvPakets>> PROVE Good
    BY <1>1, <1>2, <1>7
  <1>8. ASSUME NEW b \in Clients, NEW j \in Sockets, Connects(b, j) PROVE Good
    BY <1>0, <1>1, <1>2, <1>8 DEF Connects, Free
  <1>9. ASSUME NEW j \in Sockets, Receives(j) PROVE Good
    <2> DEFINE e == [task |-> Head(uplink[j]), from |-> holder[j]]
    <2>1. holder' = holder /\ uplink[j] # <<>> /\ RecvPakets' = Append(RecvPakets, e)
      BY <1>9 DEF Receives
    <2>2. Head(uplink[j]) \in PacketsOf(j)
      BY <1>0, <2>1, EveryFacts DEF Owned, UplinkOwn
    <2>3. e \in Entry /\ e.task.socket = j /\ e.from = holder[j]
      BY <1>0, <2>2 DEF PacketsOf, Requests, Entry
    <2>4. e \in S
      BY <1>1, <1>6, <2>3
    <2> HIDE DEF e
    <2> QED BY <1>0, <1>1, <1>2, <2>1, <2>3, <2>4, EveryFacts
  <1>10. ASSUME RecvPakets # <<>>, RecvPakets' = Tail(RecvPakets), holder' = holder
         PROVE  Good
    BY <1>0, <1>1, <1>2, <1>10, EveryFacts
  <1>11. ASSUME NEW j \in Sockets, NEW queue, Rest(j, queue), Remove(j, queue) PROVE Good
    <2>1. queue \in Seq(Entry) /\ Every(queue, S)
      BY <1>2, <1>11, RestFacts DEF Every
    <2>2. /\ \/ client[c].sock = j /\ client'[c] = [client[c] EXCEPT !.sock = NoSocket]
             \/ client[c].sock # j /\ client'[c] = client[c]
          /\ Disconnection(j) \in Entry
          /\ RecvPakets' = Append(Disowned(j, queue), Disconnection(j))
      BY <1>11, <2>1, RemoveFacts
    <2>3. client[c] \in ClientRecord
      BY <1>0
    <2>4. j # k
      BY <1>0, <1>1, <1>4, <2>2, <2>3 DEF ClientRecord
    <2>5. holder'[k] = c
      BY <1>0, <1>1, <1>11, <2>4 DEF Remove
    <2>6. Disconnection(j) \in S
      BY <1>6, <2>2, <2>4 DEF Disconnection
    <2>7. ASSUME NEW i \in 1..Len(queue) PROVE Disowned(j, queue)[i] \in S
      <3> DEFINE d == Disowned(j, queue)[i]
      <3>1. /\ d \in Entry /\ d.task = queue[i].task
            /\ queue[i].task.socket # j => d = queue[i]
        BY <2>1, DisownedFacts
      <3>2. queue[i] \in S
        BY <2>1 DEF Every
      <3> HIDE DEF d
      <3>3. d \in S
        BY <1>6, <2>4, <3>1, <3>2
      <3> QED BY <3>3 DEF d
    <2>8. Disowned(j, queue) \in Seq(Entry) /\ Every(Disowned(j, queue), S)
      BY <2>1, <2>7, DisownedFacts DEF Every
    <2> QED BY <2>2, <2>5, <2>6, <2>8, EveryFacts
  <1> HIDE DEF Good
  <1>12. Good
    BY <1>3, <1>7, <1>8, <1>9, <1>10, <1>11
       DEF Form, Quiet, Reads, Sends, Answers, Drops, Still
  <1> QED BY <1>5, <1>12 DEF Good

\* The session of a client that shows one ends with its connection, or by a login or logout
\* of that account: no disconnection of another client's, and no request of another account,
\* ends it.
THEOREM SessionsEndByName == ClientSpec => SessionEndsByName
  <1>1. Types /\ Owned /\ [ClientNext]_allVars =>
           [\A c \in Clients :
              LoggedIn(c) /\ ~LoggedIn(c)' =>
                  \/ client'[c].user # client[c].user
                  \/ client'[c].sock # client[c].sock
                  \/ Concerns(Head(RecvPakets).task, client[c].user)]_allVars
    <2> SUFFICES ASSUME Types, Owned, [ClientNext]_allVars, NEW c \in Clients, LoggedIn(c),
                        client'[c].user = client[c].user, client'[c].sock = client[c].sock,
                        ~Concerns(Head(RecvPakets).task, client[c].user)
                 PROVE  LoggedIn(c)'
      OBVIOUS
    <2> DEFINE u == client[c].user
               k == client[c].sock
               t == Head(RecvPakets).task
    <2>1. u \in UserIds /\ k \in Sockets
      BY DEF Types, ClientRecord, LoggedIn
    <2>2. holder[k] = c /\ c # NoClient
      BY <2>1, ClientAssumption, NullsAssumption DEF Owned, ClientOwn
    <2>3. Settled(k)'
      BY <2>1, NullsAssumption, SettledNext DEF LoggedIn
    <2>4. user_sessions[u] = NewSession(k)
      BY DEF LoggedIn
    <2>5. CASE UNCHANGED tables
      BY <2>3, <2>5 DEF LoggedIn, tables, NewSession
    <2>6. CASE Handle
      <3>1. RecvPakets # <<>> /\ ProcessTask(t)
        BY <2>6 DEF Handle
      <3>2. t \in Tasks /\ Head(RecvPakets) = RecvPakets[1] /\ 1 \in 1..Len(RecvPakets)
        BY <3>1, First
      <3>3. TypeOK
        BY DEF Types
      <3>4. ~(t.kind = "ClientDisconnected" /\ u \in OnlineAt(t.socket))
        <4> SUFFICES ASSUME t.kind = "ClientDisconnected", u \in OnlineAt(t.socket) PROVE FALSE
          OBVIOUS
        <4>1. t.socket = k
          BY <2>4 DEF OnlineAt, NewSession
        <4>2. Head(RecvPakets) \in SentBy(holder)
          BY <3>2 DEF Owned, QueueOwn, Every
        <4>3. Head(RecvPakets).from = NoClient
          BY <4>2 DEF SentBy
        <4>4. RecvPakets \in Seq(Entry)
          BY DEF Types
        <4>5. Head(RecvPakets).from = holder[k]
          BY <3>2, <4>1, <4>4 DEF LoggedIn, Settled, Range
        <4> QED BY <2>2, <4>3, <4>5
      <3>5. user_sessions'[u] = user_sessions[u]
        BY <2>1, <3>1, <3>2, <3>3, <3>4, SessionByKind DEF Concerns
      <3> QED BY <2>3, <2>4, <3>5 DEF LoggedIn, NewSession
    <2> QED BY <2>5, <2>6, TablesStep
  <1> QED BY <1>1, OwnedHolds, PTL DEF ClientSpec, SessionEndsByName

-----------------------------------------------------------------------------
(* The account a client shows.                                             *)

\* c does not get to show an account, and waits only over a connection in use
Tame(c) ==
    /\ client'[c].user \in {client[c].user, NoId}
    /\ client'[c].pc = "await" => \/ client'[c].connected
                                  \/ /\ client[c].pc = "await"
                                     /\ client'[c].connected = client[c].connected

\* A client that is left alone, or changed so, is tame.
LEMMA TameRecord ==
    ASSUME client \in [Clients -> ClientRecord], NEW c \in Clients, NEW d \in Clients, NEW r,
           client' = [client EXCEPT ![d] = r], r.user \in {client[d].user, NoId},
           r.pc = "await" => r.connected
    PROVE  Tame(c)
  <1>1. CASE c = d
    BY <1>1 DEF Tame
  <1>2. CASE c # d
    <2>1. client'[c] = client[c]
      BY <1>2
    <2> QED BY <2>1 DEF Tame
  <1> QED BY <1>1, <1>2

\* Only a response lets a client show another account.
LEMMA Responses ==
    ASSUME Types, [ClientNext]_allVars, NEW c \in Clients
    PROVE  Response(c) \/ Tame(c)
  <1>0. client \in [Clients -> ClientRecord]
    BY DEF Types
  <1>1. ASSUME NEW d \in Clients, NEW then, Connect(d, then), then # "await" PROVE Tame(c)
    <2>1. PICK k : client' = [client EXCEPT ![d].sock = k, ![d].connected = TRUE,
                                            ![d].pc = then, ![d].misled = FALSE]
      BY <1>1 DEF Connect
    <2> DEFINE r == [client[d] EXCEPT !.sock = k, !.connected = TRUE, !.pc = then,
                                      !.misled = FALSE]
    <2>2. client' = [client EXCEPT ![d] = r]
      BY <1>0, <2>1, Records, Zenon
    <2>3. r.user = client[d].user /\ r.pc = then
      BY <1>0 DEF ClientRecord
    <2> HIDE DEF r
    <2> QED BY <1>0, <1>1, <2>2, <2>3, TameRecord
  <1>2. ASSUME NEW d \in Clients, NEW then, NoConnection(d, then), then # "await" PROVE Tame(c)
    <2> DEFINE r == [client[d] EXCEPT !.sock = NoSocket, !.connected = FALSE, !.pc = then]
    <2>1. client' = [client EXCEPT ![d] = r]
      BY <1>0, <1>2, Records, Zenon DEF NoConnection
    <2>2. r.user = client[d].user /\ r.pc = then
      BY <1>0 DEF ClientRecord
    <2> HIDE DEF r
    <2> QED BY <1>0, <1>2, <2>1, <2>2, TameRecord
  <1>3. ASSUME NEW d \in Clients, NEW t, SendPacket(d, t) PROVE Tame(c)
    <2> DEFINE m == [t EXCEPT !.socket = client[d].sock]
               r == [client[d] EXCEPT !.pc = "await", !.command = m]
    <2>1. client[d].connected
          /\ client' = [client EXCEPT ![d].pc = "await", ![d].command = m]
      BY <1>3 DEF SendPacket
    <2> HIDE DEF m
    <2>2. client' = [client EXCEPT ![d] = r]
      BY <1>0, <2>1 DEF ClientRecord
    <2>3. r.user = client[d].user /\ r.connected = client[d].connected
      BY <1>0 DEF ClientRecord
    <2> HIDE DEF r
    <2> QED BY <1>0, <2>1, <2>2, <2>3, TameRecord
  <1>4. ASSUME NEW d \in Clients, NEW t, NEW then, SendFails(d, t, then), then # "await"
        PROVE  Tame(c)
    <2> DEFINE r == [client[d] EXCEPT !.pc = then, !.connected = FALSE, !.command = t]
    <2>1. client' = [client EXCEPT ![d].pc = then, ![d].connected = FALSE, ![d].command = t]
      BY <1>4 DEF SendFails
    <2>2. client' = [client EXCEPT ![d] = r]
      BY <1>0, <2>1 DEF ClientRecord
    <2>3. r.user = client[d].user /\ r.pc = then
      BY <1>0 DEF ClientRecord
    <2> HIDE DEF r
    <2> QED BY <1>0, <1>4, <2>2, <2>3, TameRecord
  <1>5. ASSUME NEW d \in Clients, NoResponse(d) PROVE Tame(c)
    <2> DEFINE then == AfterReceive(d)
               r == [client[d] EXCEPT !.pc = then, !.connected = FALSE, !.command = NoCommand]
    <2>1. client' = [client EXCEPT ![d].pc = then, ![d].connected = FALSE,
                                   ![d].command = NoCommand]
      BY <1>5 DEF NoResponse
    <2>2. then # "await"
      BY DEF AfterReceive
    <2> HIDE DEF then
    <2>3. client' = [client EXCEPT ![d] = r]
      BY <1>0, <2>1 DEF ClientRecord
    <2>4. r.user = client[d].user /\ r.pc = then
      BY <1>0 DEF ClientRecord
    <2> HIDE DEF r
    <2> QED BY <1>0, <2>2, <2>3, <2>4, TameRecord
  <1>6. ASSUME NEW d \in Clients, Exit(d) PROVE Tame(c)
    <2>1. client' = [client EXCEPT ![d] = NewProcess]
      BY <1>6 DEF Exit
    <2>2. NewProcess.user = NoId /\ NewProcess.pc # "await"
      BY DEF NewProcess
    <2> QED BY <1>0, <2>1, <2>2, TameRecord
  <1>7. ASSUME NEW d \in Clients, Response(d), d # c PROVE Tame(c)
    <2>1. PICK r : client' = [client EXCEPT ![d] = r]
      BY <1>7 DEF Response
    <2>2. client'[c] = client[c]
      BY <1>0, <1>7, <2>1
    <2> QED BY <2>2 DEF Tame
  <1>8. ASSUME client' = client PROVE Tame(c)
    BY <1>8 DEF Tame
  <1>9. ASSUME NEW k, NEW queue, Remove(k, queue) PROVE Tame(c)
    <2>1. client[c] \in ClientRecord
      BY <1>0
    <2>2. client'[c] \in {client[c], [client[c] EXCEPT !.sock = NoSocket]}
      BY <1>9 DEF Remove
    <2>3. /\ client'[c].user = client[c].user /\ client'[c].pc = client[c].pc
          /\ client'[c].connected = client[c].connected
      BY <2>1, <2>2 DEF ClientRecord
    <2> QED BY <2>3 DEF Tame
  <1> HIDE DEF Tame
  <1>10. CASE Server
    <2>1. CASE Handle
      BY <1>8, <1>9, <2>1 DEF Handle, Answer
    <2>2. ASSUME NEW k \in Sockets, Receive(k) PROVE Tame(c)
      BY <1>8, <2>2 DEF Receive
    <2>3. ASSUME NEW k \in Sockets, NoticeEnd(k) PROVE Tame(c)
      <3>1. Remove(k, RecvPakets)
        BY <2>3, Zenon DEF NoticeEnd
      <3> QED BY <1>9, <3>1
    <2> QED BY <1>10, <2>1, <2>2, <2>3 DEF Server
  <1>11. CASE UNCHANGED allVars
    BY <1>8, <1>11 DEF allVars, clientVars
  <1>12. ASSUME NEW d \in Clients, Start(d) \/ Reconnect(d) \/ TryReconnect(d) PROVE Tame(c)
    <2>1. CASE Start(d)
      BY <1>1, <1>2, <2>1, Zenon DEF Start, ConnectFails
    <2>2. CASE Reconnect(d)
      BY <1>2, <2>2, Zenon DEF Reconnect
    <2>3. CASE TryReconnect(d)
      BY <1>1, <1>2, <2>3, Zenon DEF TryReconnect, ConnectFails
    <2> QED BY <1>12, <2>1, <2>2, <2>3
  <1>13. ASSUME NEW d \in Clients, NEW t, Issue(d, t) \/ SendAgain(d) PROVE Tame(c)
    BY <1>3, <1>4, <1>13, Zenon DEF Issue, SendAgain
  <1>14. ASSUME NEW d \in Clients, Proceed(d) PROVE Response(c) \/ Tame(c)
    BY <1>5, <1>7, <1>12, <1>13, <1>14, Zenon DEF Proceed
  <1>15. ASSUME ClientNext PROVE Response(c) \/ Tame(c)
    BY <1>6, <1>10, <1>12, <1>13, <1>14, <1>15, Zenon DEF ClientNext
  <1> QED BY <1>11, <1>15, Zenon

\* responses to logins that succeeded, for accounts of the name asked for in u
NamedIn(u) == {a \in Answered : a.reply.task.kind = "Login" /\ a.reply.result = "SUCCESS"
                                => a.reply.id \in UserIds /\ u[a.reply.id] = a.reply.task.name}

AwaitConnected == \A c \in Clients : client[c].pc = "await" => client[c].connected
NamesKept == \A k \in Sockets : Every(downlink[k], NamedIn(users))

Shown == AwaitConnected /\ NamesKept /\ Truthful

\* A client waits only over a connection it takes to be open.
LEMMA AwaitNext == Types /\ AwaitConnected /\ [ClientNext]_allVars => AwaitConnected'
  <1> SUFFICES ASSUME Types, AwaitConnected, [ClientNext]_allVars, NEW c \in Clients,
                      client'[c].pc = "await"
               PROVE  client'[c].connected
    BY DEF AwaitConnected
  <1>1. CASE Response(c)
    <2>1. client[c] \in ClientRecord /\ client \in [Clients -> ClientRecord]
      BY DEF Types
    <2>2. PICK x, y : client' = [client EXCEPT ![c] = [client[c] EXCEPT
              !.pc = "menu", !.command = NoCommand, !.misled = x, !.user = y]]
      BY <1>1 DEF Response
    <2>3. client'[c].pc = "menu"
      BY <2>1, <2>2 DEF ClientRecord
    <2> QED BY <2>3
  <1>2. CASE Tame(c)
    BY <1>2 DEF Tame, AwaitConnected
  <1> QED BY <1>1, <1>2, Responses

\* Accounts keep their names.
LEMMA NamesGrow ==
    ASSUME Types, [ClientNext]_allVars, NEW u \in UserIds, users[u] # NoName
    PROVE  users'[u] = users[u]
  <1>1. CASE [Next]_vars
    BY <1>1, UsersGrow DEF Types
  <1>2. CASE UNCHANGED tables
    BY <1>2 DEF tables
  <1> QED BY <1>1, <1>2, ThreadSteps

\* What a response says of the name of an account stays true while it is on its way.
LEMMA NamedGrows == Types /\ [ClientNext]_allVars => NamedIn(users) \subseteq NamedIn(users')
  <1> SUFFICES ASSUME Types, [ClientNext]_allVars, NEW a \in NamedIn(users),
                      a.reply.task.kind = "Login", a.reply.result = "SUCCESS"
               PROVE  a.reply.id \in UserIds /\ users'[a.reply.id] = a.reply.task.name
    BY DEF NamedIn
  <1>1. a.reply.id \in UserIds /\ users[a.reply.id] = a.reply.task.name
    BY DEF NamedIn
  <1>2. a.reply.task.name \in Names
    <2>1. a.reply.task \in Tasks
      BY DEF NamedIn, Answered, Reply
    <2> QED BY <2>1, TaskShape DEF LoginTask
  <1>3. a.reply.task.name # NoName
    BY <1>2, NullsAssumption
  <1> QED BY <1>1, <1>3, NamesGrow

\* Truthful stays true while nothing is answered.
LEMMA TruthfulKept == Types /\ Truthful /\ [ClientNext]_allVars => Truthful'
  <1> SUFFICES ASSUME Types, Truthful, [ClientNext]_allVars PROVE Truthful'
    OBVIOUS
  <1>1. CASE Next
    BY <1>1, TruthfulNext DEF Types
  <1>2. CASE UNCHANGED tables /\ reply' = reply
    BY <1>2 DEF tables, Truthful, Acknowledged
  <1>3. CASE reply' = NoReply
    BY <1>3 DEF Truthful, Acknowledged
  <1>4. CASE UNCHANGED vars
    BY <1>2, <1>4 DEF vars
  <1> QED BY <1>1, <1>2, <1>3, <1>4, ThreadSteps

\* Every response to a login names the right account when it is sent, and stays so.
LEMMA NamesKeptNext ==
    ASSUME Types, Owned, Shown, [ClientNext]_allVars PROVE NamesKept'
  <1>1. /\ downlink \in [Sockets -> Seq(Answered)] /\ Form /\ Truthful'
        /\ downlink' \in [Sockets -> Seq(Answered)]
    BY Forms, TypesNext, TruthfulKept DEF Types, Owned, Shown
  <1> DEFINE N == NamedIn(users')
  <1>2. \A k \in Sockets : Every(downlink[k], N)
    BY NamedGrows DEF Shown, NamesKept, Every
  <1>3. NamesKept' <=> \A k \in Sockets : Every(downlink'[k], N)
    BY DEF NamesKept, Every
  <1>4. ASSUME NEW a \in Answered, a.reply = reply', Logs(a) PROVE a \in N
    BY <1>1, <1>4, NoReplyAssumption DEF Truthful, Acknowledged, Logs, NamedIn, Answered
  <1> HIDE DEF N
  <1> DEFINE Good == \A k \in Sockets : Every(downlink'[k], N)
  <1>5. ASSUME downlink' = downlink PROVE Good
    BY <1>2, <1>5
  <1>6. ASSUME NEW k \in Sockets, NEW s, Every(s, N), downlink' = [downlink EXCEPT ![k] = s]
        PROVE  Good
    BY <1>1, <1>2, <1>6
  <1> HIDE DEF Good
  <1>7. ASSUME NEW c \in Clients, NEW k \in Sockets, Reads(c, k) PROVE Good
    <2>1. downlink[k] # <<>> /\ downlink' = [downlink EXCEPT ![k] = Tail(downlink[k])]
      BY <1>1, <1>7 DEF Reads
    <2>2. downlink[k] \in Seq(Answered) /\ Every(downlink[k], N)
      BY <1>1, <1>2
    <2>3. Every(Tail(downlink[k]), N)
      BY <2>1, <2>2, EveryFacts
    <2> QED BY <1>6, <2>1, <2>3
  <1>8. ASSUME NEW k \in Sockets, Answers(k) PROVE Good
    <2> DEFINE a == [reply |-> reply', from |-> Head(RecvPakets).from]
    <2>1. /\ reply' \in Reply /\ Logs([reply |-> reply', from |-> NoClient])
          /\ downlink' = [downlink EXCEPT ![k] = Append(downlink[k], a)]
          /\ RecvPakets # <<>>
      BY <1>1, <1>8 DEF Answers
    <2>2. Head(RecvPakets).from \in Someone
      <3>1. RecvPakets \in Seq(Entry)
        BY DEF Types
      <3>2. Head(RecvPakets) \in Entry
        BY <2>1, <3>1, TailFacts
      <3> QED BY <3>2 DEF Entry
    <2>3. a \in Answered /\ a.reply = reply' /\ Logs(a)
      BY <2>1, <2>2 DEF Answered, Logs
    <2> HIDE DEF a
    <2>4. a \in N
      BY <1>4, <2>3
    <2>5. downlink[k] \in Seq(Answered) /\ Every(downlink[k], N)
      BY <1>1, <1>2
    <2>6. Every(Append(downlink[k], a), N)
      BY <2>3, <2>4, <2>5, EveryFacts
    <2> QED BY <1>6, <2>1, <2>6
  <1>9. ASSUME NEW k \in Sockets, NEW queue, Remove(k, queue) PROVE Good
    <2>1. downlink' = [downlink EXCEPT ![k] = <<>>]
      BY <1>9 DEF Remove
    <2>2. Every(<<>>, N)
      BY DEF Every
    <2> QED BY <1>6, <2>1, <2>2
  <1>10. ASSUME NEW c \in Clients, Quiet(c) PROVE Good
    BY <1>5, <1>10 DEF Quiet
  <1>11. ASSUME NEW c \in Clients, NEW k \in Sockets, Connects(c, k) PROVE Good
    BY <1>5, <1>11 DEF Connects
  <1>12. ASSUME NEW c \in Clients, NEW k \in Sockets, NEW m \in Requests, Sends(c, k, m)
         PROVE  Good
    BY <1>5, <1>12 DEF Sends
  <1>13. ASSUME NEW k \in Sockets, Receives(k) PROVE Good
    BY <1>5, <1>13 DEF Receives
  <1>14. ASSUME Drops \/ Still PROVE Good
    BY <1>5, <1>14 DEF Drops, Still
  <1>15. Good
    BY <1>1, <1>7, <1>8, <1>9, <1>10, <1>11, <1>12, <1>13, <1>14, Zenon DEF Form
  <1> QED BY <1>3, <1>15 DEF Good

\* The three parts hold in every state.
LEMMA ShownHolds == ClientSpec => []Shown
  <1>1. ClientInit => Shown
    BY DEF ClientInit, Shown, AwaitConnected, NamesKept, Every, NewProcess, Truthful, Acknowledged
  <1>2. Types /\ Owned /\ Shown /\ [ClientNext]_allVars => Shown'
    BY AwaitNext, NamesKeptNext, TruthfulKept DEF Shown
  <1> QED BY <1>1, <1>2, OwnedHolds, PTL DEF ClientSpec

\* A client that gets to show an account has asked for it by name, unless it has read a
\* response to a former holder of its handle.
ShowsOwnAccount ==
    [][\A c \in Clients :
          client'[c].user \notin {client[c].user, NoId} /\ ~client'[c].misled
          => /\ client[c].command.kind = "Login"
             /\ users[client'[c].user] = client[c].command.name]_allVars

\* The response a client reads while none is a stranger's answers the command it waits with.
LEMMA ReadsOwn ==
    ASSUME Types, Owned, Shown, OwnAnswer, NEW c \in Clients, Response(c), ~client[c].misled,
           NEW a, a = Head(downlink[client[c].sock]), a.from = c
    PROVE  a.reply.task = client[c].command /\ a \in NamedIn(users)
  <1> DEFINE k == client[c].sock
  <1>1. client[c].pc = "await" /\ k # NoSocket /\ downlink[k] # <<>>
    BY DEF Response
  <1>2. k \in Sockets /\ client[c].connected
    BY <1>1 DEF Types, ClientRecord, Shown, AwaitConnected
  <1>3. downlink[k] \in Seq(Answered)
    BY <1>2 DEF Types
  <1>4. Every(downlink[k], NamedIn(users))
    BY <1>2 DEF Shown, NamesKept
  <1>5. UnderWay(c, k) \subseteq {client[c].command}
    BY <1>1, <1>2 DEF OwnAnswer
  <1> HIDE DEF k
  <1>6. a \in NamedIn(users) /\ a \in Range(downlink[k])
    <2>1. a = downlink[k][1] /\ 1 \in 1..Len(downlink[k])
      BY <1>1, <1>3, TailFacts DEF k
    <2> QED BY <1>3, <1>4, <2>1 DEF Every, Range
  <1>7. a.reply.task \in UnderWay(c, k)
    BY <1>6 DEF UnderWay
  <1> QED BY <1>5, <1>6, <1>7

\* A client shows only the account whose name it has logged in with, however late or lost
\* earlier answers were, and whatever accounts were created meanwhile - unless it has read
\* the response to a former holder of its handle.
THEOREM ShownAccountIsOwn == ClientSpec => ShowsOwnAccount
  <1> DEFINE Own(c) == /\ client[c].command.kind = "Login"
                       /\ users[client'[c].user] = client[c].command.name
  <1>1. ASSUME Types, Owned, Shown, OwnAnswer, [ClientNext]_allVars, NEW c \in Clients,
               client'[c].user \notin {client[c].user, NoId}, ~client'[c].misled
        PROVE  Own(c)
    <2>1. Response(c)
      BY <1>1, Responses DEF Tame
    <2>2. client[c] \in ClientRecord /\ client \in [Clients -> ClientRecord]
      BY <1>1 DEF Types
    <2>3. PICK a : a = Head(downlink[client[c].sock])
      OBVIOUS
    <2> DEFINE user == UserAfter(c, a)
               misled == client[c].misled \/ a.from # c
    <2>4. client' = [client EXCEPT ![c] = [client[c] EXCEPT
              !.pc = "menu", !.command = NoCommand, !.misled = misled, !.user = user]]
      BY <2>1, <2>3 DEF Response
    <2>5. ~misled /\ user \notin {client[c].user, NoId} /\ client'[c].user = user
      <3> HIDE DEF misled, user
      <3> QED BY <1>1, <2>2, <2>4 DEF ClientRecord
    <2>6. a.reply.task.kind = "Login" /\ a.reply.result = "SUCCESS" /\ user = a.reply.id
      BY <2>5 DEF UserAfter
    <2>7. a.reply.task = client[c].command /\ a \in NamedIn(users)
      BY <1>1, <2>1, <2>3, <2>5, ReadsOwn
    <2> QED BY <2>5, <2>6, <2>7 DEF NamedIn
  <1>2. Types /\ Owned /\ Shown /\ OwnAnswer /\ [ClientNext]_allVars =>
           [\A c \in Clients :
              client'[c].user \notin {client[c].user, NoId} /\ ~client'[c].misled
              => /\ client[c].command.kind = "Login"
                 /\ users[client'[c].user] = client[c].command.name]_allVars
    BY <1>1
  <1> QED BY <1>2, OwnedHolds, ShownHolds, AnswersAreOwn, PTL DEF ClientSpec, ShowsOwnAccount
=============================================================================
