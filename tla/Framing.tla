------------------------------- MODULE Framing -------------------------------
(***************************************************************************)
(* Packets on the byte stream of one connection.  A packet is a header     *)
(* that holds the size of its body, then the body.  "up": SendPacket of    *)
(* the test client to ProcessClientData of a worker; "down": SendToClient  *)
(* of a worker to ReceivePacket of the client.  A behaviour follows one    *)
(* direction.                                                              *)
(*                                                                         *)
(* The stream is a sequence of units: a header is two of them (four bytes, *)
(* that may arrive in parts), a body one or more.  A header read from any  *)
(* two other units holds any size.                                         *)
(***************************************************************************)
EXTENDS Naturals, Sequences

CONSTANTS
    Packets,        \* bound of the model: number of packets sent
    Size(_),        \* units in the body of each packet
    MaxSize,        \* largest size accepted (65536)
    SendRetries,    \* MAX_SEND_RETRY
    RecvRetries     \* MAX_RETRY

ASSUME FramingAssumption ==
    /\ Packets \in Nat /\ MaxSize \in Nat \ {0}
    /\ SendRetries \in Nat \ {0} /\ RecvRetries \in Nat \ {0}
    /\ \A p \in 1..Packets : Size(p) \in 1..MaxSize

VARIABLES
    way,            \* "up" or "down"
    sender,         \* pc, the packet, what of it is left to send, retries
    receiver,       \* pc, size and body so far, retries; its thread's last error is WSAEWOULDBLOCK
    wire,           \* units sent and not received
    open,           \* the sender's end is open
    accepted,       \* packets of which some unit was sent
    delivered,      \* bodies handed on: to RecvPakets, or to the caller
    slipped         \* a part of a packet was not sent, or was thrown away, and the stream goes on

vars == <<way, sender, receiver, wire, open, accepted, delivered, slipped>>

Header(p) == <<[packet |-> p, unit |-> 1], [packet |-> p, unit |-> 2]>>
Body(p) == [i \in 1..Size(p) |-> [packet |-> p, unit |-> 2 + i]]

\* a nonempty part of what is asked for
Parts(s) == {SubSeq(s, 1, n) : n \in 1..Len(s)}
Rest(s, part) == SubSeq(s, Len(part) + 1, Len(s))

\* an end that no longer uses the connection
Dead(end) == end.pc = "dead"

-----------------------------------------------------------------------------
(* SendPacket (up) blocks and gives the connection up on any failure;      *)
(* SendToClient (down) does not block, and keeps it when there is no room. *)

Idle == [pc |-> "idle", packet |-> 0, left |-> <<>>, tries |-> 0]

SendStart ==
    /\ sender.pc = "idle" /\ open
    /\ sender.packet < Packets
    /\ sender' = [sender EXCEPT !.pc = "header", !.packet = @ + 1]
    /\ UNCHANGED <<way, receiver, wire, open, accepted, delivered, slipped>>

\* a header sent in part is taken for sent by SendToClient
SendHeader ==
    /\ sender.pc = "header" /\ open
    /\ LET header == Header(sender.packet) IN
       \E part \in IF way = "up" THEN {header} ELSE Parts(header) :
          /\ wire' = wire \o part
          /\ slipped' = (slipped \/ part # header)
    /\ accepted' = Append(accepted, sender.packet)
    /\ sender' = [sender EXCEPT !.pc = "body", !.left = Body(sender.packet), !.tries = 0]
    /\ UNCHANGED <<way, receiver, open, delivered>>

\* Mutant: one send for the body, whatever it returned.
SendBodyOnce ==
    /\ sender.pc = "body" /\ open
    /\ \E part \in Parts(sender.left) : wire' = wire \o part
    /\ sender' = [sender EXCEPT !.pc = "idle", !.left = <<>>, !.tries = 0]
    /\ UNCHANGED <<way, receiver, open, accepted, delivered, slipped>>

SendBody ==
    /\ sender.pc = "body" /\ open
    /\ \E part \in Parts(sender.left) :
          LET rest == Rest(sender.left, part) IN
          /\ wire' = wire \o part
          /\ sender' = [sender EXCEPT !.pc = IF rest = <<>> THEN "idle" ELSE "body",
                                      !.left = rest, !.tries = 0]
    /\ UNCHANGED <<way, receiver, open, accepted, delivered, slipped>>

\* WSAEWOULDBLOCK: the header is dropped at once, and with it the packet; the body is
\* tried again, and at last dropped where it is
NoRoom ==
    /\ way = "down" /\ open
    /\ \/ /\ sender.pc = "header"
          /\ sender' = [sender EXCEPT !.pc = "idle"]
          /\ UNCHANGED slipped
       \/ /\ sender.pc = "body"
          /\ LET tries == sender.tries + 1 IN
                IF tries < SendRetries
                THEN sender' = [sender EXCEPT !.tries = tries] /\ UNCHANGED slipped
                ELSE sender' = [sender EXCEPT !.pc = "idle", !.left = <<>>] /\ slipped' = TRUE
    /\ UNCHANGED <<way, receiver, wire, open, accepted, delivered>>

\* An error or, up, the timeout.  The client forgets its socket without closing it; the
\* server closes its own.
SendFails ==
    /\ sender.pc \in {"header", "body"}
    /\ sender' = [sender EXCEPT !.pc = "dead"]
    /\ open' = IF way = "up" THEN open ELSE FALSE
    /\ UNCHANGED <<way, receiver, wire, accepted, delivered, slipped>>

\* the client disconnects or ends; another thread of the server removes the client
SenderCloses ==
    /\ open
    /\ open' = FALSE
    /\ sender' = [sender EXCEPT !.pc = "dead"]
    /\ UNCHANGED <<way, receiver, wire, accepted, delivered, slipped>>

-----------------------------------------------------------------------------
(* The receivers.  What has arrived of the wire is any first part of it.   *)

Resting == [receiver EXCEPT !.pc = "idle", !.size = 0, !.body = <<>>, !.tries = 0]
GivesUp == [Resting EXCEPT !.pc = "dead"]

\* the size a header holds: its own packet's, or anything
SizesOf(units) == IF \E p \in 1..Packets : units = Header(p)
                  THEN {Size(p) : p \in {q \in 1..Packets : units = Header(q)}}
                  ELSE 0..(MaxSize + 1)

TakeSize(size) ==
    receiver' = IF size > MaxSize \/ (size = 0 /\ way = "down") THEN GivesUp
                ELSE IF size = 0 THEN Resting
                ELSE [Resting EXCEPT !.pc = "body", !.size = size]

Ahead(n) == SubSeq(wire, 1, IF n < Len(wire) THEN n ELSE Len(wire))

\* ProcessClientData throws half a header away; ReceivePacket takes it for a whole one.
RecvHeader ==
    /\ receiver.pc = "idle"
    /\ \E part \in Parts(Ahead(2)) :
          /\ wire' = Rest(wire, part)
          /\ slipped' = (slipped \/ Len(part) < 2)
          /\ IF Len(part) < 2 /\ way = "up" THEN receiver' = Resting
             ELSE \E size \in SizesOf(part) : TakeSize(size)
    /\ UNCHANGED <<way, sender, open, accepted, delivered>>

\* Mutant: every recv asks for the whole size, not for what is missing of it.
RecvWithoutTotal ==
    /\ receiver.pc = "body"
    /\ \E part \in Parts(Ahead(receiver.size)) :
          LET body == receiver.body \o part IN
          /\ wire' = Rest(wire, part)
          /\ IF Len(body) < receiver.size
             THEN /\ receiver' = [receiver EXCEPT !.body = body, !.tries = 0]
                  /\ UNCHANGED delivered
             ELSE /\ receiver' = Resting
                  /\ delivered' = Append(delivered, body)
    /\ UNCHANGED <<way, sender, open, accepted, slipped>>

RecvBody ==
    /\ receiver.pc = "body"
    /\ \E part \in Parts(Ahead(receiver.size - Len(receiver.body))) :
          LET body == receiver.body \o part IN
          /\ wire' = Rest(wire, part)
          /\ IF Len(body) < receiver.size
             THEN /\ receiver' = [receiver EXCEPT !.body = body, !.tries = 0]
                  /\ UNCHANGED delivered
             ELSE /\ receiver' = Resting
                  /\ delivered' = Append(delivered, body)
    /\ UNCHANGED <<way, sender, open, accepted, slipped>>

\* WSAEWOULDBLOCK inside a body: tried again, and at last what was received is dropped
BodyBlocks ==
    /\ way = "up" /\ receiver.pc = "body"
    /\ LET tries == receiver.tries + 1 IN
          IF tries < RecvRetries
          THEN receiver' = [receiver EXCEPT !.tries = tries, !.stale = TRUE] /\ UNCHANGED slipped
          ELSE receiver' = [Resting EXCEPT !.stale = TRUE] /\ slipped' = TRUE
    /\ UNCHANGED <<way, sender, wire, open, accepted, delivered>>

\* Between its packets the worker serves its other clients, or finds no header after all:
\* whatever failed last on the thread is its last error.
OtherCalls ==
    /\ way = "up" /\ receiver.pc = "idle"
    /\ \E stale \in BOOLEAN : receiver' = [receiver EXCEPT !.stale = stale]
    /\ UNCHANGED <<way, sender, wire, open, accepted, delivered, slipped>>

\* Mutant: the end is looked for at headers only, and a body goes on waiting.
RecvEndAtHeader ==
    /\ ~open /\ wire = <<>>
    /\ ~Dead(receiver)
    /\ receiver' = IF receiver.pc = "body" \/ (way = "up" /\ receiver.stale)
                   THEN receiver ELSE GivesUp
    /\ UNCHANGED <<way, sender, wire, open, accepted, delivered, slipped>>

\* recv returns 0.  For a header ProcessClientData asks WSAGetLastError, which a recv that
\* did not fail leaves as it was: an old WSAEWOULDBLOCK of the thread hides the end.
RecvEnd ==
    /\ ~open /\ wire = <<>>
    /\ ~Dead(receiver)
    /\ receiver' = IF way = "up" /\ receiver.pc = "idle" /\ receiver.stale
                   THEN receiver ELSE GivesUp
    /\ UNCHANGED <<way, sender, wire, open, accepted, delivered, slipped>>

\* another error; down, the timeout
RecvFails ==
    /\ ~Dead(receiver)
    /\ receiver' = GivesUp
    /\ UNCHANGED <<way, sender, wire, open, accepted, delivered, slipped>>

-----------------------------------------------------------------------------
Init ==
    /\ way \in {"up", "down"}
    /\ sender = Idle
    /\ receiver = [pc |-> "idle", size |-> 0, body |-> <<>>, tries |-> 0, stale |-> FALSE]
    /\ wire = <<>>
    /\ open = TRUE
    /\ accepted = <<>> /\ delivered = <<>>
    /\ slipped = FALSE

SendStep == SendHeader \/ SendBody \/ NoRoom \/ SendFails
RecvStep == RecvHeader \/ RecvBody \/ BodyBlocks \/ RecvEnd

Next == SendStart \/ SendStep \/ SenderCloses \/ RecvStep \/ RecvFails \/ OtherCalls

\* A send that is under way ends, and a worker or a client waiting for a packet reads on.
Spec == Init /\ [][Next]_vars /\ WF_vars(SendStep) /\ WF_vars(RecvStep)

-----------------------------------------------------------------------------
\* As long as no part of a packet was left out or thrown away, what is handed on are the
\* bodies of the packets sent, whole, in order and none of them twice.
InStep ==
    ~slipped => /\ Len(delivered) <= Len(accepted)
                /\ \A i \in 1..Len(delivered) : delivered[i] = Body(accepted[i])

\* A packet that was begun arrives, unless the stream slipped or an end gave up.
Arrives ==
    \A n \in 1..Packets :
        Len(accepted) >= n ~> Len(delivered) >= n \/ slipped \/ Dead(sender) \/ Dead(receiver)

\* The end of the stream is noticed, unless the worker's thread has an old WSAEWOULDBLOCK time
\* and again, of this client or of another, that hides it (WorkerThread.cpp:313).
EndNoticed == (~open ~> Dead(receiver)) \/ []<>receiver.stale
=============================================================================
