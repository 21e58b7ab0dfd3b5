--------------------------- MODULE FramingProofs ---------------------------
(***************************************************************************)
(* InStep for any number of packets, any sizes and retries, and any way    *)
(* in which the stream delivers its units.                                 *)
(*                                                                         *)
(* Each unit on the wire has a position: the packet, counted among those   *)
(* accepted, and the unit within it.  As long as nothing slipped the       *)
(* positions on the wire follow each other without a gap, from what the    *)
(* receiver asks for next to what the sender sends next.                   *)
(***************************************************************************)
EXTENDS Framing, TLAPS

-----------------------------------------------------------------------------
(* Sequences.                                                              *)

\* A nonempty part of a sequence is its first n elements.
LEMMA PartFacts ==
    ASSUME NEW S, NEW s \in Seq(S), NEW part \in Parts(s)
    PROVE  /\ part \in Seq(S) /\ Rest(s, part) \in Seq(S)
           /\ Len(part) \in 1..Len(s)
           /\ Len(Rest(s, part)) = Len(s) - Len(part)
           /\ \A i \in 1..Len(part) : part[i] = s[i]
           /\ \A i \in 1..Len(Rest(s, part)) : Rest(s, part)[i] = s[i + Len(part)]
  <1>1. PICK n \in 1..Len(s) : part = SubSeq(s, 1, n)
    BY DEF Parts
  <1>2. part \in Seq(S) /\ Len(part) = n /\ \A i \in 1..n : part[i] = s[i]
    BY <1>1
  <1>3. /\ SubSeq(s, n + 1, Len(s)) \in Seq(S) /\ Len(SubSeq(s, n + 1, Len(s))) = Len(s) - n
        /\ \A i \in 1..(Len(s) - n) : SubSeq(s, n + 1, Len(s))[i] = s[i + n]
    OBVIOUS
  <1> QED BY <1>2, <1>3 DEF Rest

\* The empty sequence is one of anything.
LEMMA EmptyFacts == ASSUME NEW S PROVE <<>> \in Seq(S) /\ Len(<<>>) = 0
  OBVIOUS

\* Only the empty sequence has no length.
LEMMA EmptyIff == ASSUME NEW S, NEW s \in Seq(S) PROVE s = <<>> <=> Len(s) = 0
  OBVIOUS

\* What concatenation does, index by index.
LEMMA ConcatFacts ==
    ASSUME NEW S, NEW s \in Seq(S), NEW t \in Seq(S)
    PROVE  /\ s \o t \in Seq(S)
           /\ Len(s \o t) = Len(s) + Len(t)
           /\ \A i \in 1..Len(s) : (s \o t)[i] = s[i]
           /\ \A i \in 1..Len(t) : (s \o t)[Len(s) + i] = t[i]
  OBVIOUS

\* What Append does, index by index.
LEMMA AppendFacts ==
    ASSUME NEW S, NEW s \in Seq(S), NEW e \in S
    PROVE  /\ Append(s, e) \in Seq(S)
           /\ Len(Append(s, e)) = Len(s) + 1
           /\ Append(s, e)[Len(s) + 1] = e
           /\ \A i \in 1..Len(s) : Append(s, e)[i] = s[i]
  OBVIOUS

-----------------------------------------------------------------------------
(* Types.                                                                  *)

PacketIds == 1..Packets
Unit == [packet : Nat, unit : Nat]
Sender == [pc : {"idle", "header", "body", "dead"}, packet : 0..Packets, left : Seq(Unit),
           tries : Nat]
Receiver == [pc : {"idle", "body", "dead"}, size : Nat, body : Seq(Unit), tries : Nat,
             stale : BOOLEAN]

Types ==
    /\ way \in {"up", "down"} /\ open \in BOOLEAN /\ slipped \in BOOLEAN
    /\ sender \in Sender /\ receiver \in Receiver
    /\ sender.pc = "header" => sender.packet \in PacketIds
    /\ receiver.pc = "body" => Len(receiver.body) < receiver.size
    /\ wire \in Seq(Unit)
    /\ accepted \in Seq(PacketIds) /\ delivered \in Seq(Seq(Unit))

\* The bounds are numbers.
LEMMA Bounds == Packets \in Nat /\ MaxSize \in Nat /\ SendRetries \in Nat /\ RecvRetries \in Nat
  BY FramingAssumption

\* The headers and bodies of packets are sequences of units.
LEMMA PacketFacts ==
    ASSUME NEW p \in PacketIds
    PROVE  /\ Size(p) \in 1..MaxSize /\ Size(p) \in Nat /\ p \in Nat
           /\ Header(p) \in Seq(Unit) /\ Len(Header(p)) = 2
           /\ \A i \in 1..2 : Header(p)[i] = [packet |-> p, unit |-> i]
           /\ Body(p) \in Seq(Unit) /\ Len(Body(p)) = Size(p)
           /\ \A i \in 1..Size(p) : Body(p)[i] = [packet |-> p, unit |-> 2 + i]
  <1>1. Size(p) \in 1..MaxSize /\ MaxSize \in Nat /\ Packets \in Nat
    BY FramingAssumption DEF PacketIds
  <1>2. Size(p) \in Nat /\ p \in Nat
    BY <1>1 DEF PacketIds
  <1>3. /\ Header(p) \in Seq(Unit) /\ Len(Header(p)) = 2
        /\ Header(p)[1] = [packet |-> p, unit |-> 1] /\ Header(p)[2] = [packet |-> p, unit |-> 2]
    BY <1>2 DEF Header, Unit
  <1>4. \A i \in 1..Size(p) : [packet |-> p, unit |-> 2 + i] \in Unit
    BY <1>2 DEF Unit
  <1>5. /\ Body(p) \in Seq(Unit) /\ Len(Body(p)) = Size(p)
        /\ \A i \in 1..Size(p) : Body(p)[i] = [packet |-> p, unit |-> 2 + i]
    BY <1>2, <1>4 DEF Body
  <1> QED BY <1>1, <1>2, <1>3, <1>5

\* The types hold at the start.
LEMMA TypesInit == Init => Types
  <1> SUFFICES ASSUME Init PROVE Types
    OBVIOUS
  <1>1. sender \in Sender /\ sender.pc # "header"
    BY EmptyFacts, FramingAssumption DEF Init, Idle, Sender
  <1>2. receiver \in Receiver /\ receiver.pc # "body"
    BY EmptyFacts DEF Init, Receiver
  <1>3. wire \in Seq(Unit) /\ accepted \in Seq(PacketIds) /\ delivered \in Seq(Seq(Unit))
    BY EmptyFacts DEF Init
  <1> QED BY <1>1, <1>2, <1>3 DEF Init, Types

\* What a receiver starts again with, or gives up with.
LEMMA RestingFacts ==
    ASSUME receiver \in Receiver
    PROVE  /\ Resting \in Receiver /\ Resting.pc = "idle" /\ Resting.body = <<>>
           /\ GivesUp \in Receiver /\ GivesUp.pc = "dead"
           /\ [Resting EXCEPT !.stale = TRUE] \in Receiver
           /\ [Resting EXCEPT !.stale = TRUE].pc = "idle"
  <1>1. Resting \in Receiver /\ Resting.pc = "idle" /\ Resting.body = <<>>
    BY EmptyFacts DEF Resting, Receiver
  <1>2. GivesUp \in Receiver /\ GivesUp.pc = "dead"
    BY <1>1 DEF GivesUp, Receiver
  <1>3. [Resting EXCEPT !.stale = TRUE] \in Receiver /\ [Resting EXCEPT !.stale = TRUE].pc = "idle"
    BY <1>1 DEF Receiver
  <1> QED BY <1>1, <1>2, <1>3

\* What a receiver begins a body with.
LEMMA BodyFacts ==
    ASSUME receiver \in Receiver, NEW z \in Nat,
           NEW r, r = [Resting EXCEPT !.pc = "body", !.size = z]
    PROVE  r \in Receiver /\ r.pc = "body" /\ r.size = z /\ r.body = <<>>
  <1>1. Resting \in Receiver /\ Resting.body = <<>>
    BY RestingFacts
  <1> QED BY <1>1 DEF Receiver

\* A size read from a header is a natural number.
LEMMA SizesAreNat == \A units : SizesOf(units) \subseteq Nat
  BY PacketFacts, FramingAssumption DEF SizesOf, PacketIds

\* What has arrived is a first part of the wire.
LEMMA AheadFacts ==
    ASSUME wire \in Seq(Unit), NEW n \in Nat
    PROVE  /\ Ahead(n) \in Seq(Unit) /\ Len(Ahead(n)) <= n /\ Len(Ahead(n)) <= Len(wire)
           /\ \A i \in 1..Len(Ahead(n)) : Ahead(n)[i] = wire[i]
  <1> DEFINE m == IF n < Len(wire) THEN n ELSE Len(wire)
  <1>1. m \in 0..Len(wire) /\ m <= n
    OBVIOUS
  <1>2. /\ SubSeq(wire, 1, m) \in Seq(Unit) /\ Len(SubSeq(wire, 1, m)) = m
        /\ \A i \in 1..m : SubSeq(wire, 1, m)[i] = wire[i]
    BY <1>1
  <1> QED BY <1>1, <1>2 DEF Ahead

\* What is taken of the wire, and what is left on it.
LEMMA TakenFacts ==
    ASSUME wire \in Seq(Unit), NEW n \in Nat, NEW part \in Parts(Ahead(n))
    PROVE  /\ part \in Seq(Unit) /\ Rest(wire, part) \in Seq(Unit)
           /\ Len(part) \in 1..Len(wire) /\ Len(part) <= n
           /\ Len(Rest(wire, part)) = Len(wire) - Len(part)
           /\ \A i \in 1..Len(part) : part[i] = wire[i]
           /\ \A i \in 1..Len(Rest(wire, part)) : Rest(wire, part)[i] = wire[i + Len(part)]
  <1>1. /\ part \in Seq(Unit) /\ Len(part) \in 1..Len(Ahead(n))
        /\ \A i \in 1..Len(part) : part[i] = Ahead(n)[i]
    BY AheadFacts, PartFacts
  <1>2. Len(part) \in 1..Len(wire) /\ Len(part) <= n /\ \A i \in 1..Len(part) : part[i] = wire[i]
    <2> DEFINE a == Ahead(n)
    <2>1. Len(a) \in Nat /\ Len(part) \in 1..Len(a) /\ \A i \in 1..Len(part) : part[i] = a[i]
      BY <1>1, AheadFacts
    <2>2. Len(a) <= n /\ Len(a) <= Len(wire) /\ \A i \in 1..Len(a) : a[i] = wire[i]
      BY AheadFacts
    <2> HIDE DEF a
    <2> QED BY <2>1, <2>2
  <1>3. /\ SubSeq(wire, Len(part) + 1, Len(wire)) \in Seq(Unit)
        /\ Len(SubSeq(wire, Len(part) + 1, Len(wire))) = Len(wire) - Len(part)
        /\ \A i \in 1..(Len(wire) - Len(part)) :
              SubSeq(wire, Len(part) + 1, Len(wire))[i] = wire[i + Len(part)]
    BY <1>2
  <1> QED BY <1>1, <1>2, <1>3 DEF Rest

\* The sender's steps keep the types.
LEMMA TypesSend == Types /\ (SendStart \/ SendStep \/ SenderCloses) => Types'
  <1> SUFFICES ASSUME Types, SendStart \/ SendStep \/ SenderCloses PROVE Types'
    OBVIOUS
  <1>1. CASE SendStart
    <2>1. sender' \in Sender /\ sender'.packet \in PacketIds
      <3>1. sender \in Sender /\ sender.packet < Packets
        BY <1>1 DEF SendStart, Types
      <3>2. sender' = [sender EXCEPT !.pc = "header", !.packet = sender.packet + 1]
        BY <1>1 DEF SendStart
      <3>3. sender.packet + 1 \in PacketIds
        BY <3>1, Bounds DEF Sender, PacketIds
      <3>4. sender.packet + 1 \in 0..Packets
        BY <3>3, Bounds DEF PacketIds
      <3> QED BY <3>1, <3>2, <3>3, <3>4 DEF Sender
    <2> QED BY <1>1, <2>1 DEF SendStart, Types
  <1>2. CASE SendHeader
    <2>1. PICK part \in Seq(Unit) :
             /\ wire' = wire \o part
             /\ slipped' = (slipped \/ part # Header(sender.packet))
      BY <1>2, PacketFacts, PartFacts DEF SendHeader, Types
    <2>2. sender' \in Sender /\ sender'.pc = "body"
      BY <1>2, PacketFacts DEF SendHeader, Types, Sender
    <2>3. accepted' \in Seq(PacketIds)
      BY <1>2, AppendFacts DEF SendHeader, Types
    <2>4. wire' \in Seq(Unit)
      BY <2>1, ConcatFacts DEF Types
    <2> QED BY <1>2, <2>1, <2>2, <2>3, <2>4 DEF SendHeader, Types
  <1>3. CASE SendBody
    <2>1. PICK part \in Parts(sender.left) :
             /\ wire' = wire \o part
             /\ sender' = [sender EXCEPT
                  !.pc = IF Rest(sender.left, part) = <<>> THEN "idle" ELSE "body",
                  !.left = Rest(sender.left, part), !.tries = 0]
      BY <1>3 DEF SendBody
    <2>2. part \in Seq(Unit) /\ Rest(sender.left, part) \in Seq(Unit)
      BY PartFacts DEF Types, Sender
    <2>3. sender' \in Sender /\ sender'.pc \in {"idle", "body"}
      BY <2>1, <2>2 DEF Types, Sender
    <2>4. wire' \in Seq(Unit)
      BY <2>1, <2>2, ConcatFacts DEF Types
    <2> QED BY <1>3, <2>3, <2>4 DEF SendBody, Types
  <1>4. CASE NoRoom
    <2>1. sender' \in Sender /\ sender'.pc # "header" /\ slipped' \in BOOLEAN
      <3>1. sender \in Sender /\ slipped \in BOOLEAN
        BY DEF Types
      <3>2. CASE sender.pc = "header"
        BY <1>4, <3>1, <3>2 DEF NoRoom, Sender
      <3>3. CASE sender.pc = "body" /\ sender.tries + 1 < SendRetries
        BY <1>4, <3>1, <3>3 DEF NoRoom, Sender
      <3>4. CASE sender.pc = "body" /\ ~(sender.tries + 1 < SendRetries)
        BY <1>4, <3>1, <3>4, EmptyFacts DEF NoRoom, Sender
      <3> QED BY <1>4, <3>2, <3>3, <3>4 DEF NoRoom
    <2> QED BY <1>4, <2>1 DEF NoRoom, Types
  <1>5. CASE SendFails
    BY <1>5 DEF SendFails, Types, Sender
  <1>6. CASE SenderCloses
    BY <1>6 DEF SenderCloses, Types, Sender
  <1> QED BY <1>1, <1>2, <1>3, <1>4, <1>5, <1>6 DEF SendStep

\* The receiver's steps keep the types.
LEMMA TypesRecv == Types /\ (RecvStep \/ RecvFails \/ OtherCalls) => Types'
  <1> SUFFICES ASSUME Types, RecvStep \/ RecvFails \/ OtherCalls PROVE Types'
    OBVIOUS
  <1>1. CASE RecvHeader
    <2>1. PICK part \in Parts(Ahead(2)) :
             /\ wire' = Rest(wire, part)
             /\ slipped' = (slipped \/ Len(part) < 2)
             /\ IF Len(part) < 2 /\ way = "up" THEN receiver' = Resting
                ELSE \E size \in SizesOf(part) : TakeSize(size)
      BY <1>1 DEF RecvHeader
    <2>2. wire' \in Seq(Unit)
      BY <2>1, TakenFacts DEF Types
    <2>3. /\ receiver' \in Receiver
          /\ receiver'.pc = "body" => Len(receiver'.body) < receiver'.size
      <3>1. ASSUME NEW size \in SizesOf(part), TakeSize(size)
            PROVE  /\ receiver' \in Receiver
                   /\ receiver'.pc = "body" => Len(receiver'.body) < receiver'.size
        <4>1. size \in Nat
          BY <3>1, SizesAreNat
        <4>2. CASE receiver' = GivesUp \/ receiver' = Resting
          BY <4>2, RestingFacts DEF Types
        <4>3. CASE size # 0 /\ receiver' = [Resting EXCEPT !.pc = "body", !.size = size]
          <5>1. receiver \in Receiver
            BY DEF Types
          <5>2. receiver' \in Receiver /\ receiver'.size = size /\ receiver'.body = <<>>
            BY <4>1, <4>3, <5>1, BodyFacts
          <5> QED BY <4>1, <4>3, <5>2, EmptyFacts
        <4> QED BY <3>1, <4>1, <4>2, <4>3 DEF TakeSize
      <3>2. receiver' = Resting \/ \E size \in SizesOf(part) : TakeSize(size)
        BY <2>1
      <3> QED BY <3>1, <3>2, RestingFacts DEF Types
    <2> QED BY <1>1, <2>1, <2>2, <2>3 DEF RecvHeader, Types
  <1>2. CASE RecvBody
    <2>1. PICK part \in Parts(Ahead(receiver.size - Len(receiver.body))) :
             LET body == receiver.body \o part IN
             /\ wire' = Rest(wire, part)
             /\ IF Len(body) < receiver.size
                THEN /\ receiver' = [receiver EXCEPT !.body = body, !.tries = 0]
                     /\ UNCHANGED delivered
                ELSE receiver' = Resting /\ delivered' = Append(delivered, body)
      BY <1>2 DEF RecvBody
    <2>2. receiver.size - Len(receiver.body) \in Nat /\ receiver.body \in Seq(Unit)
      BY <1>2 DEF RecvBody, Types, Receiver
    <2>3. part \in Seq(Unit) /\ wire' \in Seq(Unit)
      BY <2>1, <2>2, TakenFacts DEF Types
    <2>4. receiver.body \o part \in Seq(Unit)
      BY <2>2, <2>3, ConcatFacts
    <2>5. CASE Len(receiver.body \o part) < receiver.size
      <3>1. receiver \in Receiver /\ receiver.pc = "body"
        BY <1>2 DEF RecvBody, Types
      <3>2. /\ receiver' = [receiver EXCEPT !.body = receiver.body \o part, !.tries = 0]
            /\ delivered' = delivered
        BY <2>1, <2>5
      <3>3. receiver' \in Receiver /\ receiver'.body = receiver.body \o part
            /\ receiver'.size = receiver.size
        BY <2>4, <3>1, <3>2 DEF Receiver
      <3> QED BY <1>2, <2>3, <2>5, <3>2, <3>3 DEF RecvBody, Types
    <2>6. CASE ~(Len(receiver.body \o part) < receiver.size)
      <3>1. delivered' \in Seq(Seq(Unit))
        <4>1. delivered \in Seq(Seq(Unit)) /\ delivered' = Append(delivered, receiver.body \o part)
          BY <2>1, <2>6 DEF Types
        <4> QED BY <4>1, <2>4, AppendFacts
      <3> QED BY <1>2, <2>1, <2>3, <2>6, <3>1, RestingFacts DEF RecvBody, Types
    <2> QED BY <2>5, <2>6
  <1>3. CASE BodyBlocks
    <2>1. /\ receiver' \in Receiver /\ slipped' \in BOOLEAN
          /\ receiver'.pc = "body" => Len(receiver'.body) < receiver'.size
      <3>1. CASE receiver.tries + 1 < RecvRetries
        <4>1. /\ receiver \in Receiver /\ receiver.pc = "body" /\ slipped \in BOOLEAN
              /\ Len(receiver.body) < receiver.size
          BY <1>3 DEF BodyBlocks, Types
        <4>2. /\ receiver' = [receiver EXCEPT !.tries = receiver.tries + 1, !.stale = TRUE]
              /\ slipped' = slipped
          BY <1>3, <3>1 DEF BodyBlocks
        <4>3. receiver.tries + 1 \in Nat
          BY <4>1 DEF Receiver
        <4>4. /\ receiver' \in Receiver
              /\ receiver'.body = receiver.body /\ receiver'.size = receiver.size
          BY <4>1, <4>2, <4>3 DEF Receiver
        <4> QED BY <4>1, <4>2, <4>4
      <3>2. CASE ~(receiver.tries + 1 < RecvRetries)
        BY <1>3, <3>2, RestingFacts DEF BodyBlocks, Types
      <3> QED BY <3>1, <3>2
    <2> QED BY <1>3, <2>1 DEF BodyBlocks, Types
  <1>4. CASE RecvEnd \/ RecvFails
    <2>1. /\ receiver' \in Receiver
          /\ receiver'.pc = "body" => Len(receiver'.body) < receiver'.size
      BY <1>4, RestingFacts DEF RecvEnd, RecvFails, Types
    <2> QED BY <1>4, <2>1 DEF RecvEnd, RecvFails, Types
  <1>5. CASE OtherCalls
    <2>1. PICK stale \in BOOLEAN : receiver' = [receiver EXCEPT !.stale = stale]
      BY <1>5 DEF OtherCalls
    <2>2. /\ receiver' \in Receiver /\ receiver'.pc = receiver.pc
          /\ receiver'.body = receiver.body /\ receiver'.size = receiver.size
      BY <2>1 DEF Types, Receiver
    <2> QED BY <1>5, <2>2 DEF OtherCalls, Types
  <1> QED BY <1>1, <1>2, <1>3, <1>4, <1>5 DEF RecvStep

\* All types hold always.
LEMMA TypesHold == Spec => []Types
  <1>1. Types /\ [Next]_vars => Types'
    <2>1. Types /\ UNCHANGED vars => Types'
      BY DEF Types, vars
    <2> QED BY <2>1, TypesSend, TypesRecv DEF Next
  <1> QED BY <1>1, TypesInit, PTL DEF Spec

-----------------------------------------------------------------------------
(* Positions.  f[i] and g[i] are the packet, counted in a, and the unit    *)
(* within it, of the i-th of the n units of w, and of the one that follows *)
(* w.  (The lengths are parameters: the provers do better without facts    *)
(* about sequences here.)                                                  *)

Full(a, j) == Size(a[j]) + 2

OnWire(l, a, n, w, f, g) ==
    \A i \in 1..n : /\ f[i] \in 1..l /\ g[i] \in 1..Full(a, f[i])
                    /\ w[i] = [packet |-> a[f[i]], unit |-> g[i]]

\* within a packet position follows position; then the next packet begins
Follows(a, i, j, f, g) ==
    /\ j - i <= Full(a, f[i]) - g[i] => f[j] = f[i] /\ g[j] = g[i] + (j - i)
    /\ j - i = Full(a, f[i]) - g[i] + 1 => f[j] = f[i] + 1 /\ g[j] = 1
    /\ j - i > Full(a, f[i]) - g[i] => f[j] > f[i]

InTurn(a, n, f, g) == \A i \in 1..n, j \in 1..(n + 1) : i < j => Follows(a, i, j, f, g)

Numbered(l, a, n, w, f, g) == OnWire(l, a, n, w, f, g) /\ InTurn(a, n, f, g)

\* positions of v, which is w without its first k units
TakenOff(l, a, n, f, g, k, v) ==
    \E F, G \in [Nat -> Nat] :
        /\ Numbered(l, a, n - k, v, F, G)
        /\ F[1] = f[k + 1] /\ G[1] = g[k + 1]
        /\ F[n - k + 1] = f[n + 1] /\ G[n - k + 1] = g[n + 1]

\* Positions stay as they are when k units are taken from the front.
LEMMA Taking ==
    ASSUME NEW l, NEW a, NEW n \in Nat, NEW w, NEW f \in [Nat -> Nat], NEW g \in [Nat -> Nat],
           Numbered(l, a, n, w, f, g),
           NEW k \in 0..n, NEW v, \A i \in 1..(n - k) : v[i] = w[i + k]
    PROVE  TakenOff(l, a, n, f, g, k, v)
  <1> DEFINE F == [i \in Nat |-> f[i + k]]
             G == [i \in Nat |-> g[i + k]]
  <1>1. k \in Nat /\ n - k \in Nat
    OBVIOUS
  <1>2. \A i \in Nat : F[i] = f[i + k] /\ G[i] = g[i + k]
    BY <1>1
  <1>3. F \in [Nat -> Nat] /\ G \in [Nat -> Nat]
    BY <1>1
  <1>4. F[n - k + 1] = f[n + 1] /\ G[n - k + 1] = g[n + 1] /\ F[1] = f[k + 1] /\ G[1] = g[k + 1]
    <2>1. n - k + 1 + k = n + 1 /\ 1 + k = k + 1
      BY <1>1
    <2> QED BY <1>1, <1>2, <2>1
  <1> HIDE DEF F, G
  <1>5. OnWire(l, a, n - k, v, F, G)
    <2> SUFFICES ASSUME NEW i \in 1..(n - k)
                 PROVE  /\ F[i] \in 1..l /\ G[i] \in 1..Full(a, F[i])
                        /\ v[i] = [packet |-> a[F[i]], unit |-> G[i]]
      BY DEF OnWire
    <2>1. i + k \in 1..n /\ v[i] = w[i + k] /\ F[i] = f[i + k] /\ G[i] = g[i + k]
      BY <1>1, <1>2
    <2> QED BY <2>1 DEF Numbered, OnWire
  <1>6. InTurn(a, n - k, F, G)
    <2> SUFFICES ASSUME NEW i \in 1..(n - k), NEW j \in 1..(n - k + 1), i < j
                 PROVE  Follows(a, i, j, F, G)
      BY DEF InTurn
    <2>1. /\ i + k \in 1..n /\ j + k \in 1..(n + 1) /\ i + k < j + k
          /\ (j + k) - (i + k) = j - i
      BY <1>1
    <2>2. F[i] = f[i + k] /\ G[i] = g[i + k] /\ F[j] = f[j + k] /\ G[j] = g[j + k]
      BY <1>1, <1>2
    <2>3. Follows(a, i + k, j + k, f, g)
      BY <2>1 DEF Numbered, InTurn
    <2> QED BY <2>1, <2>2, <2>3 DEF Follows
  <1>7. Numbered(l, a, n - k, v, F, G)
    BY <1>5, <1>6 DEF Numbered
  <1> QED BY <1>3, <1>4, <1>7 DEF TakenOff

\* The position after m units of packet j, the first of them its unit u.
After(a, j, u, m) == IF u + m <= Full(a, j) THEN <<j, u + m>> ELSE <<j + 1, 1>>

\* F and G go on from f and g with m more positions of packet f[n + 1], room of which
\* are not its last.
GoesOn(a, n, m, f, g, F, G, room) ==
    /\ \A i \in 1..n : Full(a, f[i]) \in Nat /\ g[i] <= Full(a, f[i])
    /\ room = Full(a, f[n + 1]) - g[n + 1] /\ Full(a, f[n + 1]) \in Nat
    /\ m <= room + 1
    /\ \A i \in 1..(n + 1) : F[i] = f[i] /\ G[i] = g[i]
    /\ \A i \in 1..(m - 1) : F[n + 1 + i] = f[n + 1] /\ G[n + 1 + i] = g[n + 1] + i
    /\ m <= room => F[n + 1 + m] = f[n + 1] /\ G[n + 1 + m] = g[n + 1] + m
    /\ m > room => F[n + 1 + m] = f[n + 1] + 1 /\ G[n + 1 + m] = 1

\* Positions that go on stay in turn.
LEMMA TurnGoesOn ==
    ASSUME NEW a, NEW n \in Nat, NEW m \in Nat \ {0}, NEW room \in Nat,
           NEW f \in [Nat -> Nat], NEW g \in [Nat -> Nat],
           NEW F \in [Nat -> Nat], NEW G \in [Nat -> Nat],
           InTurn(a, n, f, g), GoesOn(a, n, m, f, g, F, G, room)
    PROVE  InTurn(a, n + m, F, G)
  <1>0. m > room => m = room + 1
    <2>1. m <= room + 1
      BY DEF GoesOn
    <2> QED BY <2>1
  <1>a. \A i \in 1..n : Full(a, f[i]) \in Nat /\ g[i] <= Full(a, f[i])
    BY Zenon DEF GoesOn
  <1>b. room = Full(a, f[n + 1]) - g[n + 1] /\ Full(a, f[n + 1]) \in Nat /\ m <= room + 1
    BY Zenon DEF GoesOn
  <1>c. \A i \in 1..(n + 1) : F[i] = f[i] /\ G[i] = g[i]
    BY Zenon DEF GoesOn
  <1>d. \A i \in 1..(m - 1) : F[n + 1 + i] = f[n + 1] /\ G[n + 1 + i] = g[n + 1] + i
    BY Zenon DEF GoesOn
  <1>e. /\ m <= room => F[n + 1 + m] = f[n + 1] /\ G[n + 1 + m] = g[n + 1] + m
        /\ m > room => F[n + 1 + m] = f[n + 1] + 1 /\ G[n + 1 + m] = 1
    BY Zenon DEF GoesOn
  <1> SUFFICES ASSUME NEW i \in 1..(n + m), NEW j \in 1..(n + m + 1), i < j
               PROVE  Follows(a, i, j, F, G)
    BY DEF InTurn
  <1>1. f[n + 1] \in Nat /\ g[n + 1] \in Nat /\ i \in Nat /\ j \in Nat
    OBVIOUS
  \* positions from n + 1 on
  <1>2. \A d \in 0..m :
           /\ d < m \/ m <= room => F[n + 1 + d] = f[n + 1] /\ G[n + 1 + d] = g[n + 1] + d
           /\ d = m /\ m > room => F[n + 1 + d] = f[n + 1] + 1 /\ G[n + 1 + d] = 1
    <2> SUFFICES ASSUME NEW d \in 0..m
                 PROVE  /\ d < m \/ m <= room =>
                              F[n + 1 + d] = f[n + 1] /\ G[n + 1 + d] = g[n + 1] + d
                        /\ d = m /\ m > room =>
                              F[n + 1 + d] = f[n + 1] + 1 /\ G[n + 1 + d] = 1
      OBVIOUS
    <2>1. CASE d = 0
      <3>1. n + 1 \in 1..(n + 1) /\ n + 1 + 0 = n + 1 /\ g[n + 1] + 0 = g[n + 1]
        OBVIOUS
      <3> QED BY <1>1, <1>c, <2>1, <3>1
    <2>2. CASE d \in 1..(m - 1)
      BY <1>d, <2>2
    <2>3. CASE d = m
      BY <1>e, <2>3
    <2> QED BY <2>1, <2>2, <2>3
  <1>3. CASE j <= n + 1
    <2>1. i \in 1..n /\ i \in 1..(n + 1) /\ j \in 1..(n + 1)
      BY <1>3
    <2>2. F[i] = f[i] /\ G[i] = g[i] /\ F[j] = f[j] /\ G[j] = g[j] /\ Follows(a, i, j, f, g)
      BY <1>c, <2>1 DEF InTurn
    <2> QED BY <2>2 DEF Follows
  <1>4. CASE i > n
    <2>1. PICK d \in 0..(m - 1) : i = n + 1 + d
      <3>1. i - (n + 1) \in 0..(m - 1) /\ i = n + 1 + (i - (n + 1))
        BY <1>4
      <3> QED BY <3>1
    <2>2. PICK h \in 1..m : j = n + 1 + h /\ h > d
      <3>1. j - (n + 1) \in 1..m /\ j = n + 1 + (j - (n + 1)) /\ j - (n + 1) > d
        BY <1>4, <2>1
      <3> QED BY <3>1
    <2>3. F[i] = f[n + 1] /\ G[i] = g[n + 1] + d
      <3>1. d \in 0..m /\ d < m
        OBVIOUS
      <3>2. F[n + 1 + d] = f[n + 1] /\ G[n + 1 + d] = g[n + 1] + d
        BY <1>2, <3>1
      <3> QED BY <2>1, <3>2
    <2>4. Full(a, F[i]) - G[i] = room - d /\ j - i = h - d
      BY <1>1, <1>b, <2>1, <2>2, <2>3
    <2>5. CASE h < m \/ m <= room
      <3>1. F[j] = f[n + 1] /\ G[j] = g[n + 1] + h
        BY <1>2, <2>2, <2>5
      <3>2. h - d <= room - d /\ G[i] + (h - d) = G[j]
        BY <1>1, <1>b, <2>1, <2>2, <2>3, <2>5, <3>1
      <3> QED BY <2>2, <2>1, <2>3, <2>4, <3>1, <3>2 DEF Follows
    <2>6. CASE h = m /\ m > room
      <3>1. F[j] = f[n + 1] + 1 /\ G[j] = 1
        BY <1>2, <2>2, <2>6
      <3>2. m = room + 1
        BY <1>0, <2>6, Zenon
      <3>3. h - d = (room - d) + 1 /\ ~(h - d <= room - d)
        <4>1. h = room + 1
          BY <2>6, <3>2
        <4> QED BY <4>1
      <3>4. F[j] > F[i]
        BY <1>1, <2>3, <3>1
      <3> QED BY <2>3, <2>4, <3>1, <3>3, <3>4 DEF Follows
    <2> QED BY <2>2, <2>5, <2>6
  <1>5. CASE i <= n /\ j > n + 1
    <2>1. i \in 1..n /\ i \in 1..(n + 1) /\ n + 1 \in 1..(n + 1) /\ i < n + 1
      BY <1>5
    <2>2. F[i] = f[i] /\ G[i] = g[i] /\ Follows(a, i, n + 1, f, g)
      BY <1>c, <2>1 DEF InTurn
    <2>3. PICK left \in Nat : left = Full(a, f[i]) - g[i] /\ Full(a, f[i]) \in Nat
      <3>1. g[i] \in Nat /\ Full(a, f[i]) \in Nat /\ g[i] <= Full(a, f[i])
        BY <1>a, <2>1
      <3> QED BY <3>1
    <2>4. PICK h \in 1..m : j = n + 1 + h
      <3>1. j - (n + 1) \in 1..m /\ j = n + 1 + (j - (n + 1))
        BY <1>5
      <3> QED BY <3>1
    <2>5. PICK d \in 1..n : n + 1 = i + d
      <3>1. n + 1 - i \in 1..n /\ n + 1 = i + (n + 1 - i)
        BY <2>1
      <3> QED BY <3>1
    <2>6. j - i = d + h /\ (n + 1) - i = d /\ f[i] \in Nat /\ g[i] \in Nat
      BY <2>1, <2>4, <2>5
    <2>7. /\ d <= left => f[n + 1] = f[i] /\ g[n + 1] = g[i] + d
          /\ d > left => f[n + 1] > f[i]
      BY <2>2, <2>3, <2>6 DEF Follows
    <2>8. CASE d > left
      <3>1. F[j] = f[n + 1] \/ F[j] = f[n + 1] + 1
        <4>1. CASE h < m \/ m <= room
          <5>1. h \in 0..m
            OBVIOUS
          <5>2. F[n + 1 + h] = f[n + 1]
            BY <1>2, <4>1, <5>1, Zenon
          <5> QED BY <2>4, <5>2
        <4>2. CASE h = m /\ m > room
          <5>1. F[n + 1 + h] = f[n + 1] + 1
            BY <1>2, <4>2
          <5> QED BY <2>4, <5>1
        <4> QED BY <4>1, <4>2
      <3>2. F[j] > f[i]
        BY <1>1, <2>6, <2>7, <2>8, <3>1
      <3>3. ~(d + h <= left) /\ d + h # left + 1
        BY <2>4, <2>5, <2>8
      <3> QED BY <2>2, <2>3, <2>6, <3>2, <3>3 DEF Follows
    <2>9. CASE d <= left
      <3>1. f[n + 1] = f[i] /\ g[n + 1] = g[i] + d
        BY <2>7, <2>9
      <3>2. room = left - d
        BY <1>b, <2>3, <2>5, <2>6, <3>1
      <3>3. CASE h < m \/ m <= room
        <4>1. F[j] = f[i] /\ G[j] = g[i] + (d + h)
          <5>1. F[n + 1 + h] = f[n + 1] /\ G[n + 1 + h] = g[n + 1] + h
            BY <1>2, <3>3
          <5>2. (g[i] + d) + h = g[i] + (d + h)
            BY <2>6
          <5> QED BY <2>4, <3>1, <5>1, <5>2
        <4>2. d + h <= left /\ d + h # left + 1 /\ ~(d + h > left)
          BY <1>b, <2>3, <2>4, <2>5, <3>2, <3>3
        <4> QED BY <2>2, <2>3, <2>6, <4>1, <4>2 DEF Follows
      <3>4. CASE h = m /\ m > room
        <4>1. F[j] = f[i] + 1 /\ G[j] = 1
          BY <1>2, <2>4, <3>1, <3>4
        <4>2. d + h = left + 1 /\ ~(d + h <= left) /\ F[j] > f[i]
          BY <1>b, <2>4, <2>5, <2>6, <3>2, <3>4, <4>1
        <4> QED BY <2>2, <2>3, <2>6, <4>1, <4>2 DEF Follows
      <3> QED BY <2>4, <3>3, <3>4
    <2> QED BY <2>3, <2>5, <2>8, <2>9
  <1> QED BY <1>1, <1>3, <1>4, <1>5

\* v is w and m more units, the next of packet j from its unit u on.
Extends(l, a, n, w, f, g, m, j, u, v) ==
    /\ Numbered(l, a, n, w, f, g)
    /\ \A i \in 1..l : Full(a, i) \in Nat
    /\ j = f[n + 1] /\ u = g[n + 1]
    /\ u + m - 1 <= Full(a, j)
    /\ \A i \in 1..n : v[i] = w[i]
    /\ \A i \in 1..m : v[n + i] = [packet |-> a[j], unit |-> u + i - 1]

\* positions of v that are those of w as far as it goes
PutOn(l, a, n, f, g, m, j, u, v) ==
    \E F, G \in [Nat -> Nat] :
        /\ Numbered(l, a, n + m, v, F, G)
        /\ \A i \in 1..(n + 1) : F[i] = f[i] /\ G[i] = g[i]
        /\ <<F[n + m + 1], G[n + m + 1]>> = After(a, j, u, m)

\* Units that go on where the wire ends have the positions that follow.
LEMMA Putting ==
    ASSUME NEW l \in Nat, NEW a, NEW n \in Nat, NEW w,
           NEW f \in [Nat -> Nat], NEW g \in [Nat -> Nat],
           NEW m \in Nat \ {0}, NEW j \in 1..l, NEW u \in Nat \ {0}, NEW v,
           Extends(l, a, n, w, f, g, m, j, u, v)
    PROVE  PutOn(l, a, n, f, g, m, j, u, v)
  <1> USE DEF Extends
  <1> DEFINE e == n + 1
             end == IF u + m <= Full(a, j) THEN j ELSE j + 1
             first == IF u + m <= Full(a, j) THEN u + m ELSE 1
             F == [i \in Nat |-> IF i <= e THEN f[i] ELSE IF i = e + m THEN end ELSE j]
             G == [i \in Nat |-> IF i <= e THEN g[i] ELSE IF i = e + m THEN first
                                 ELSE u + (i - e)]
  <1>1. e \in Nat /\ j \in Nat /\ Full(a, j) \in Nat /\ end \in Nat /\ first \in Nat
    OBVIOUS
  <1>2. PICK room \in Nat : room = Full(a, j) - u /\ m <= room + 1
    <2>1. Full(a, j) - u \in Nat /\ m <= (Full(a, j) - u) + 1
      BY <1>1
    <2> QED BY <2>1
  <1>3. /\ m <= room => end = j /\ first = u + m
        /\ m > room => end = j + 1 /\ first = 1
    BY <1>1, <1>2
  <1>4. After(a, j, u, m) = <<end, first>>
    BY DEF After
  <1> HIDE DEF end, first
  <1>5. F \in [Nat -> Nat] /\ G \in [Nat -> Nat]
    <2>1. \A i \in Nat : i > e => u + (i - e) \in Nat
      BY <1>1
    <2> QED BY <1>1, <2>1
  <1>6. \A i \in 1..e : F[i] = f[i] /\ G[i] = g[i]
    BY <1>1
  <1>7. \A i \in 1..(m - 1) : F[e + i] = j /\ G[e + i] = u + i
    <2> SUFFICES ASSUME NEW i \in 1..(m - 1) PROVE F[e + i] = j /\ G[e + i] = u + i
      OBVIOUS
    <2>1. e + i \in Nat /\ ~(e + i <= e) /\ e + i # e + m /\ (e + i) - e = i
      BY <1>1
    <2> QED BY <2>1
  <1>8. F[e + m] = end /\ G[e + m] = first
    <2>1. e + m \in Nat /\ ~(e + m <= e)
      BY <1>1
    <2> QED BY <2>1
  <1> HIDE DEF F, G
  <1>9. \A i \in 1..n : /\ f[i] \in 1..l /\ g[i] \in 1..Full(a, f[i]) /\ Full(a, f[i]) \in Nat
                        /\ w[i] = [packet |-> a[f[i]], unit |-> g[i]]
    BY DEF Numbered, OnWire
  <1>10. OnWire(l, a, n + m, v, F, G)
    <2> SUFFICES ASSUME NEW i \in 1..(n + m)
                 PROVE  /\ F[i] \in 1..l /\ G[i] \in 1..Full(a, F[i])
                        /\ v[i] = [packet |-> a[F[i]], unit |-> G[i]]
      BY DEF OnWire
    <2>1. CASE i <= n
      <3>1. i \in 1..n /\ i \in 1..e
        BY <1>1, <2>1
      <3>2. F[i] = f[i] /\ G[i] = g[i] /\ v[i] = w[i]
        BY <1>6, <3>1
      <3> QED BY <1>9, <3>1, <3>2
    <2>2. CASE i > n
      <3>1. PICK d \in 0..(m - 1) : i = e + d /\ i = n + (d + 1)
        <4>1. i - e \in 0..(m - 1) /\ i = e + (i - e) /\ i = n + ((i - e) + 1)
          BY <2>2
        <4> QED BY <4>1
      <3>2. F[i] = j /\ G[i] = u + d
        <4>1. CASE d = 0
          <5>1. i \in 1..e /\ i = n + 1 /\ u + d = u
            BY <1>1, <3>1, <4>1
          <5> QED BY <1>6, <5>1
        <4>2. CASE d > 0
          <5>1. d \in 1..(m - 1)
            BY <4>2
          <5> QED BY <1>7, <3>1, <5>1
        <4> QED BY <3>1, <4>1, <4>2
      <3>3. v[i] = [packet |-> a[j], unit |-> u + d]
        <4>1. d + 1 \in 1..m /\ u + (d + 1) - 1 = u + d
          BY <3>1
        <4>2. v[n + (d + 1)] = [packet |-> a[j], unit |-> u + (d + 1) - 1]
          BY <4>1
        <4> QED BY <3>1, <4>1, <4>2
      <3>4. u + d \in 1..Full(a, j)
        BY <1>1, <3>1
      <3> QED BY <3>2, <3>3, <3>4
    <2> QED BY <2>1, <2>2
  <1>11. InTurn(a, n + m, F, G)
    <2>1. InTurn(a, n, f, g)
      BY DEF Numbered
    <2>2. ASSUME NEW i \in 1..n PROVE Full(a, f[i]) \in Nat /\ g[i] <= Full(a, f[i])
      <3>1. g[i] \in 1..Full(a, f[i]) /\ Full(a, f[i]) \in Nat
        BY <1>9, Zenon
      <3> QED BY <3>1
    <2>3. room = Full(a, f[n + 1]) - g[n + 1] /\ Full(a, f[n + 1]) \in Nat
      BY <1>1, <1>2
    <2>4. /\ \A i \in 1..(m - 1) : F[n + 1 + i] = f[n + 1] /\ G[n + 1 + i] = g[n + 1] + i
          /\ m <= room => F[n + 1 + m] = f[n + 1] /\ G[n + 1 + m] = g[n + 1] + m
          /\ m > room => F[n + 1 + m] = f[n + 1] + 1 /\ G[n + 1 + m] = 1
      BY <1>3, <1>7, <1>8
    <2>5. \A i \in 1..(n + 1) : F[i] = f[i] /\ G[i] = g[i]
      BY <1>6
    <2>6. \A i \in 1..n : Full(a, f[i]) \in Nat /\ g[i] <= Full(a, f[i])
      BY <2>2
    <2>7. GoesOn(a, n, m, f, g, F, G, room)
      BY <1>2, <2>3, <2>4, <2>5, <2>6 DEF GoesOn
    <2> QED BY <1>5, <2>1, <2>7, TurnGoesOn
  <1>12. <<F[n + m + 1], G[n + m + 1]>> = After(a, j, u, m)
    <2>1. n + m + 1 = e + m
      BY <1>1
    <2> QED BY <1>4, <1>8, <2>1
  <1> QED BY <1>5, <1>6, <1>10, <1>11, <1>12 DEF Numbered, PutOn

\* The two units of a header, counted from 1, come before the body.
LEMMA AfterHeader ==
    ASSUME NEW a, NEW j, NEW size \in Nat \ {0}, Full(a, j) = size + 2
    PROVE  /\ Full(a, j) \in Nat /\ 1 + 2 - 1 <= Full(a, j) /\ 3 + size = Full(a, j) + 1
           /\ After(a, j, 1, 2) = <<j, 3>>
  <1>1. Full(a, j) \in Nat /\ 1 + 2 - 1 <= Full(a, j) /\ 3 + size = Full(a, j) + 1
    OBVIOUS
  <1>2. 1 + 2 = 3 /\ 3 <= Full(a, j)
    OBVIOUS
  <1> QED BY <1>1, <1>2 DEF After

\* Positions stay as they are when a packet is accepted.
LEMMA Accepting ==
    ASSUME NEW l \in Nat, NEW a, NEW n \in Nat, NEW w, NEW f, NEW g, Numbered(l, a, n, w, f, g),
           NEW b, \A i \in 1..l : b[i] = a[i]
    PROVE  Numbered(l + 1, b, n, w, f, g)
  <1>1. \A i \in 1..n : /\ f[i] \in 1..l /\ g[i] \in 1..Full(a, f[i])
                        /\ w[i] = [packet |-> a[f[i]], unit |-> g[i]]
    BY DEF Numbered, OnWire
  <1>2. ASSUME NEW i \in 1..n
        PROVE  b[f[i]] = a[f[i]] /\ Full(b, f[i]) = Full(a, f[i]) /\ f[i] \in 1..(l + 1)
    <2>1. f[i] \in 1..l
      BY <1>1
    <2>2. b[f[i]] = a[f[i]] /\ f[i] \in 1..(l + 1)
      BY <2>1
    <2> QED BY <2>2 DEF Full
  <1>3. OnWire(l + 1, b, n, w, f, g)
    BY <1>1, <1>2 DEF OnWire
  <1>4. InTurn(b, n, f, g)
    <2> SUFFICES ASSUME NEW i \in 1..n, NEW j \in 1..(n + 1), i < j
                 PROVE  Follows(b, i, j, f, g)
      BY DEF InTurn
    <2>1. Full(b, f[i]) = Full(a, f[i]) /\ Follows(a, i, j, f, g)
      BY <1>2 DEF Numbered, InTurn
    <2> QED BY <2>1 DEF Follows
  <1> QED BY <1>3, <1>4 DEF Numbered

\* the first k units are the next of packet f[1], and end it or not
FirstOnes(a, w, f, g, full, k) ==
    /\ \A i \in 1..k : w[i] = [packet |-> a[f[1]], unit |-> g[1] + (i - 1)]
    /\ g[1] + k <= full => f[k + 1] = f[1] /\ g[k + 1] = g[1] + k
    /\ g[1] + k = full + 1 => f[k + 1] = f[1] + 1 /\ g[k + 1] = 1

\* The first k units are of one packet; what follows them is the next of its units, or
\* the next packet.
LEMMA FirstUnits ==
    ASSUME NEW l, NEW a, NEW n \in Nat, NEW w, NEW f \in [Nat -> Nat], NEW g \in [Nat -> Nat],
           Numbered(l, a, n, w, f, g),
           NEW full \in Nat, full = Full(a, f[1]), g[1] <= full,
           NEW k \in 1..n, g[1] + k <= full + 1
    PROVE  FirstOnes(a, w, f, g, full, k)
  <1>1. f[1] \in Nat /\ g[1] \in Nat /\ k \in Nat
    OBVIOUS
  <1>2. ASSUME NEW j \in 2..(n + 1)
        PROVE  /\ g[1] + (j - 1) <= full => f[j] = f[1] /\ g[j] = g[1] + (j - 1)
               /\ g[1] + (j - 1) = full + 1 => f[j] = f[1] + 1 /\ g[j] = 1
    <2>1. 1 \in 1..n /\ j \in 1..(n + 1) /\ 1 < j
      OBVIOUS
    <2>2. Follows(a, 1, j, f, g)
      BY <2>1 DEF Numbered, InTurn
    <2>3. /\ g[1] + (j - 1) <= full => j - 1 <= full - g[1]
          /\ g[1] + (j - 1) = full + 1 => j - 1 = full - g[1] + 1
      BY <1>1
    <2> QED BY <2>2, <2>3 DEF Follows
  <1>3. ASSUME NEW i \in 1..k PROVE w[i] = [packet |-> a[f[1]], unit |-> g[1] + (i - 1)]
    <2>1. i \in 1..n
      OBVIOUS
    <2>2. w[i] = [packet |-> a[f[i]], unit |-> g[i]]
      BY <2>1 DEF Numbered, OnWire
    <2>3. CASE i = 1
      <3>1. g[1] + (i - 1) = g[1]
        BY <1>1, <2>3
      <3> QED BY <2>2, <2>3, <3>1
    <2>4. CASE i # 1
      <3>1. i \in 2..(n + 1) /\ g[1] + (i - 1) <= full
        BY <1>1, <2>4
      <3>2. f[i] = f[1] /\ g[i] = g[1] + (i - 1)
        BY <1>2, <3>1
      <3> QED BY <2>2, <3>2
    <2> QED BY <2>3, <2>4
  <1>4. /\ g[1] + k <= full => f[k + 1] = f[1] /\ g[k + 1] = g[1] + k
        /\ g[1] + k = full + 1 => f[k + 1] = f[1] + 1 /\ g[k + 1] = 1
    <2>1. k + 1 \in 2..(n + 1) /\ (k + 1) - 1 = k
      BY <1>1
    <2> QED BY <1>2, <2>1
  <1> QED BY <1>3, <1>4 DEF FirstOnes

-----------------------------------------------------------------------------
(* The invariant.                                                          *)

HandedOn ==
    /\ Len(delivered) <= Len(accepted)
    /\ \A i \in 1..Len(delivered) : delivered[i] = Body(accepted[i])

\* the receiver asks for what comes first on the wire
FromReceiver(f, g) ==
    /\ receiver.pc # "dead" => f[1] = Len(delivered) + 1
    /\ receiver.pc = "idle" => g[1] = 1
    /\ receiver.pc = "body" =>
          /\ f[1] \in 1..Len(accepted)
          /\ receiver.size = Size(accepted[f[1]])
          /\ g[1] = Len(receiver.body) + 3
          /\ \A i \in 1..Len(receiver.body) :
                receiver.body[i] = [packet |-> accepted[f[1]], unit |-> 2 + i]

\* the sender has left to send what follows the wire
ToSender(f, g) ==
    LET e == Len(wire) + 1 IN
    /\ sender.pc \in {"idle", "header"} => f[e] = Len(accepted) + 1 /\ g[e] = 1
    /\ sender.pc = "body" =>
          /\ f[e] = Len(accepted) /\ Len(accepted) \in Nat \ {0}
          /\ g[e] \in Nat \ {0} /\ Len(sender.left) \in Nat \ {0}
          /\ g[e] + Len(sender.left) = Full(accepted, Len(accepted)) + 1
          /\ \A i \in 1..Len(sender.left) :
                sender.left[i] = [packet |-> accepted[Len(accepted)], unit |-> g[e] + i - 1]

Positioned ==
    \E f, g \in [Nat -> Nat] :
        /\ Numbered(Len(accepted), accepted, Len(wire), wire, f, g)
        /\ FromReceiver(f, g)
        /\ ToSender(f, g)

Ordered == ~slipped => HandedOn /\ Positioned

\* The packets accepted have sizes.
LEMMA FullFacts ==
    ASSUME Types
    PROVE  /\ Len(accepted) \in Nat /\ Len(wire) \in Nat /\ Len(delivered) \in Nat
           /\ \A i \in 1..Len(accepted) :
                 /\ accepted[i] \in PacketIds
                 /\ Size(accepted[i]) \in Nat \ {0}
                 /\ Full(accepted, i) = Size(accepted[i]) + 2 /\ Full(accepted, i) \in Nat
  <1>1. accepted \in Seq(PacketIds) /\ wire \in Seq(Unit) /\ delivered \in Seq(Seq(Unit))
    BY DEF Types
  <1>2. /\ Len(accepted) \in Nat /\ Len(wire) \in Nat /\ Len(delivered) \in Nat
        /\ \A i \in 1..Len(accepted) : accepted[i] \in PacketIds
    BY <1>1
  <1>3. \A p \in PacketIds : Size(p) \in Nat \ {0}
    BY FramingAssumption DEF PacketIds
  <1> QED BY <1>2, <1>3 DEF Full

\* At the start nothing is on the wire and nothing is left to do.
LEMMA OrderedInit == Init => Ordered
  <1> SUFFICES ASSUME Init PROVE HandedOn /\ Positioned
    BY DEF Ordered
  <1>1. /\ Len(accepted) = 0 /\ Len(wire) = 0 /\ Len(delivered) = 0
        /\ receiver.pc = "idle" /\ sender.pc = "idle"
    BY DEF Init, Idle
  <1>2. HandedOn
    BY <1>1 DEF HandedOn
  <1> DEFINE f == [i \in Nat |-> 1]
  <1>3. f \in [Nat -> Nat] /\ f[1] = 1
    OBVIOUS
  <1> HIDE DEF f
  <1>4. Numbered(Len(accepted), accepted, Len(wire), wire, f, f)
    BY <1>1 DEF Numbered, OnWire, InTurn
  <1>5. FromReceiver(f, f) /\ ToSender(f, f)
    BY <1>1, <1>3 DEF FromReceiver, ToSender
  <1> QED BY <1>2, <1>3, <1>4, <1>5 DEF Positioned

\* Steps that move no unit.
LEMMA Still ==
    ASSUME Ordered, UNCHANGED <<wire, accepted, delivered>>,
           slipped' = slipped,
           \/ sender'.pc = "dead"
           \/ {sender.pc, sender'.pc} \subseteq {"idle", "header"}
           \/ sender'.pc = sender.pc /\ sender'.left = sender.left,
           \/ receiver'.pc = "dead"
           \/ receiver'.pc = receiver.pc /\ receiver'.size = receiver.size
                 /\ receiver'.body = receiver.body
    PROVE  Ordered'
  <1> SUFFICES ASSUME ~slipped PROVE HandedOn' /\ Positioned'
    BY DEF Ordered
  <1>1. HandedOn'
    BY DEF Ordered, HandedOn
  <1>2. PICK f \in [Nat -> Nat], g \in [Nat -> Nat] :
           /\ Numbered(Len(accepted), accepted, Len(wire), wire, f, g)
           /\ FromReceiver(f, g) /\ ToSender(f, g)
    BY DEF Ordered, Positioned
  <1>3. FromReceiver(f, g)'
    BY <1>2 DEF FromReceiver
  <1>4. ToSender(f, g)'
    BY <1>2 DEF ToSender
  <1> QED BY <1>1, <1>2, <1>3, <1>4 DEF Positioned

\* Every step but the four that move units.
LEMMA OrderedStill ==
    ASSUME Types, Ordered,
           \/ SendStart \/ NoRoom \/ SendFails \/ SenderCloses
           \/ BodyBlocks \/ RecvEnd \/ RecvFails \/ OtherCalls
           \/ UNCHANGED vars
    PROVE  Ordered'
  <1>1. sender \in Sender /\ receiver \in Receiver
    BY DEF Types
  <1>2. GivesUp.pc = "dead"
    BY <1>1, RestingFacts
  <1>3. CASE SendStart
    <2>1. sender'.pc = "header"
      BY <1>1, <1>3 DEF SendStart, Sender
    <2> QED BY <1>3, <2>1, Still DEF SendStart
  <1>4. CASE NoRoom
    <2>1. CASE sender.pc = "header"
      <3>1. sender'.pc = "idle" /\ slipped' = slipped
        BY <1>1, <1>4, <2>1 DEF NoRoom, Sender
      <3> QED BY <1>4, <2>1, <3>1, Still DEF NoRoom
    <2>2. CASE sender.pc = "body" /\ sender.tries + 1 < SendRetries
      <3>1. sender' = [sender EXCEPT !.tries = sender.tries + 1] /\ slipped' = slipped
        BY <1>4, <2>2 DEF NoRoom
      <3>2. sender'.pc = sender.pc /\ sender'.left = sender.left
        BY <1>1, <3>1 DEF Sender
      <3> QED BY <1>4, <3>1, <3>2, Still DEF NoRoom
    <2>3. CASE sender.pc = "body" /\ ~(sender.tries + 1 < SendRetries)
      BY <1>4, <2>3 DEF NoRoom, Ordered
    <2> QED BY <1>4, <2>1, <2>2, <2>3 DEF NoRoom
  <1>5. CASE SendFails
    <2>1. sender'.pc = "dead"
      BY <1>1, <1>5 DEF SendFails, Sender
    <2> QED BY <1>5, <2>1, Still DEF SendFails
  <1>6. CASE SenderCloses
    <2>1. sender'.pc = "dead"
      BY <1>1, <1>6 DEF SenderCloses, Sender
    <2> QED BY <1>6, <2>1, Still DEF SenderCloses
  <1>7. CASE BodyBlocks
    <2>1. CASE receiver.tries + 1 < RecvRetries
      <3>1. /\ receiver' = [receiver EXCEPT !.tries = receiver.tries + 1, !.stale = TRUE]
            /\ slipped' = slipped
        BY <1>7, <2>1 DEF BodyBlocks
      <3>2. /\ receiver'.pc = receiver.pc /\ receiver'.size = receiver.size
            /\ receiver'.body = receiver.body
        BY <1>1, <3>1 DEF Receiver
      <3> QED BY <1>7, <3>1, <3>2, Still DEF BodyBlocks
    <2>2. CASE ~(receiver.tries + 1 < RecvRetries)
      BY <1>7, <2>2 DEF BodyBlocks, Ordered
    <2> QED BY <2>1, <2>2
  <1>8. CASE RecvEnd
    BY <1>2, <1>8, Still DEF RecvEnd
  <1>9. CASE RecvFails
    BY <1>2, <1>9, Still DEF RecvFails
  <1>10. CASE UNCHANGED vars
    BY <1>10, Still DEF vars
  <1>11. CASE OtherCalls
    <2>1. PICK stale \in BOOLEAN : receiver' = [receiver EXCEPT !.stale = stale]
      BY <1>11 DEF OtherCalls
    <2>2. /\ receiver'.pc = receiver.pc /\ receiver'.size = receiver.size
          /\ receiver'.body = receiver.body
      BY <1>1, <2>1 DEF Receiver
    <2> QED BY <1>11, <2>2, Still DEF OtherCalls
  <1> QED BY <1>3, <1>4, <1>5, <1>6, <1>7, <1>8, <1>9, <1>10, <1>11

\* A header is a packet accepted and two more units at the end of the wire.
LEMMA OrderedSendHeader ==
    ASSUME Types, Ordered, SendHeader
    PROVE  Ordered'
  <1> SUFFICES ASSUME ~slipped' PROVE HandedOn' /\ Positioned'
    BY DEF Ordered
  <1> DEFINE p == sender.packet
             l == Len(accepted)
             n == Len(wire)
  <1>1. p \in PacketIds /\ sender \in Sender
    BY DEF Types, SendHeader
  <1>2. ~slipped /\ wire' = wire \o Header(p)
    BY DEF SendHeader
  <1>3. /\ UNCHANGED <<receiver, delivered>>
        /\ accepted' = Append(accepted, p)
        /\ sender'.pc = "body" /\ sender'.left = Body(p)
    BY <1>1 DEF SendHeader, Sender
  <1>4. HandedOn /\ Positioned
    BY <1>2 DEF Ordered
  <1>5. /\ l \in Nat /\ n \in Nat /\ Len(delivered) \in Nat
        /\ \A i \in 1..l : Full(accepted, i) \in Nat
    BY FullFacts
  <1>6. /\ Len(accepted') = l + 1 /\ accepted'[l + 1] = p
        /\ \A i \in 1..l : accepted'[i] = accepted[i]
    <2>1. accepted \in Seq(PacketIds)
      BY DEF Types
    <2> QED BY <1>1, <1>3, <2>1, AppendFacts
  <1>7. /\ Len(wire') = n + 2
        /\ \A i \in 1..n : wire'[i] = wire[i]
        /\ \A i \in 1..2 : wire'[n + i] = [packet |-> p, unit |-> i]
    <2> DEFINE h == Header(p)
    <2>1. /\ wire \in Seq(Unit) /\ h \in Seq(Unit) /\ Len(h) = 2
          /\ \A i \in 1..2 : h[i] = [packet |-> p, unit |-> i]
      BY <1>1, PacketFacts DEF Types
    <2>2. wire' = wire \o h
      BY <1>2
    <2> HIDE DEF h, p
    <2>3. /\ Len(wire \o h) = Len(wire) + Len(h)
          /\ \A i \in 1..Len(wire) : (wire \o h)[i] = wire[i]
          /\ \A i \in 1..Len(h) : (wire \o h)[Len(wire) + i] = h[i]
      <3>1. wire \in Seq(Unit) /\ h \in Seq(Unit)
        BY <2>1
      <3> HIDE DEF l, n
      <3> QED BY <3>1, ConcatFacts
    <2>4. Len(wire') = n + 2 /\ \A i \in 1..n : wire'[i] = wire[i]
      BY <2>1, <2>2, <2>3
    <2>5. \A i \in 1..2 : wire'[n + i] = h[i]
      BY <2>1, <2>2, <2>3
    <2> QED BY <2>1, <2>4, <2>5
  <1>8. /\ Size(p) \in Nat \ {0} /\ Len(Body(p)) = Size(p)
        /\ \A i \in 1..Size(p) : Body(p)[i] = [packet |-> p, unit |-> 2 + i]
        /\ Full(accepted', l + 1) = Size(p) + 2
    <2>1. Size(p) \in 1..MaxSize /\ MaxSize \in Nat
      BY <1>1, PacketFacts, Bounds
    <2>2. Size(p) \in Nat \ {0}
      BY <2>1
    <2>3. /\ Len(Body(p)) = Size(p)
          /\ \A i \in 1..Size(p) : Body(p)[i] = [packet |-> p, unit |-> 2 + i]
      BY <1>1, PacketFacts
    <2>4. Full(accepted', l + 1) = Size(p) + 2
      BY <1>6 DEF Full
    <2> QED BY <2>2, <2>3, <2>4
  <1>9. HandedOn'
    BY <1>3, <1>4, <1>5, <1>6 DEF HandedOn
  <1>10. PICK f \in [Nat -> Nat], g \in [Nat -> Nat] :
            Numbered(l, accepted, n, wire, f, g) /\ FromReceiver(f, g) /\ ToSender(f, g)
    BY <1>4 DEF Positioned
  <1> DEFINE b == accepted'
             v == wire'
  <1>11. b[l + 1] = p /\ Full(b, l + 1) = Size(p) + 2
    BY <1>6, <1>8
  <1>12. Numbered(l + 1, b, n, wire, f, g)
    BY <1>5, <1>6, <1>10, Accepting
  <1>13. f[n + 1] = l + 1 /\ g[n + 1] = 1
    BY <1>10 DEF ToSender, SendHeader
  <1> DEFINE size == Size(p)
  <1>19. size \in Nat \ {0} /\ Full(b, l + 1) = size + 2
    BY <1>8
  <1> HIDE DEF b, v, l, n, p, size
  <1>20. /\ Full(b, l + 1) \in Nat /\ 1 + 2 - 1 <= Full(b, l + 1)
         /\ 3 + size = Full(b, l + 1) + 1 /\ After(b, l + 1, 1, 2) = <<l + 1, 3>>
    BY <1>19, AfterHeader
  <1>14. PICK F \in [Nat -> Nat], G \in [Nat -> Nat] :
            /\ Numbered(l + 1, b, n + 2, v, F, G)
            /\ \A i \in 1..(n + 1) : F[i] = f[i] /\ G[i] = g[i]
            /\ <<F[n + 2 + 1], G[n + 2 + 1]>> = After(b, l + 1, 1, 2)
    <2>1. \A i \in 1..(l + 1) : Full(b, i) \in Nat
      <3> SUFFICES ASSUME NEW i \in 1..(l + 1) PROVE Full(b, i) \in Nat
        OBVIOUS
      <3>1. CASE i = l + 1
        BY <1>20, <3>1
      <3>2. CASE i # l + 1
        <4>1. i \in 1..l
          BY <1>5, <3>2
        <4>2. Full(b, i) = Full(accepted, i)
          BY <1>6, <4>1 DEF Full, b
        <4> QED BY <1>5, <4>1, <4>2
      <3> QED BY <3>1, <3>2
    <2>2. /\ \A i \in 1..n : v[i] = wire[i]
          /\ \A i \in 1..2 : v[n + i] = [packet |-> b[l + 1], unit |-> 1 + i - 1]
      <3>1. \A i \in 1..2 : 1 + i - 1 = i
        OBVIOUS
      <3> QED BY <1>7, <1>11, <3>1 DEF v
    <2>4. l + 1 \in Nat /\ l + 1 \in 1..(l + 1) /\ n \in Nat /\ 2 \in Nat \ {0} /\ 1 \in Nat \ {0}
      BY <1>5
    <2> DEFINE k == l + 1
    <2>5. k \in Nat /\ k \in 1..k /\ Extends(k, b, n, wire, f, g, 2, k, 1, v)
      BY <1>12, <1>13, <1>20, <2>1, <2>2, <2>4 DEF Extends
    <2> HIDE DEF k
    <2>6. PutOn(k, b, n, f, g, 2, k, 1, v)
      BY <2>4, <2>5, Putting
    <2> QED BY <2>6 DEF k, PutOn
  <1>15. F[n + 3] = l + 1 /\ G[n + 3] = 3
    <2>1. n + 2 + 1 = n + 3
      BY <1>5
    <2> QED BY <1>14, <1>20, <2>1
  <1>16. F[1] = f[1] /\ G[1] = g[1]
    BY <1>5, <1>14
  <1>17. FromReceiver(F, G)'
    <2>1. FromReceiver(f, g)
      BY <1>10
    <2>2. ASSUME f[1] \in 1..l PROVE f[1] \in 1..(l + 1) /\ accepted'[f[1]] = accepted[f[1]]
      <3>1. f[1] \in 1..(l + 1)
        BY <1>5, <2>2
      <3> QED BY <1>6, <2>2, <3>1
    <2>3. /\ receiver.pc = "body" =>
              /\ f[1] \in 1..(l + 1)
              /\ receiver.size = Size(accepted'[f[1]])
              /\ \A i \in 1..Len(receiver.body) :
                    receiver.body[i] = [packet |-> accepted'[f[1]], unit |-> 2 + i]
      BY <2>1, <2>2 DEF FromReceiver, l
    <2> QED BY <1>3, <1>6, <1>16, <2>1, <2>3 DEF FromReceiver
  <1>18. ToSender(F, G)'
    <2>1. Len(wire') + 1 = n + 3 /\ Len(accepted') = l + 1
      BY <1>5, <1>6, <1>7
    <2>2. l + 1 \in Nat \ {0} /\ 3 \in Nat \ {0} /\ 3 + size = Full(b, l + 1) + 1
      BY <1>5, <1>20
    <2>3. \A i \in 1..size : Body(p)[i] = [packet |-> b[l + 1], unit |-> 3 + i - 1]
      <3>1. \A i \in 1..size : 3 + i - 1 = 2 + i
        BY <1>19
      <3> QED BY <1>8, <1>11, <3>1 DEF size
    <2>4. sender'.pc = "body" /\ sender'.left = Body(p) /\ Len(Body(p)) = size
      BY <1>3, <1>8 DEF size
    <2> QED BY <1>15, <1>19, <2>1, <2>2, <2>3, <2>4 DEF ToSender, b
  <1> QED BY <1>6, <1>7, <1>9, <1>14, <1>17, <1>18 DEF Positioned, b, v

\* what comes after the first m of the z units that packet j still has
PartLast(a, j, u, m, z) ==
    /\ u + m - 1 <= Full(a, j)
    /\ m = z => After(a, j, u, m) = <<j + 1, 1>>
    /\ m # z => After(a, j, u, m) = <<j, u + m>>

\* What is known of a body sent in part.
LEMMA AfterPart ==
    ASSUME NEW a, NEW j, Full(a, j) \in Nat,
           NEW u \in Nat \ {0}, NEW z \in Nat \ {0}, u + z = Full(a, j) + 1, NEW m \in 1..z
    PROVE  PartLast(a, j, u, m, z)
  <1>1. u + m - 1 <= Full(a, j)
    OBVIOUS
  <1>2. (m = z => ~(u + m <= Full(a, j))) /\ (m # z => u + m <= Full(a, j))
    OBVIOUS
  <1> QED BY <1>1, <1>2 DEF After, PartLast

\* The arithmetic of what is left to send.
LEMMA PartLeft ==
    ASSUME NEW u \in Nat \ {0}, NEW z \in Nat \ {0}, NEW m \in 1..z, m # z, NEW r, r = z - m
    PROVE  /\ u + m \in Nat \ {0} /\ r \in Nat \ {0} /\ (u + m) + r = u + z
           /\ \A i \in 1..r : i + m \in 1..z /\ u + (i + m) - 1 = u + m + i - 1
  OBVIOUS

\* A part of a body is more of the packet accepted last, at the end of the wire.
LEMMA OrderedSendBody ==
    ASSUME Types, Ordered, SendBody
    PROVE  Ordered'
  <1> SUFFICES ASSUME ~slipped PROVE HandedOn' /\ Positioned'
    BY DEF Ordered, SendBody
  <1> DEFINE l == Len(accepted)
             n == Len(wire)
             left == sender.left
             z == Len(left)
             p == accepted[l]
  <1>1. HandedOn /\ Positioned
    BY DEF Ordered
  <1>2. PICK part \in Parts(left) :
           /\ wire' = wire \o part
           /\ sender' = [sender EXCEPT !.pc = IF Rest(left, part) = <<>> THEN "idle" ELSE "body",
                                       !.left = Rest(left, part), !.tries = 0]
    BY DEF SendBody
  <1> DEFINE m == Len(part)
             rest == Rest(left, part)
             v == wire'
  <1>3. /\ UNCHANGED <<receiver, accepted, delivered>>
        /\ sender'.pc = (IF rest = <<>> THEN "idle" ELSE "body") /\ sender'.left = rest
    <2>1. sender \in Sender
      BY DEF Types
    <2> QED BY <1>2, <2>1 DEF SendBody, Sender
  <1>4. HandedOn'
    BY <1>1, <1>3 DEF HandedOn
  <1>5. /\ part \in Seq(Unit) /\ rest \in Seq(Unit) /\ m \in 1..z /\ Len(rest) = z - m
        /\ \A i \in 1..m : part[i] = left[i]
        /\ \A i \in 1..Len(rest) : rest[i] = left[i + m]
    <2>1. left \in Seq(Unit)
      BY DEF Types, Sender
    <2> HIDE DEF left
    <2> QED BY <2>1, PartFacts
  <1>6. /\ Len(v) = n + m
        /\ \A i \in 1..n : v[i] = wire[i]
        /\ \A i \in 1..m : v[n + i] = part[i]
    <2>1. wire \in Seq(Unit) /\ part \in Seq(Unit)
      BY <1>5 DEF Types
    <2> HIDE DEF l, left
    <2>2. /\ Len(wire \o part) = Len(wire) + Len(part)
          /\ \A i \in 1..Len(wire) : (wire \o part)[i] = wire[i]
          /\ \A i \in 1..Len(part) : (wire \o part)[Len(wire) + i] = part[i]
      BY <2>1, ConcatFacts
    <2> QED BY <1>2, <2>2
  <1>7. PICK f \in [Nat -> Nat], g \in [Nat -> Nat] :
            Numbered(l, accepted, n, wire, f, g) /\ FromReceiver(f, g) /\ ToSender(f, g)
    <2> HIDE DEF z, p, m, rest, v
    <2> QED BY <1>1 DEF Positioned
  <1> DEFINE u == g[n + 1]
  <1>8. /\ f[n + 1] = l /\ l \in Nat \ {0} /\ u \in Nat \ {0} /\ z \in Nat \ {0}
        /\ u + z = Full(accepted, l) + 1
        /\ \A i \in 1..z : left[i] = [packet |-> p, unit |-> u + i - 1]
    BY <1>7 DEF ToSender, SendBody
  <1>9. n \in Nat /\ \A i \in 1..l : Full(accepted, i) \in Nat
    BY FullFacts
  <1>10. rest = <<>> <=> m = z
    <2>1. rest \in Seq(Unit) /\ Len(rest) = z - m /\ m \in 1..z /\ z \in Nat
      BY <1>5, <1>8
    <2> HIDE DEF rest, z, m
    <2>2. rest = <<>> <=> Len(rest) = 0
      BY <2>1, EmptyIff
    <2>3. z - m = 0 <=> m = z
      <3>1. m \in Nat /\ z \in Nat
        BY <2>1
      <3> QED BY <3>1
    <2> QED BY <2>1, <2>2, <2>3
  <1>11. \A i \in 1..m : v[n + i] = [packet |-> p, unit |-> u + i - 1]
    <2> HIDE DEF v, n, z, m, p, u
    <2> SUFFICES ASSUME NEW i \in 1..m PROVE v[n + i] = [packet |-> p, unit |-> u + i - 1]
      OBVIOUS
    <2>1. i \in 1..z
      BY <1>5, <1>8
    <2> QED BY <1>5, <1>6, <1>8, <2>1
  <1> HIDE DEF l, n, left, z, m, rest, v, u, p
  <1>12. m \in Nat \ {0} /\ l \in 1..l /\ n \in Nat /\ l \in Nat /\ Full(accepted, l) \in Nat
    <2>1. m \in Nat \ {0}
      BY <1>5, <1>8
    <2>2. l \in 1..l
      BY <1>8
    <2> QED BY <1>8, <1>9, <2>1, <2>2
  <1>13. /\ u + m - 1 <= Full(accepted, l)
         /\ m = z => After(accepted, l, u, m) = <<l + 1, 1>>
         /\ m # z => After(accepted, l, u, m) = <<l, u + m>>
    <2>1. /\ Full(accepted, l) \in Nat /\ u \in Nat \ {0} /\ z \in Nat \ {0}
          /\ u + z = Full(accepted, l) + 1 /\ m \in 1..z
      BY <1>5, <1>8, <1>12
    <2>2. PartLast(accepted, l, u, m, z)
      BY <2>1, AfterPart
    <2> QED BY <2>2 DEF PartLast
  <1>14. Extends(l, accepted, n, wire, f, g, m, l, u, v)
    BY <1>6, <1>7, <1>8, <1>9, <1>11, <1>13 DEF Extends, u, p
  <1>15. PutOn(l, accepted, n, f, g, m, l, u, v)
    BY <1>8, <1>12, <1>14, Putting
  <1>16. PICK F \in [Nat -> Nat], G \in [Nat -> Nat] :
            /\ Numbered(l, accepted, n + m, v, F, G)
            /\ \A i \in 1..(n + 1) : F[i] = f[i] /\ G[i] = g[i]
            /\ <<F[n + m + 1], G[n + m + 1]>> = After(accepted, l, u, m)
    BY <1>15 DEF PutOn
  <1>17. F[1] = f[1] /\ G[1] = g[1]
    BY <1>12, <1>16
  <1>18. FromReceiver(F, G)'
    BY <1>3, <1>7, <1>17 DEF FromReceiver
  <1>19. ToSender(F, G)'
    <2>1. Len(wire') + 1 = n + m + 1 /\ Len(accepted') = l
      BY <1>3, <1>6 DEF v, l
    <2>2. CASE m = z
      <3>1. <<F[n + m + 1], G[n + m + 1]>> = <<l + 1, 1>> /\ sender'.pc = "idle"
        BY <1>3, <1>10, <1>13, <1>16, <2>2, Zenon
      <3>2. F[n + m + 1] = l + 1 /\ G[n + m + 1] = 1
        BY <3>1
      <3> QED BY <2>1, <3>1, <3>2 DEF ToSender
    <2>3. CASE m # z
      <3>0. <<F[n + m + 1], G[n + m + 1]>> = <<l, u + m>> /\ sender'.pc = "body"
        BY <1>3, <1>10, <1>13, <1>16, <2>3, Zenon
      <3>1. F[n + m + 1] = l /\ G[n + m + 1] = u + m /\ sender'.pc = "body"
        BY <3>0
      <3>4. /\ u + m \in Nat \ {0} /\ Len(rest) \in Nat \ {0}
            /\ (u + m) + Len(rest) = u + z
            /\ \A i \in 1..Len(rest) : i + m \in 1..z /\ u + (i + m) - 1 = u + m + i - 1
        BY <1>5, <1>8, <2>3, PartLeft
      <3>2. /\ u + m \in Nat \ {0} /\ Len(rest) \in Nat \ {0}
            /\ (u + m) + Len(rest) = Full(accepted, l) + 1
        BY <1>8, <3>4
      <3>3. \A i \in 1..Len(rest) : rest[i] = [packet |-> p, unit |-> u + m + i - 1]
        <4> SUFFICES ASSUME NEW i \in 1..Len(rest)
                     PROVE  rest[i] = [packet |-> p, unit |-> u + m + i - 1]
          OBVIOUS
        <4>1. i + m \in 1..z /\ u + (i + m) - 1 = u + m + i - 1
          BY <3>4
        <4> QED BY <1>5, <1>8, <4>1
      <3> QED BY <1>3, <1>8, <2>1, <3>1, <3>2, <3>3 DEF ToSender, p
    <2> QED BY <2>2, <2>3
  <1> QED BY <1>3, <1>4, <1>6, <1>16, <1>18, <1>19 DEF Positioned, l, v

\* A header names its packet.
LEMMA HeaderSize ==
    ASSUME NEW p \in PacketIds, NEW part \in Seq(Unit), Len(part) = 2,
           part[1] = [packet |-> p, unit |-> 1], part[2] = [packet |-> p, unit |-> 2]
    PROVE  SizesOf(part) = {Size(p)}
  <1>1. part = Header(p)
    BY DEF Header
  <1>2. \A q \in PacketIds : part = Header(q) => q = p
    <2> SUFFICES ASSUME NEW q \in PacketIds, part = Header(q) PROVE q = p
      OBVIOUS
    <2>1. part[1] = [packet |-> q, unit |-> 1]
      BY DEF Header
    <2>2. [packet |-> q, unit |-> 1].packet = [packet |-> p, unit |-> 1].packet
      BY <2>1
    <2> QED BY <2>2
  <1>3. {q \in PacketIds : part = Header(q)} = {p}
    BY <1>1, <1>2
  <1> QED BY <1>1, <1>3 DEF SizesOf, PacketIds

\* A whole header is read: the receiver goes on with the body of that packet.
LEMMA OrderedRecvHeader ==
    ASSUME Types, Ordered, RecvHeader
    PROVE  Ordered'
  <1> SUFFICES ASSUME ~slipped' PROVE HandedOn' /\ Positioned'
    BY DEF Ordered
  <1> DEFINE l == Len(accepted)
             n == Len(wire)
             v == wire'
  <1>1. PICK part \in Parts(Ahead(2)) :
           /\ wire' = Rest(wire, part)
           /\ slipped' = (slipped \/ Len(part) < 2)
           /\ IF Len(part) < 2 /\ way = "up" THEN receiver' = Resting
              ELSE \E size \in SizesOf(part) : TakeSize(size)
    BY DEF RecvHeader
  <1>2. UNCHANGED <<sender, accepted, delivered>> /\ receiver.pc = "idle"
    BY DEF RecvHeader
  <1>3. /\ part \in Seq(Unit) /\ Len(part) \in 1..n /\ Len(part) <= 2
        /\ Len(v) = n - Len(part)
        /\ \A i \in 1..Len(part) : part[i] = wire[i]
        /\ \A i \in 1..Len(v) : v[i] = wire[i + Len(part)]
    BY <1>1, TakenFacts DEF Types
  <1>4. l \in Nat /\ n \in Nat /\ Len(delivered) \in Nat
    BY FullFacts
  <1>5. ~slipped /\ ~(Len(part) < 2)
    BY <1>1
  <1>6. Len(part) = 2
    <2> DEFINE m == Len(part)
    <2>1. m \in Nat /\ m <= 2 /\ ~(m < 2)
      BY <1>3, <1>4, <1>5
    <2> HIDE DEF m
    <2>2. m = 2
      BY <2>1
    <2> QED BY <2>2 DEF m
  <1>7. HandedOn /\ Positioned
    BY <1>5 DEF Ordered
  <1>8. HandedOn'
    BY <1>2, <1>7 DEF HandedOn
  <1>9. PICK f \in [Nat -> Nat], g \in [Nat -> Nat] :
            Numbered(l, accepted, n, wire, f, g) /\ FromReceiver(f, g) /\ ToSender(f, g)
    <2> HIDE DEF v
    <2> QED BY <1>7 DEF Positioned
  <1> DEFINE j == f[1]
             p == accepted[j]
             size == Size(p)
  <1>10. g[1] = 1 /\ f[1] = Len(delivered) + 1
    BY <1>2, <1>9 DEF FromReceiver
  <1>11. n \in Nat /\ 2 \in 1..n /\ n - 2 \in Nat /\ 2 \in 0..n
    BY <1>3, <1>4, <1>6
  <1> HIDE DEF l, n, v
  <1>12. j \in 1..l
    <2>1. 1 \in 1..n
      BY <1>11
    <2> QED BY <1>9, <2>1 DEF Numbered, OnWire
  <1>13. p \in PacketIds /\ size \in Nat \ {0} /\ Full(accepted, j) = size + 2
    BY <1>12, FullFacts DEF l
  <1> HIDE DEF p, size
  <1>14. /\ \A i \in 1..2 : wire[i] = [packet |-> p, unit |-> g[1] + (i - 1)]
         /\ f[2 + 1] = j /\ g[2 + 1] = g[1] + 2
    <2> DEFINE full == Full(accepted, j)
    <2>1. full = size + 2 /\ full = Full(accepted, f[1]) /\ g[1] = 1
      BY <1>10, <1>13
    <2> HIDE DEF full
    <2>2. full \in Nat /\ g[1] <= full /\ g[1] + 2 <= full + 1 /\ g[1] + 2 <= full
      BY <1>13, <2>1
    <2>3. FirstOnes(accepted, wire, f, g, full, 2)
      BY <1>9, <1>11, <2>1, <2>2, FirstUnits
    <2> QED BY <2>2, <2>3 DEF FirstOnes, p
  <1>15. SizesOf(part) = {size}
    <2>1. 1 \in 1..2 /\ 2 \in 1..2 /\ g[1] + (1 - 1) = 1 /\ g[1] + (2 - 1) = 2
      BY <1>10
    <2>2. wire[1] = [packet |-> p, unit |-> 1] /\ wire[2] = [packet |-> p, unit |-> 2]
      BY <1>14, <2>1
    <2>3. part[1] = wire[1] /\ part[2] = wire[2]
      BY <1>3, <1>6, <2>1
    <2> QED BY <1>3, <1>6, <1>13, <2>2, <2>3, HeaderSize DEF size
  <1>16. /\ receiver'.pc = "body" /\ receiver'.size = size /\ receiver'.body = <<>>
    <2>1. TakeSize(size)
      BY <1>1, <1>5, <1>15
    <2>2. size \in Nat /\ size # 0 /\ size <= MaxSize /\ MaxSize \in Nat
      <3>1. size \in 1..MaxSize /\ MaxSize \in Nat
        BY <1>13, PacketFacts, Bounds DEF size
      <3> QED BY <3>1
    <2>3. receiver' = [Resting EXCEPT !.pc = "body", !.size = size]
      BY <2>1, <2>2 DEF TakeSize
    <2> QED BY <2>2, <2>3, BodyFacts DEF Types
  <1>17. TakenOff(l, accepted, n, f, g, 2, v)
    <2>1. \A i \in 1..(n - 2) : v[i] = wire[i + 2]
      BY <1>3, <1>6
    <2> QED BY <1>4, <1>9, <1>11, <2>1, Taking
  <1>18. PICK F \in [Nat -> Nat], G \in [Nat -> Nat] :
            /\ Numbered(l, accepted, n - 2, v, F, G)
            /\ F[1] = f[2 + 1] /\ G[1] = g[2 + 1]
            /\ F[n - 2 + 1] = f[n + 1] /\ G[n - 2 + 1] = g[n + 1]
    BY <1>17 DEF TakenOff
  <1>19. Len(wire') = n - 2
    BY <1>3, <1>6 DEF v
  <1>20. F[1] = f[1] /\ G[1] = 3
    BY <1>10, <1>14, <1>18
  <1>21. FromReceiver(F, G)'
    BY <1>2, <1>10, <1>12, <1>16, <1>20, EmptyFacts DEF FromReceiver, l, size, p
  <1>22. ToSender(F, G)'
    BY <1>2, <1>9, <1>18, <1>19 DEF ToSender, n
  <1> QED BY <1>2, <1>8, <1>18, <1>19, <1>21, <1>22 DEF Positioned, l, v

\* c of z units of a body were there, from u on m more have come
Missing(c, z, m, u, full) ==
    /\ full \in Nat /\ u <= full /\ u + m <= full + 1 /\ u + m = (c + m) + 3
    /\ c + m < z => u + m <= full
    /\ ~(c + m < z) => c + m = z /\ u + m = full + 1
    /\ \A i \in 1..m : u + (i - 1) = 2 + (c + i)

\* The arithmetic of what is left to receive.
LEMMA PartMissing ==
    ASSUME NEW c \in Nat, NEW z \in Nat, c < z, NEW m \in Nat \ {0}, m <= z - c,
           NEW u, u = c + 3, NEW full, full = z + 2
    PROVE  Missing(c, z, m, u, full)
  BY DEF Missing

\* Units of one packet, without a gap, become more of its body.
LEMMA MoreOfBody ==
    ASSUME NEW p, NEW body \in Seq(Unit), NEW part \in Seq(Unit),
           \A i \in 1..Len(body) : body[i] = [packet |-> p, unit |-> 2 + i],
           \A i \in 1..Len(part) : part[i] = [packet |-> p, unit |-> 2 + (Len(body) + i)]
    PROVE  \A i \in 1..(Len(body) + Len(part)) :
              (body \o part)[i] = [packet |-> p, unit |-> 2 + i]
  <1> SUFFICES ASSUME NEW i \in 1..(Len(body) + Len(part))
               PROVE  (body \o part)[i] = [packet |-> p, unit |-> 2 + i]
    OBVIOUS
  <1>1. /\ Len(body) \in Nat /\ Len(part) \in Nat
        /\ \A j \in 1..Len(body) : (body \o part)[j] = body[j]
        /\ \A j \in 1..Len(part) : (body \o part)[Len(body) + j] = part[j]
    BY ConcatFacts
  <1>2. CASE i \in 1..Len(body)
    BY <1>1, <1>2
  <1>3. CASE i \notin 1..Len(body)
    <2>1. PICK j \in 1..Len(part) : i = Len(body) + j
      <3>1. i - Len(body) \in 1..Len(part) /\ i = Len(body) + (i - Len(body))
        BY <1>1, <1>3
      <3> QED BY <3>1
    <2>2. (body \o part)[Len(body) + j] = [packet |-> p, unit |-> 2 + (Len(body) + j)]
      BY <1>1
    <2> QED BY <2>1, <2>2
  <1> QED BY <1>2, <1>3

\* All units of a body make the body.
LEMMA WholeBody ==
    ASSUME NEW p \in PacketIds, NEW body \in Seq(Unit), Len(body) = Size(p),
           \A i \in 1..Size(p) : body[i] = [packet |-> p, unit |-> 2 + i]
    PROVE  body = Body(p)
  <1>1. body = [i \in 1..Len(body) |-> body[i]]
    OBVIOUS
  <1>2. body = [i \in 1..Size(p) |-> body[i]]
    BY <1>1
  <1>3. [i \in 1..Size(p) |-> body[i]] = [i \in 1..Size(p) |-> [packet |-> p, unit |-> 2 + i]]
    OBVIOUS
  <1> QED BY <1>2, <1>3 DEF Body

\* A part of a body is read; the last part makes it the body of the next packet.
LEMMA OrderedRecvBody ==
    ASSUME Types, Ordered, RecvBody
    PROVE  Ordered'
  <1> SUFFICES ASSUME ~slipped PROVE HandedOn' /\ Positioned'
    BY DEF Ordered, RecvBody
  <1> DEFINE l == Len(accepted)
             n == Len(wire)
             v == wire'
             body == receiver.body
             c == Len(body)
             z == receiver.size
  <1>1. PICK part \in Parts(Ahead(z - c)) :
           /\ wire' = Rest(wire, part)
           /\ IF Len(body \o part) < z
              THEN /\ receiver' = [receiver EXCEPT !.body = body \o part, !.tries = 0]
                   /\ UNCHANGED delivered
              ELSE receiver' = Resting /\ delivered' = Append(delivered, body \o part)
    BY DEF RecvBody
  <1> DEFINE m == Len(part)
             more == body \o part
  <1>2. UNCHANGED <<sender, accepted>> /\ receiver.pc = "body" /\ receiver \in Receiver
    BY DEF RecvBody, Types
  <1>3. body \in Seq(Unit) /\ c \in Nat /\ z \in Nat /\ c < z /\ z - c \in Nat
    <2>1. body \in Seq(Unit) /\ z \in Nat /\ c < z
      BY <1>2 DEF Types, Receiver
    <2> QED BY <2>1
  <1>4. /\ part \in Seq(Unit) /\ m \in 1..n /\ m <= z - c
        /\ Len(v) = n - m
        /\ \A i \in 1..m : part[i] = wire[i]
        /\ \A i \in 1..Len(v) : v[i] = wire[i + m]
    BY <1>1, <1>3, TakenFacts DEF Types
  <1>5. l \in Nat /\ n \in Nat /\ Len(delivered) \in Nat
    BY FullFacts
  <1>6. more \in Seq(Unit) /\ Len(more) = c + m
    BY <1>3, <1>4, ConcatFacts
  <1>7. HandedOn /\ Positioned
    BY DEF Ordered
  <1>8. PICK f \in [Nat -> Nat], g \in [Nat -> Nat] :
            Numbered(l, accepted, n, wire, f, g) /\ FromReceiver(f, g) /\ ToSender(f, g)
    <2> HIDE DEF v, m, more, c, z, body
    <2> QED BY <1>7 DEF Positioned
  <1> DEFINE j == f[1]
             p == accepted[j]
             u == g[1]
             full == Full(accepted, j)
  <1>9. /\ j = Len(delivered) + 1 /\ j \in 1..l
        /\ z = Size(p) /\ u = c + 3
        /\ \A i \in 1..c : body[i] = [packet |-> p, unit |-> 2 + i]
    BY <1>2, <1>8 DEF FromReceiver
  <1>10. p \in PacketIds /\ full = z + 2
    BY <1>9, FullFacts
  <1>11. full = Full(accepted, f[1]) /\ u = g[1]
    OBVIOUS
  <1> HIDE DEF l, n, v, body, c, z, m, more, p, u, full
  <1>12. m \in Nat \ {0} /\ m \in 1..n /\ m \in 0..n /\ n - m \in Nat
    BY <1>4, <1>5
  <1>13. /\ full \in Nat /\ u <= full /\ u + m <= full + 1 /\ u + m = (c + m) + 3
         /\ c + m < z => u + m <= full
         /\ ~(c + m < z) => c + m = z /\ u + m = full + 1
         /\ \A i \in 1..m : u + (i - 1) = 2 + (c + i)
    <2>1. c \in Nat /\ z \in Nat /\ c < z /\ m \in Nat \ {0} /\ m <= z - c
      BY <1>3, <1>4, <1>12
    <2>2. u = c + 3 /\ full = z + 2
      BY <1>9, <1>10
    <2>3. Missing(c, z, m, u, full)
      BY <2>1, <2>2, PartMissing
    <2> QED BY <2>3 DEF Missing
  <1>14. /\ \A i \in 1..m : wire[i] = [packet |-> p, unit |-> u + (i - 1)]
         /\ u + m <= full => f[m + 1] = j /\ g[m + 1] = u + m
         /\ u + m = full + 1 => f[m + 1] = j + 1 /\ g[m + 1] = 1
    <2>1. g[1] <= full /\ g[1] + m <= full + 1
      BY <1>11, <1>13
    <2>2. FirstOnes(accepted, wire, f, g, full, m)
      BY <1>5, <1>8, <1>11, <1>12, <1>13, <2>1, FirstUnits
    <2> QED BY <2>2 DEF FirstOnes, p, u
  <1>15. \A i \in 1..(c + m) : more[i] = [packet |-> p, unit |-> 2 + i]
    <2>1. \A i \in 1..m : part[i] = [packet |-> p, unit |-> 2 + (c + i)]
      BY <1>4, <1>13, <1>14
    <2> QED BY <1>3, <1>4, <1>9, <2>1, MoreOfBody DEF more, c, m
  <1>16. TakenOff(l, accepted, n, f, g, m, v)
    <2>1. \A i \in 1..(n - m) : v[i] = wire[i + m]
      BY <1>4
    <2> QED BY <1>5, <1>8, <1>12, <2>1, Taking
  <1>17. PICK F \in [Nat -> Nat], G \in [Nat -> Nat] :
            /\ Numbered(l, accepted, n - m, v, F, G)
            /\ F[1] = f[m + 1] /\ G[1] = g[m + 1]
            /\ F[n - m + 1] = f[n + 1] /\ G[n - m + 1] = g[n + 1]
    BY <1>16 DEF TakenOff
  <1>18. Len(wire') = n - m
    BY <1>4 DEF v
  <1>19. ToSender(F, G)'
    BY <1>2, <1>8, <1>17, <1>18 DEF ToSender, n
  <1>20. CASE c + m < z
    <2>1. receiver' = [receiver EXCEPT !.body = more, !.tries = 0] /\ delivered' = delivered
      BY <1>1, <1>6, <1>20 DEF more, z, body
    <2>2. receiver'.pc = "body" /\ receiver'.size = z /\ receiver'.body = more
      BY <1>2, <2>1 DEF Receiver, z
    <2>3. HandedOn'
      BY <1>2, <1>7, <2>1 DEF HandedOn
    <2>4. F[1] = j /\ G[1] = (c + m) + 3
      BY <1>13, <1>14, <1>17, <1>20
    <2>5. FromReceiver(F, G)'
      BY <1>2, <1>6, <1>9, <1>15, <2>1, <2>2, <2>4 DEF FromReceiver, l, p
    <2> QED BY <1>2, <1>17, <1>18, <1>19, <2>3, <2>5 DEF Positioned, l, v
  <1>21. CASE ~(c + m < z)
    <2>1. receiver' = Resting /\ delivered' = Append(delivered, more)
      BY <1>1, <1>6, <1>21 DEF more, z, body
    <2>2. receiver'.pc = "idle"
      BY <1>2, <2>1, RestingFacts
    <2>3. more = Body(p)
      BY <1>6, <1>9, <1>10, <1>13, <1>15, <1>21, WholeBody
    <2>4. /\ Len(delivered') = Len(delivered) + 1
          /\ delivered'[Len(delivered) + 1] = more
          /\ \A i \in 1..Len(delivered) : delivered'[i] = delivered[i]
      <3>1. delivered \in Seq(Seq(Unit))
        BY DEF Types
      <3> QED BY <1>6, <2>1, <3>1, AppendFacts
    <2>5. HandedOn'
      <3>1. Len(delivered) + 1 <= l /\ Len(delivered) + 1 = j
        BY <1>5, <1>9
      <3>2. ASSUME NEW i \in 1..(Len(delivered) + 1)
            PROVE  delivered'[i] = Body(accepted[i])
        <4>1. CASE i = Len(delivered) + 1
          BY <1>9, <2>3, <2>4, <4>1 DEF p
        <4>2. CASE i # Len(delivered) + 1
          <5>1. i \in 1..Len(delivered)
            <6> DEFINE d == Len(delivered)
            <6>1. d \in Nat /\ i \in 1..(d + 1) /\ i # d + 1
              BY <1>5, <4>2
            <6> HIDE DEF d
            <6>2. i \in 1..d
              BY <6>1
            <6> QED BY <6>2 DEF d
          <5> QED BY <1>7, <2>4, <5>1 DEF HandedOn
        <4> QED BY <4>1, <4>2
      <3> QED BY <1>2, <2>4, <3>1, <3>2 DEF HandedOn, l
    <2>6. F[1] = j + 1 /\ G[1] = 1
      BY <1>13, <1>14, <1>17, <1>21
    <2>7. FromReceiver(F, G)'
      BY <1>9, <2>2, <2>4, <2>6 DEF FromReceiver
    <2> QED BY <1>2, <1>17, <1>18, <1>19, <2>5, <2>7 DEF Positioned, l, v
  <1> QED BY <1>20, <1>21

-----------------------------------------------------------------------------
\* InStep: while nothing slipped, what is handed on are the bodies of the packets sent,
\* whole, in their order and once (ReceivePacket, ProcessClientData).
THEOREM DeliveredInStep == Spec => []InStep
  <1>1. Types /\ Ordered /\ [Next]_vars => Ordered'
    <2> SUFFICES ASSUME Types, Ordered, [Next]_vars PROVE Ordered'
      OBVIOUS
    <2>1. CASE SendHeader
      BY <2>1, OrderedSendHeader
    <2>2. CASE SendBody
      BY <2>2, OrderedSendBody
    <2>3. CASE RecvHeader
      BY <2>3, OrderedRecvHeader
    <2>4. CASE RecvBody
      BY <2>4, OrderedRecvBody
    <2>5. CASE \/ SendStart \/ NoRoom \/ SendFails \/ SenderCloses
               \/ BodyBlocks \/ RecvEnd \/ RecvFails \/ OtherCalls
               \/ UNCHANGED vars
      BY <2>5, OrderedStill
    <2> QED BY <2>1, <2>2, <2>3, <2>4, <2>5 DEF Next, SendStep, RecvStep
  <1>2. Ordered => InStep
    BY DEF Ordered, InStep, HandedOn
  <1> QED BY <1>1, <1>2, OrderedInit, TypesHold, PTL DEF Spec
=============================================================================
