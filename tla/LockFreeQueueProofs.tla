------------------------- MODULE LockFreeQueueProofs -------------------------
(***************************************************************************)
(* Proofs about LockFreeQueue, for any number of producers, any items and  *)
(* any number of nodes, whether addresses are used again or not.           *)
(*                                                                         *)
(* Two invariants are proved.  QInv describes the list as long as it is    *)
(* Intact: until a producer accesses a deleted node, or new returns an     *)
(* address that a producer still holds.  Owned says what is true even      *)
(* then: who owns which node, and how often each object was deleted.       *)
(*                                                                         *)
(* QInv numbers the nodes in the order in which they are linked: node i is *)
(* f[i], its item v[i], and r[f[i]] = i.  lo is the number of              *)
(* the node head points to, t that of tail, hi that of the last node.      *)
(* These numbers are not part of the state: the invariant says that there  *)
(* are some.                                                               *)
(***************************************************************************)
EXTENDS LockFreeQueue, FiniteSetTheorems, SequenceTheorems, WellFoundedInduction, TLAPS

\* where a thread is belongs to the guard of each of its steps
USE DEF At, ConsumerAt

Pointers == Nodes \cup {Null}
ProducerPcs == {"idle", "tail", "next", "check", "link", "swing", "help"}
ConsumerPcs == {"idle", "tail", "next", "check", "help", "data", "head", "delete"}
ProdRecord == [pc : ProducerPcs, node : Pointers, last : Pointers, next : Pointers,
               count : 0..MaxItems]
ConsRecord == [pc : ConsumerPcs, first : Pointers, last : Pointers, next : Pointers,
               data : Values \cup {Null}]

Types ==
    /\ callers \subseteq Producers /\ weak \in BOOLEAN
    /\ head \in Nodes /\ tail \in Nodes
    /\ allocated \subseteq used /\ used \subseteq Nodes
    /\ next \in [Nodes -> Pointers]
    /\ data \in [Nodes -> Values \cup {Null}]
    /\ prod \in [Producers -> ProdRecord]
    /\ cons \in ConsRecord
    /\ deleted \in [Values -> Nat]
    /\ misused \in BOOLEAN /\ recycled \in BOOLEAN /\ destroyed \in BOOLEAN

Uncalled == \A p \in Producers \ callers : prod[p].pc = "idle"

\* the producer has a node that is not linked
Pending(p) == prod[p].pc \in {"tail", "next", "check", "link", "help"}

\* the first node that is not deleted
Oldest(lo) == IF cons.pc = "delete" THEN lo - 1 ELSE lo

Ghosts(f, v, r, lo, hi, t) ==
    /\ f \in [Nat -> Nodes] /\ v \in [Nat -> Values] /\ r \in [Nodes -> Nat]
    /\ lo \in Nat /\ hi \in Nat /\ t \in Nat /\ lo <= t /\ t <= hi

\* The nodes are linked in the order of their numbers, from head over tail to the last one.
Ordered(f, r, lo, hi, t) ==
    /\ cons.pc = "delete" => lo >= 1
    /\ head = f[lo] /\ tail = f[t]
    /\ next[f[hi]] = Null
    /\ \A i \in Oldest(lo)..hi : r[f[i]] = i /\ (i < hi => next[f[i]] = f[i + 1])
    /\ \A n \in Nodes : r[n] <= hi /\ (next[n] # Null => r[n] < r[next[n]])

\* Each has its item, the first one none, and no item is there twice.
Carried(f, v, lo, hi) ==
    /\ \A i \in Oldest(lo)..hi : data[f[i]] = IF i = 0 THEN Null ELSE v[i]
    /\ \A i, j \in 1..hi : v[i] = v[j] => i = j

\* Allocated are the nodes of the list and those that producers have still to link.
Held(f, lo, hi) ==
    ~destroyed =>
        \A n \in Nodes :
            n \in allocated <=> \/ \E i \in Oldest(lo)..hi : n = f[i]
                                \/ \E p \in Producers : Pending(p) /\ n = prod[p].node

\* A node that is not linked is its producer's alone.
UnlinkedOne(p, f, v, lo, hi) ==
    Pending(p) =>
        /\ prod[p].node \in Nodes /\ prod[p].count >= 1
        /\ next[prod[p].node] = Null
        /\ data[prod[p].node] = <<p, prod[p].count>>
        /\ \A i \in Oldest(lo)..hi : f[i] # prod[p].node
        /\ \A i \in 1..hi : v[i] # <<p, prod[p].count>>
        /\ \A q \in Producers : Pending(q) /\ prod[q].node = prod[p].node => p = q

Unlinked(f, v, lo, hi) == \A p \in Producers : UnlinkedOne(p, f, v, lo, hi)

\* the producer has read the tail
Holding(p) == prod[p].pc \in {"next", "check", "link", "help", "swing"}

\* What it has read was the tail, and, deleted or not, no producer's own node since.
FollowingOne(p, f, r, hi, t) ==
    LET last == prod[p].last IN
    /\ Holding(p) => /\ last \in Nodes /\ r[last] <= t /\ last = f[r[last]]
                     /\ \A q \in Producers : Pending(q) => prod[q].node # last
    /\ (prod[p].pc = "check" /\ prod[p].next # Null) \/ prod[p].pc = "help" =>
          r[last] < hi /\ prod[p].next = f[r[last] + 1]
    /\ prod[p].pc = "swing" => r[last] < hi /\ prod[p].node = f[r[last] + 1]

Following(f, r, hi, t) == \A p \in Producers : FollowingOne(p, f, r, hi, t)

\* A sole producer: the tail is the last node, but between its link and its swing.
AloneOne(p, f, hi, t) ==
    /\ prod[p].pc \notin {"swing", "help"} => t = hi
    /\ prod[p].pc \in {"next", "check", "link"} => prod[p].last = tail
    /\ prod[p].pc = "check" => prod[p].next = Null
    /\ prod[p].pc # "help"
    /\ prod[p].pc = "swing" => /\ prod[p].node = f[hi] /\ prod[p].last # f[hi]
                               /\ t = hi \/ (t = hi - 1 /\ prod[p].last = tail)

Alone(f, hi, t) == SoleProducer => \A p \in callers : AloneOne(p, f, hi, t)

\* What the consumer knows: first is the head, last was the tail, next comes after first.
Consuming(f, v, r, lo, hi, t) ==
    LET last == cons.last IN
    /\ cons.pc \in {"tail", "next", "check", "help", "data", "head"} => cons.first = f[lo]
    /\ cons.pc \in {"next", "check", "help", "data", "head"} =>
          last \in Nodes /\ lo <= r[last] /\ r[last] <= t /\ last = f[r[last]]
    /\ (cons.pc = "check" /\ cons.next # Null) \/ cons.pc = "help" =>
          lo < hi /\ cons.next = f[lo + 1]
    /\ cons.pc = "help" => last = f[lo]
    /\ cons.pc \in {"data", "head"} => lo < t /\ cons.next = f[lo + 1]
    /\ cons.pc = "head" => cons.data = v[lo + 1]
    /\ cons.pc = "delete" => cons.first = f[lo - 1] /\ cons.next = f[lo] /\ cons.data = v[lo]

\* What a producer has enqueued is linked, or the node it is at.
Enqueued(v, hi) ==
    /\ \A p \in Producers, i \in 1..MaxItems : i <= prod[p].count =>
          (\E j \in 1..hi : v[j] = <<p, i>>) \/ (Pending(p) /\ i = prod[p].count)
    /\ \A j \in 1..hi, p \in Producers, i \in 1..MaxItems :
          v[j] = <<p, i>> => i <= prod[p].count

\* Deleted, once, are the items that have left.
Counted(v, lo) ==
    ~destroyed => \A w \in Values :
                     deleted[w] = IF \E i \in 1..Oldest(lo) : v[i] = w THEN 1 ELSE 0

\* After the destructor nothing happens.
Closed ==
    destroyed => /\ cons.pc = "idle" /\ \A p \in Producers : prod[p].pc = "idle"
                 /\ NothingLeaks

Numbered(f, v, r, lo, hi, t) ==
    /\ Ghosts(f, v, r, lo, hi, t)
    /\ Ordered(f, r, lo, hi, t) /\ Carried(f, v, lo, hi) /\ Held(f, lo, hi)
    /\ Unlinked(f, v, lo, hi) /\ Following(f, r, hi, t) /\ Alone(f, hi, t)
    /\ Consuming(f, v, r, lo, hi, t) /\ Enqueued(v, hi) /\ Counted(v, lo)

QInv(f, v, r, lo, hi, t) ==
    Types /\ Uncalled /\ Intact /\ Closed /\ Numbered(f, v, r, lo, hi, t)

-----------------------------------------------------------------------------
\* The numbers the invariant speaks of, and their nodes.
LEMMA Bounds ==
    ASSUME NEW f, NEW v, NEW r, NEW lo, NEW hi, NEW t, QInv(f, v, r, lo, hi, t)
    PROVE  /\ lo \in Nat /\ hi \in Nat /\ t \in Nat /\ lo <= t /\ t <= hi
           /\ Oldest(lo) \in Nat /\ Oldest(lo) <= lo
           /\ lo - 1 <= Oldest(lo)
           /\ f \in [Nat -> Nodes] /\ v \in [Nat -> Values] /\ r \in [Nodes -> Nat]
           /\ \A i \in Oldest(lo)..hi : f[i] \in Nodes /\ i \in Nat /\ r[f[i]] = i
           /\ Null \notin Nodes /\ Null \notin Values
  BY QueueAssumption DEF QInv, Numbered, Ghosts, Ordered, Oldest, Values

\* The numbers alone.
LEMMA Numbers ==
    ASSUME NEW f, NEW v, NEW r, NEW lo, NEW hi, NEW t, QInv(f, v, r, lo, hi, t)
    PROVE  /\ lo \in Nat /\ hi \in Nat /\ t \in Nat /\ lo <= t /\ t <= hi
           /\ Oldest(lo) \in Nat /\ Oldest(lo) <= lo
           /\ cons.pc = "delete" => lo - 1 \in Nat /\ Oldest(lo) = lo - 1
  BY Bounds DEF QInv, Numbered, Ordered, Oldest

\* What the invariant consists of.
LEMMA Parts ==
    ASSUME NEW f, NEW v, NEW r, NEW lo, NEW hi, NEW t, QInv(f, v, r, lo, hi, t)
    PROVE  /\ Types /\ Uncalled /\ Intact /\ Closed
           /\ Ghosts(f, v, r, lo, hi, t)
           /\ Ordered(f, r, lo, hi, t) /\ Carried(f, v, lo, hi) /\ Held(f, lo, hi)
           /\ Unlinked(f, v, lo, hi) /\ Following(f, r, hi, t) /\ Alone(f, hi, t)
           /\ Consuming(f, v, r, lo, hi, t) /\ Enqueued(v, hi) /\ Counted(v, lo)
           /\ prod \in [Producers -> ProdRecord] /\ cons \in ConsRecord
  BY DEF QInv, Numbered, Types

\* The ends of the list are allocated.
LEMMA EndsAllocated ==
    ASSUME NEW f, NEW v, NEW r, NEW lo, NEW hi, NEW t, QInv(f, v, r, lo, hi, t), ~destroyed
    PROVE  head \in allocated /\ tail \in allocated
  <1>1. /\ head = f[lo] /\ tail = f[t] /\ head \in Nodes /\ tail \in Nodes
        /\ lo \in Nat /\ t \in Nat /\ hi \in Nat /\ lo <= t /\ t <= hi
        /\ cons.pc = "delete" => lo >= 1
    BY DEF QInv, Types, Numbered, Ordered, Ghosts
  <1>2. lo \in Oldest(lo)..hi /\ t \in Oldest(lo)..hi
    BY <1>1 DEF Oldest
  <1> QED BY <1>1, <1>2 DEF QInv, Numbered, Held

-----------------------------------------------------------------------------
(* The steps of a producer.                                                *)

\* the tail moves to the node behind it, or stays
TailMoves(f, hi, t, u) == u \in Nat /\ t <= u /\ u <= t + 1 /\ u <= hi /\ tail' = f[u]

\* a step that changes what the producer knows, and perhaps the tail
ProducerLocal(p) ==
    /\ prod[p].pc # "idle"
    /\ \E rec \in ProdRecord :
          /\ prod' = [prod EXCEPT ![p] = rec]
          /\ rec.node = prod[p].node /\ rec.count = prod[p].count
    /\ Pending(p)' = Pending(p)
    /\ UNCHANGED <<head, next, data, allocated, used, deleted, cons, callers, weak, recycled,
                   destroyed>>
    /\ misused' \in BOOLEAN

\* Such a step keeps the invariant if what the producer then knows of the tail is right.
LEMMA ProducerStep ==
    ASSUME NEW f, NEW v, NEW r, NEW lo, NEW hi, NEW t, QInv(f, v, r, lo, hi, t),
           NEW p \in Producers, ProducerLocal(p), NEW u, TailMoves(f, hi, t, u), Intact',
           FollowingOne(p, f, r, hi, u)', SoleProducer => AloneOne(p, f, hi, u)'
    PROVE  QInv(f, v, r, lo, hi, u)'
  <1>a. /\ Types /\ Uncalled /\ Intact /\ Closed /\ Ghosts(f, v, r, lo, hi, t)
        /\ Ordered(f, r, lo, hi, t) /\ Carried(f, v, lo, hi) /\ Held(f, lo, hi)
        /\ Unlinked(f, v, lo, hi) /\ Following(f, r, hi, t) /\ Alone(f, hi, t)
        /\ Consuming(f, v, r, lo, hi, t) /\ Enqueued(v, hi) /\ Counted(v, lo)
        /\ prod \in [Producers -> ProdRecord] /\ cons \in ConsRecord
    BY Parts
  <1>p. /\ prod' \in [Producers -> ProdRecord]
        /\ prod'[p].node = prod[p].node /\ prod'[p].count = prod[p].count
        /\ \A q \in Producers : q # p => prod'[q] = prod[q]
        /\ prod[p].pc # "idle"
    BY <1>a DEF ProducerLocal
  <1>q. \A q \in Producers : /\ Pending(q)' <=> Pending(q)
                             /\ prod'[q].node = prod[q].node
                             /\ prod'[q].count = prod[q].count
    BY <1>p DEF ProducerLocal, Pending
  <1>z. UNCHANGED <<head, next, data, allocated, used, deleted, cons, callers, weak, recycled,
                    destroyed>>
    BY DEF ProducerLocal
  <1>b. Oldest(lo)' = Oldest(lo) /\ SoleProducer' = SoleProducer
    BY <1>z DEF Oldest, SoleProducer
  <1>u. u \in Nat /\ t <= u /\ u <= hi /\ lo <= u /\ tail' = f[u] /\ t \in Nat /\ lo \in Nat
        /\ hi \in Nat /\ f \in [Nat -> Nodes] /\ u <= t + 1
    BY Numbers, <1>a DEF TailMoves, Ghosts
  <1>c. p \in callers
    BY <1>a, <1>p DEF Uncalled
  <1>d. ~destroyed
    BY <1>a, <1>p DEF Closed
  <1>1. Types'
    BY <1>a, <1>p, <1>z, <1>u DEF Types, ProducerLocal
  <1>2. Uncalled'
    BY <1>a, <1>p, <1>c, <1>z DEF Uncalled
  <1>4. Closed'
    BY <1>d, <1>z DEF Closed
  <1>5. Ghosts(f, v, r, lo, hi, u)'
    BY <1>a, <1>u DEF Ghosts
  <1>6. Ordered(f, r, lo, hi, u)'
    BY <1>a, <1>b, <1>u, <1>z DEF Ordered
  <1>7. Carried(f, v, lo, hi)'
    BY <1>a, <1>b, <1>z DEF Carried
  <1>8. Held(f, lo, hi)'
    <2>1. ~destroyed' /\ destroyed' = destroyed /\ allocated' = allocated
      BY <1>d, <1>z
    <2>2. \A n \in Nodes :
               n \in allocated <=> \/ \E i \in Oldest(lo)..hi : n = f[i]
                                   \/ \E q \in Producers : Pending(q) /\ n = prod[q].node
      BY <1>a, <1>d DEF Held
    <2>3. \A n \in Nodes : (\E q \in Producers : Pending(q) /\ n = prod[q].node)
                           <=> (\E q \in Producers : Pending(q)' /\ n = prod'[q].node)
      BY <1>q
    <2>4. \A n \in Nodes :
               n \in allocated' <=> \/ \E i \in Oldest(lo)'..hi : n = f[i]
                                    \/ \E q \in Producers : Pending(q)' /\ n = prod'[q].node
      BY <2>1, <2>2, <2>3, <1>b
    <2> QED BY <2>4, Zenon DEF Held
  <1>9. Unlinked(f, v, lo, hi)'
    <2> SUFFICES ASSUME NEW q \in Producers PROVE UnlinkedOne(q, f, v, lo, hi)'
      BY DEF Unlinked
    <2>1. UnlinkedOne(q, f, v, lo, hi)
      BY <1>a DEF Unlinked
    <2> QED BY <2>1, <1>q, <1>b, <1>z DEF UnlinkedOne
  <1>10. Following(f, r, hi, u)'
    <2> SUFFICES ASSUME NEW q \in Producers PROVE FollowingOne(q, f, r, hi, u)'
      BY DEF Following
    <2>1. CASE q = p
      BY <2>1
    <2>2. CASE q # p
      <3>1. FollowingOne(q, f, r, hi, t) /\ prod'[q] = prod[q]
        BY <1>a, <1>p, <2>2 DEF Following
      <3>2. \A n \in Nodes : r[n] <= t => r[n] <= u
        BY <1>u, <1>a DEF Ghosts
      <3>3. \A o \in Producers : Pending(o)' => Pending(o) /\ prod'[o].node = prod[o].node
        BY <1>q
      <3> QED BY <3>1, <3>2, <3>3 DEF FollowingOne, Holding
    <2> QED BY <2>1, <2>2
  <1>11. Alone(f, hi, u)'
    <2> SUFFICES ASSUME SoleProducer, NEW q \in callers PROVE AloneOne(q, f, hi, u)'
      BY <1>b, <1>z DEF Alone
    <2>1. q = p
      BY <1>c DEF SoleProducer
    <2> QED BY <2>1
  <1>12. Consuming(f, v, r, lo, hi, u)'
    <2>1. r \in [Nodes -> Nat]
      BY <1>a DEF Ghosts
    <2> QED BY <2>1, <1>a, <1>u, <1>z DEF Consuming
  <1>13. Enqueued(v, hi)'
    <2>0. Enqueued(v, hi)
      BY <1>a
    <2> QED BY <2>0, <1>q, Zenon DEF Enqueued
  <1>14. Counted(v, lo)'
    BY <1>a, <1>b, <1>z DEF Counted
  <1> QED
    BY <1>1, <1>2, <1>4, <1>5, <1>6, <1>7, <1>8, <1>9, <1>10, <1>11, <1>12, <1>13, <1>14
    DEF QInv, Numbered

\* What a producer in enqueue can rely on.
LEMMA OneProducer ==
    ASSUME NEW f, NEW v, NEW r, NEW lo, NEW hi, NEW t, QInv(f, v, r, lo, hi, t),
           NEW p \in Producers, prod[p].pc # "idle"
    PROVE  /\ prod[p] \in ProdRecord /\ prod \in [Producers -> ProdRecord]
           /\ FollowingOne(p, f, r, hi, t)
           /\ SoleProducer => AloneOne(p, f, hi, t) /\ ~weak
           /\ t \in Nat /\ hi \in Nat /\ t <= hi /\ lo <= t /\ lo \in Nat
           /\ f \in [Nat -> Nodes] /\ r \in [Nodes -> Nat]
           /\ tail \in allocated /\ tail \in Nodes /\ tail = f[t]
           /\ r[tail] = t
           /\ next \in [Nodes -> Pointers] /\ next[f[hi]] = Null
           /\ \A q \in Producers : Pending(q) => prod[q].node # tail
           /\ TailMoves(f, hi, t, t) <=> tail' = tail
           /\ Null \notin Nodes /\ ~destroyed /\ misused \in BOOLEAN
  <1>a. /\ Types /\ Uncalled /\ Intact /\ Closed /\ Ghosts(f, v, r, lo, hi, t)
        /\ Ordered(f, r, lo, hi, t) /\ Following(f, r, hi, t) /\ Alone(f, hi, t)
        /\ Unlinked(f, v, lo, hi) /\ prod \in [Producers -> ProdRecord]
    BY Parts
  <1>1. ~destroyed /\ p \in callers
    BY <1>a DEF Closed, Uncalled
  <1>2. tail \in allocated
    BY <1>1, EndsAllocated
  <1>3. t \in Nat /\ hi \in Nat /\ t <= hi /\ lo <= t /\ lo \in Nat /\ tail = f[t]
        /\ f \in [Nat -> Nodes] /\ r \in [Nodes -> Nat] /\ next[f[hi]] = Null
    BY <1>a DEF Ghosts, Ordered
  <1>4. t \in Oldest(lo)..hi
    BY <1>3, Numbers
  <1>5. r[tail] = t
    BY <1>3, <1>4, <1>a DEF Ordered
  <1>6. SoleProducer => AloneOne(p, f, hi, t) /\ ~weak
    BY <1>a, <1>1 DEF Alone, SoleProducer
  <1>7. FollowingOne(p, f, r, hi, t)
    BY <1>a DEF Following
  <1>8. TailMoves(f, hi, t, t) <=> tail' = tail
    BY <1>3 DEF TailMoves
  <1>9. tail \in Nodes /\ next \in [Nodes -> Pointers] /\ misused \in BOOLEAN
    BY <1>a DEF Types
  <1>10. \A q \in Producers : Pending(q) => prod[q].node # tail
    BY <1>3, <1>4, <1>a DEF Unlinked, UnlinkedOne
  <1> QED BY <1>a, <1>1, <1>2, <1>3, <1>4, <1>5, <1>6, <1>7, <1>8, <1>9, <1>10, QueueAssumption

\* A step that leaves node and items of the producer alone has the form above.
LEMMA LocalShape ==
    ASSUME NEW p \in Producers, NEW rec \in ProdRecord, prod \in [Producers -> ProdRecord],
           prod' = [prod EXCEPT ![p] = rec], prod[p].pc # "idle",
           rec.node = prod[p].node, rec.count = prod[p].count,
           prod[p].pc = "swing" <=> rec.pc \in {"swing", "idle"},
           UNCHANGED <<head, next, data, allocated, used, deleted, cons, callers, weak, recycled,
                       destroyed>>,
           misused' \in BOOLEAN
    PROVE  ProducerLocal(p) /\ prod'[p] = rec
  <1>1. prod'[p] = rec
    OBVIOUS
  <1>2. prod[p] \in ProdRecord
    OBVIOUS
  <1>3. rec.pc \in ProducerPcs /\ prod[p].pc \in ProducerPcs
    BY <1>2 DEF ProdRecord
  <1>4. Pending(p)' = Pending(p)
    BY <1>1, <1>3 DEF Pending, ProducerPcs
  <1> QED BY <1>1, <1>4 DEF ProducerLocal

\* It leaves all the nodes that are not linked where they are.
LEMMA PendingKept ==
    ASSUME NEW f, NEW v, NEW r, NEW lo, NEW hi, NEW t, QInv(f, v, r, lo, hi, t),
           NEW p \in Producers, ProducerLocal(p)
    PROVE  \A q \in Producers : Pending(q)' => Pending(q) /\ prod'[q].node = prod[q].node
  <1>1. prod \in [Producers -> ProdRecord]
    BY Parts
  <1>2. /\ prod'[p].node = prod[p].node /\ Pending(p)' = Pending(p)
        /\ \A q \in Producers : q # p => prod'[q] = prod[q]
    BY <1>1 DEF ProducerLocal
  <1> QED BY <1>2 DEF Pending

\* The node a producer holds is in the list, unless it was deleted.
LEMMA HeldNode ==
    ASSUME NEW f, NEW v, NEW r, NEW lo, NEW hi, NEW t, QInv(f, v, r, lo, hi, t),
           NEW p \in Producers, Holding(p), prod[p].last \in allocated
    PROVE  LET k == r[prod[p].last] IN
           /\ k \in Oldest(lo)..hi /\ k \in Nat /\ k <= hi
           /\ prod[p].last = f[k]
           /\ k < hi => next[f[k]] = f[k + 1]
  <1>1. /\ Types /\ Closed /\ Ordered(f, r, lo, hi, t) /\ Held(f, lo, hi) /\ Following(f, r, hi, t)
    BY Parts
  <1>2. ~destroyed
    BY <1>1 DEF Closed, Holding
  <1>3. /\ prod[p].last \in Nodes /\ prod[p].last = f[r[prod[p].last]]
        /\ \A q \in Producers : Pending(q) => prod[q].node # prod[p].last
    BY <1>1 DEF Following, FollowingOne
  <1>4. PICK i \in Oldest(lo)..hi : prod[p].last = f[i]
    BY <1>1, <1>2, <1>3 DEF Held
  <1>5. r[prod[p].last] = i /\ i \in Nat /\ i <= hi
    BY <1>4, <1>1, Numbers DEF Ordered
  <1> QED BY <1>1, <1>3, <1>4, <1>5 DEF Ordered

\* The tail is read.
LEMMA LoadTailStep ==
    ASSUME NEW f, NEW v, NEW r, NEW lo, NEW hi, NEW t, QInv(f, v, r, lo, hi, t),
           NEW p \in Producers, LoadTail(p), Intact'
    PROVE  QInv(f, v, r, lo, hi, t)'
  <1> USE DEF LoadTail, memory, aside
  <1> DEFINE rec == [prod[p] EXCEPT !.pc = "next", !.last = tail]
  <1>1. prod[p].pc = "tail"
    OBVIOUS
  <1>0. prod[p] \in ProdRecord /\ tail \in Pointers
    BY <1>1, OneProducer DEF Pointers
  <1>r. /\ rec \in ProdRecord /\ rec.pc = "next" /\ rec.last = tail
        /\ rec.node = prod[p].node /\ rec.count = prod[p].count
    BY <1>0, <1>1 DEF ProdRecord, ProducerPcs, rec
  <1>e. prod' = [prod EXCEPT ![p] = rec]
    BY DEF rec
  <1> HIDE DEF rec
  <1>m. misused' \in BOOLEAN /\ misused' = misused
    BY <1>1, OneProducer
  <1>l. ProducerLocal(p) /\ prod'[p] = rec
    BY <1>e, <1>m, <1>r, <1>1, LocalShape, OneProducer
  <1>2. prod'[p].pc = "next" /\ prod'[p].last = tail /\ tail' = tail
    BY <1>l, <1>r
  <1>p. \A q \in Producers : Pending(q)' => Pending(q) /\ prod'[q].node = prod[q].node
    BY <1>l, PendingKept
  <1>3. FollowingOne(p, f, r, hi, t)'
    BY <1>1, <1>2, <1>p, OneProducer DEF FollowingOne, Holding
  <1>4. SoleProducer => AloneOne(p, f, hi, t)'
    BY <1>1, <1>2, OneProducer DEF AloneOne
  <1> HIDE DEF LoadTail, memory, aside
  <1>5. TailMoves(f, hi, t, t)
    BY <1>1, <1>2, OneProducer
  <1> QED BY <1>3, <1>4, <1>5, <1>l, ProducerStep

\* The node behind the one read is read.
LEMMA LoadNextStep ==
    ASSUME NEW f, NEW v, NEW r, NEW lo, NEW hi, NEW t, QInv(f, v, r, lo, hi, t),
           NEW p \in Producers, LoadNext(p), Intact'
    PROVE  QInv(f, v, r, lo, hi, t)'
  <1> USE DEF LoadNext, memory, aside
  <1> DEFINE rec == [prod[p] EXCEPT !.pc = "check", !.next = next[prod[p].last]]
  <1>1. prod[p].pc = "next"
    OBVIOUS
  <1>f. FollowingOne(p, f, r, hi, t)
    BY <1>1, OneProducer
  <1>g. SoleProducer => AloneOne(p, f, hi, t)
    BY <1>1, OneProducer
  <1>n. Holding(p) /\ prod[p].last \in Nodes
    BY <1>1, <1>f DEF FollowingOne, Holding
  <1>0. prod[p] \in ProdRecord /\ next[prod[p].last] \in Pointers
    BY <1>1, <1>n, OneProducer
  <1>r. /\ rec \in ProdRecord /\ rec.pc = "check" /\ rec.last = prod[p].last
        /\ rec.next = next[prod[p].last]
        /\ rec.node = prod[p].node /\ rec.count = prod[p].count
    BY <1>0, <1>1 DEF ProdRecord, ProducerPcs, rec
  <1>e. prod' = [prod EXCEPT ![p] = rec]
    BY DEF rec
  <1> HIDE DEF rec
  <1>m. misused' \in BOOLEAN /\ (misused' <=> (misused \/ prod[p].last \notin allocated))
    BY <1>1, OneProducer DEF Access
  <1>l. ProducerLocal(p) /\ prod'[p] = rec
    BY <1>e, <1>m, <1>r, <1>1, LocalShape, OneProducer
  <1>2. prod'[p].pc = "check" /\ prod'[p].last = prod[p].last
        /\ prod'[p].next = next[prod[p].last] /\ tail' = tail
    BY <1>l, <1>r
  <1>p. \A q \in Producers : Pending(q)' => Pending(q) /\ prod'[q].node = prod[q].node
    BY <1>l, PendingKept
  <1>3. FollowingOne(p, f, r, hi, t)'
    <2>0. /\ prod[p].last \in Nodes /\ r[prod[p].last] <= t
          /\ prod[p].last = f[r[prod[p].last]]
          /\ \A q \in Producers : Pending(q)' => prod'[q].node # prod[p].last
      BY <1>f, <1>n, <1>p DEF FollowingOne
    <2> DEFINE k == r[prod[p].last]
    <2>1. /\ k \in Nat /\ k <= hi /\ prod[p].last = f[k]
          /\ k < hi => next[f[k]] = f[k + 1]
      <3>1. prod[p].last \in allocated
        BY <1>m DEF Intact
      <3> QED BY <3>1, <1>n, HeldNode
    <2>2. next[f[k]] # Null => k < hi
      BY <1>1, <2>1, OneProducer
    <2> QED BY <1>2, <2>0, <2>1, <2>2 DEF FollowingOne
  <1>4. SoleProducer => AloneOne(p, f, hi, t)'
    BY <1>1, <1>2, <1>g, OneProducer DEF AloneOne
  <1> HIDE DEF LoadNext, memory, aside
  <1>5. TailMoves(f, hi, t, t)
    BY <1>1, <1>2, OneProducer
  <1> QED BY <1>3, <1>4, <1>5, <1>l, ProducerStep

\* The tail is compared with what was read of it.
LEMMA CheckTailStep ==
    ASSUME NEW f, NEW v, NEW r, NEW lo, NEW hi, NEW t, QInv(f, v, r, lo, hi, t),
           NEW p \in Producers, CheckTail(p), Intact'
    PROVE  QInv(f, v, r, lo, hi, t)'
  <1> USE DEF CheckTail, Goto, memory, aside
  <1> DEFINE pc == IF prod[p].last # tail THEN "tail"
                   ELSE IF prod[p].next = Null THEN "link" ELSE "help"
             rec == [prod[p] EXCEPT !.pc = pc]
  <1>1. prod[p].pc = "check"
    OBVIOUS
  <1>0. prod[p] \in ProdRecord
    BY <1>1, OneProducer
  <1>r. /\ rec \in ProdRecord /\ rec.pc = pc /\ rec.last = prod[p].last
        /\ rec.next = prod[p].next
        /\ rec.node = prod[p].node /\ rec.count = prod[p].count
    BY <1>0, <1>1 DEF ProdRecord, ProducerPcs, rec
  <1>e. prod' = [prod EXCEPT ![p] = rec]
    BY DEF rec
  <1> HIDE DEF rec
  <1>m. misused' \in BOOLEAN /\ misused' = misused
    BY <1>1, OneProducer
  <1>s. ~(rec.pc \in {"swing", "idle"})
    BY <1>r
  <1>u. UNCHANGED <<head, next, data, allocated, used, deleted, cons, callers, weak, recycled,
                    destroyed>>
    OBVIOUS
  <1>v. prod \in [Producers -> ProdRecord]
    BY <1>1, OneProducer
  <1>l. ProducerLocal(p) /\ prod'[p] = rec
    <2> HIDE DEF CheckTail, Goto, memory, aside, pc
    <2> QED BY <1>e, <1>m, <1>r, <1>s, <1>1, <1>u, <1>v, LocalShape
  <1>2. /\ prod'[p].pc = pc /\ prod'[p].last = prod[p].last
        /\ prod'[p].next = prod[p].next /\ tail' = tail
    BY <1>l, <1>r
  <1>p. \A q \in Producers : Pending(q)' => Pending(q) /\ prod'[q].node = prod[q].node
    BY <1>l, PendingKept
  <1>3. FollowingOne(p, f, r, hi, t)'
    <2>1. FollowingOne(p, f, r, hi, t)
      BY <1>1, OneProducer
    <2> QED BY <2>1, <1>1, <1>2, <1>p DEF FollowingOne, Holding
  <1>4. SoleProducer => AloneOne(p, f, hi, t)'
    BY <1>1, <1>2, OneProducer DEF AloneOne
  <1> HIDE DEF CheckTail, Goto, memory, aside
  <1>5. TailMoves(f, hi, t, t)
    BY <1>1, <1>2, OneProducer
  <1> QED BY <1>3, <1>4, <1>5, <1>l, ProducerStep

\* The compare-and-swap of the next pointer fails.
LEMMA LinkFailsStep ==
    ASSUME NEW f, NEW v, NEW r, NEW lo, NEW hi, NEW t, QInv(f, v, r, lo, hi, t),
           NEW p \in Producers, Link(p), prod'[p].pc # "swing", Intact'
    PROVE  QInv(f, v, r, lo, hi, t)'
  <1> USE DEF Link, Goto, memory, aside
  <1> DEFINE rec == [prod[p] EXCEPT !.pc = "tail"]
  <1>1. prod[p].pc = "link"
    OBVIOUS
  <1>f. FollowingOne(p, f, r, hi, t)
    BY <1>1, OneProducer
  <1>g. SoleProducer => AloneOne(p, f, hi, t) /\ ~weak
    BY <1>1, OneProducer
  <1>0. prod[p] \in ProdRecord /\ prod \in [Producers -> ProdRecord]
    BY <1>1, OneProducer
  <1>r. /\ rec \in ProdRecord /\ rec.pc = "tail" /\ rec.last = prod[p].last
        /\ rec.node = prod[p].node /\ rec.count = prod[p].count
    BY <1>0, <1>1 DEF ProdRecord, ProducerPcs, rec
  <1>s. prod' # [prod EXCEPT ![p].pc = "swing"]
    <2> HIDE DEF Link, Goto, rec
    <2>1. [prod EXCEPT ![p].pc = "swing"][p].pc = "swing"
      BY <1>0 DEF ProdRecord
    <2> QED BY <2>1
  <1>e. prod' = [prod EXCEPT ![p] = rec] /\ Fails(next[prod[p].last] # Null) /\ next' = next
    BY <1>s DEF rec
  <1> HIDE DEF rec
  <1>m. misused' \in BOOLEAN /\ (misused' <=> (misused \/ prod[p].last \notin allocated))
    BY <1>1, OneProducer DEF Access
  <1>l. ProducerLocal(p) /\ prod'[p] = rec
    BY <1>e, <1>m, <1>r, <1>1, LocalShape, OneProducer
  <1>2. prod'[p].pc = "tail" /\ prod'[p].last = prod[p].last /\ tail' = tail
    BY <1>l, <1>r
  <1>3. FollowingOne(p, f, r, hi, t)'
    BY <1>1, <1>2 DEF FollowingOne, Holding
  <1>4. SoleProducer => AloneOne(p, f, hi, t)'
    BY <1>1, <1>2, <1>g, <1>e, OneProducer DEF AloneOne, Fails
  <1> HIDE DEF Link, Goto, memory, aside
  <1>5. TailMoves(f, hi, t, t)
    BY <1>1, <1>2, OneProducer
  <1> QED BY <1>3, <1>4, <1>5, <1>l, ProducerStep

\* The tail is moved, or was moved by another thread.
LEMMA MoveTailStep ==
    ASSUME NEW f, NEW v, NEW r, NEW lo, NEW hi, NEW t, QInv(f, v, r, lo, hi, t),
           NEW p \in Producers, Swing(p) \/ Help(p), Intact'
    PROVE  \E u \in {t, t + 1} : QInv(f, v, r, lo, hi, u)'
  <1> USE DEF Swing, Help, MoveTail, Goto, memory, aside
  <1> DEFINE pc == IF prod[p].pc = "swing" THEN "idle" ELSE "tail"
             new == IF prod[p].pc = "swing" THEN prod[p].node ELSE prod[p].next
             rec == [prod[p] EXCEPT !.pc = pc]
  <1>1. prod[p].pc \in {"swing", "help"}
    OBVIOUS
  <1>t. \/ tail = prod[p].last /\ tail' = new
        \/ Fails(tail # prod[p].last) /\ tail' = tail
    OBVIOUS
  <1>f. FollowingOne(p, f, r, hi, t)
    BY <1>1, OneProducer
  <1>g. SoleProducer => AloneOne(p, f, hi, t) /\ ~weak
    BY <1>1, OneProducer
  <1>0. prod[p] \in ProdRecord /\ prod \in [Producers -> ProdRecord]
    BY <1>1, OneProducer
  <1>r. /\ rec \in ProdRecord /\ rec.pc = pc /\ rec.last = prod[p].last
        /\ rec.next = prod[p].next
        /\ rec.node = prod[p].node /\ rec.count = prod[p].count
    BY <1>0, <1>1 DEF ProdRecord, ProducerPcs, rec
  <1>e. prod' = [prod EXCEPT ![p] = rec]
    BY DEF rec
  <1> HIDE DEF rec
  <1>m. misused' \in BOOLEAN /\ misused' = misused
    BY <1>1, OneProducer
  <1>l. ProducerLocal(p) /\ prod'[p] = rec
    BY <1>e, <1>m, <1>r, <1>1, LocalShape, OneProducer
  <1>2. prod'[p].pc = pc /\ prod'[p].last = prod[p].last
    BY <1>l, <1>r
  <1> HIDE DEF Swing, Help, MoveTail, Goto, memory, aside
  <1>n. t \in Nat /\ hi \in Nat /\ t <= hi /\ tail = f[t]
    BY <1>1, OneProducer
  <1>3. \E u \in {t, t + 1} : u = IF tail' = tail THEN t ELSE t + 1
    OBVIOUS
  <1>4. PICK u \in {t, t + 1} : u = IF tail' = tail THEN t ELSE t + 1
    BY <1>3
  <1>5. TailMoves(f, hi, t, u)
    <2>1. CASE tail' = tail
      BY <2>1, <1>4, <1>n DEF TailMoves
    <2>2. CASE tail' # tail
      <3>1. tail = prod[p].last /\ tail' = new
        BY <2>2, <1>t
      <3>2. r[prod[p].last] = t
        BY <3>1, <1>1, OneProducer
      <3>3. t < hi /\ new = f[t + 1]
        BY <3>2, <1>f, <1>1 DEF FollowingOne
      <3> QED BY <3>1, <3>3, <1>n, <2>2, <1>4 DEF TailMoves
    <2> QED BY <2>1, <2>2
  <1>6. FollowingOne(p, f, r, hi, u)'
    BY <1>2, <1>1 DEF FollowingOne, Holding
  <1>7. SoleProducer => AloneOne(p, f, hi, u)'
    <2> SUFFICES ASSUME SoleProducer PROVE AloneOne(p, f, hi, u)'
      OBVIOUS
    <2>1. /\ prod[p].pc = "swing" /\ prod[p].node = f[hi] /\ prod[p].last # f[hi]
          /\ t = hi \/ (t = hi - 1 /\ prod[p].last = tail)
          /\ ~weak
      BY <1>g, <1>1 DEF AloneOne
    <2>2. u = hi
      <3>1. CASE t = hi
        <4>1. tail' = tail
          BY <3>1, <2>1, <1>t, <1>n
        <4> QED BY <4>1, <3>1, <1>4
      <3>2. CASE t = hi - 1 /\ prod[p].last = tail
        <4>1. tail' = f[hi] /\ tail # f[hi]
          BY <3>2, <2>1, <1>t DEF Fails
        <4> QED BY <4>1, <3>2, <1>4, <1>n
      <3> QED BY <3>1, <3>2, <2>1
    <2>3. prod'[p].pc = "idle"
      BY <1>2, <2>1
    <2> QED BY <2>1, <2>2, <2>3 DEF AloneOne
  <1>8. QInv(f, v, r, lo, hi, u)'
    BY <1>l, <1>5, <1>6, <1>7, ProducerStep
  <1> QED BY <1>8, <1>4

\* A node is made for a new item, its producer's alone.
LEMMA EnqueueStartStep ==
    ASSUME NEW f, NEW v, NEW r, NEW lo, NEW hi, NEW t, QInv(f, v, r, lo, hi, t),
           NEW p \in Producers, EnqueueStart(p), Intact'
    PROVE  QInv(f, v, r, lo, hi, t)'
  <1>a. /\ Types /\ Uncalled /\ Intact /\ Closed /\ Ghosts(f, v, r, lo, hi, t)
        /\ Ordered(f, r, lo, hi, t) /\ Carried(f, v, lo, hi) /\ Held(f, lo, hi)
        /\ Unlinked(f, v, lo, hi) /\ Following(f, r, hi, t) /\ Alone(f, hi, t)
        /\ Consuming(f, v, r, lo, hi, t) /\ Enqueued(v, hi) /\ Counted(v, lo)
        /\ prod \in [Producers -> ProdRecord] /\ cons \in ConsRecord
    BY Parts
  <1>n. PICK n \in Fresh :
          /\ allocated' = allocated \cup {n}
          /\ used' = used \cup {n}
          /\ next' = [next EXCEPT ![n] = Null]
          /\ data' = [data EXCEPT ![n] = <<p, prod[p].count + 1>>]
          /\ prod' = [prod EXCEPT ![p].pc = "tail", ![p].node = n, ![p].count = @ + 1]
          /\ recycled' = (recycled \/ \E q \in Producers : Holds(q, n))
    BY Zenon DEF EnqueueStart
  <1>z. /\ prod[p].pc = "idle" /\ ~destroyed /\ p \in callers /\ prod[p].count < MaxItems
        /\ UNCHANGED <<head, tail, cons, deleted, misused, callers, weak, destroyed>>
    BY DEF EnqueueStart
  <1>h. \A q \in Producers : Holding(q) => prod[q].last # n
    BY <1>n DEF Intact, Holding, Holds
  <1> DEFINE c == prod[p].count + 1
             rec == [prod[p] EXCEPT !.pc = "tail", !.node = n, !.count = c]
  <1>0. prod[p] \in ProdRecord /\ n \in Nodes /\ MaxItems \in Nat \ {0}
    BY <1>a, QueueAssumption DEF Fresh
  <1>c. c \in 1..MaxItems /\ c \in Nat /\ c = prod[p].count + 1 /\ prod[p].count \in Nat
    BY <1>0, <1>z DEF ProdRecord
  <1>r. /\ rec \in ProdRecord /\ rec.pc = "tail" /\ rec.node = n /\ rec.count = c
        /\ rec.last = prod[p].last /\ rec.next = prod[p].next
    <2>1. n \in Pointers /\ c \in 0..MaxItems
      BY <1>0, <1>c DEF Pointers
    <2> HIDE DEF c
    <2> QED BY <1>0, <2>1 DEF ProdRecord, ProducerPcs, rec
  <1>e. prod' = [prod EXCEPT ![p] = rec]
    BY <1>n, <1>a DEF rec
  <1> HIDE DEF rec
  <1>p. /\ prod' \in [Producers -> ProdRecord] /\ prod'[p] = rec
        /\ \A q \in Producers : q # p => prod'[q] = prod[q]
    BY <1>a, <1>e, <1>r
  <1>q. /\ Pending(p)' /\ ~Pending(p)
        /\ \A q \in Producers : q # p => (Pending(q)' <=> Pending(q))
    BY <1>p, <1>r, <1>z DEF Pending
  <1>b. Oldest(lo)' = Oldest(lo) /\ SoleProducer' = SoleProducer
    BY <1>z DEF Oldest, SoleProducer
  <1>v. n \notin allocated /\ \A i \in Oldest(lo)..hi : f[i] # n
    <2>1. n \notin allocated
      BY <1>a DEF Fresh, Types
    <2>2. \A i \in Oldest(lo)..hi : f[i] \in allocated
      BY <1>a, <1>z, Bounds DEF Held
    <2> QED BY <2>1, <2>2
  <1>w. /\ f \in [Nat -> Nodes] /\ r \in [Nodes -> Nat] /\ lo \in Nat /\ hi \in Nat /\ t \in Nat
        /\ lo <= t /\ t <= hi /\ Oldest(lo) \in Nat /\ Oldest(lo) <= lo
        /\ Null \notin Nodes
        /\ hi \in Oldest(lo)..hi
    BY Bounds, Numbers
  <1>k. \A q \in Producers : q # p /\ Pending(q) => prod[q].node # n /\ prod[q].node \in Nodes
    <2>1. \A q \in Producers : Pending(q) => prod[q].node \in Nodes
      BY <1>a DEF Unlinked, UnlinkedOne
    <2>2. \A m \in Nodes : (\E q \in Producers : Pending(q) /\ m = prod[q].node)
                           => m \in allocated
      BY <1>a, <1>z DEF Held
    <2> QED BY <2>1, <2>2, <1>v
  <1>x. /\ next' \in [Nodes -> Pointers] /\ next'[n] = Null
        /\ \A m \in Nodes : m # n => next'[m] = next[m] /\ data'[m] = data[m]
        /\ data' \in [Nodes -> Values \cup {Null}] /\ data'[n] = <<p, c>>
        /\ \A m \in Nodes : next'[m] # Null => m # n /\ next'[m] = next[m]
    BY <1>n, <1>0, <1>c, <1>a DEF Types, Pointers, Values
  <1>1. Types'
    BY <1>a, <1>n, <1>0, <1>x, <1>p, <1>z DEF Types, Intact
  <1>2. Uncalled'
    BY <1>a, <1>p, <1>z DEF Uncalled
  <1>4. Closed'
    BY <1>z DEF Closed
  <1>5. Ghosts(f, v, r, lo, hi, t)'
    BY <1>a DEF Ghosts
  <1>6. Ordered(f, r, lo, hi, t)'
    <2>1. next'[f[hi]] = Null
      BY <1>a, <1>x, <1>v, <1>w DEF Ordered
    <2>2. \A i \in Oldest(lo)..hi : r[f[i]] = i /\ (i < hi => next'[f[i]] = f[i + 1])
      <3> SUFFICES ASSUME NEW i \in Oldest(lo)..hi
                   PROVE  r[f[i]] = i /\ (i < hi => next'[f[i]] = f[i + 1])
        OBVIOUS
      <3>1. f[i] \in Nodes /\ f[i] # n
        BY <1>v, <1>w
      <3>2. next'[f[i]] = next[f[i]]
        BY <3>1, <1>x
      <3> QED BY <3>2, <1>a DEF Ordered
    <2>3. \A m \in Nodes : r[m] <= hi /\ (next'[m] # Null => r[m] < r[next'[m]])
      BY <1>a, <1>x DEF Ordered
    <2> QED BY <2>1, <2>2, <2>3, <1>a, <1>b, <1>z DEF Ordered
  <1>7. Carried(f, v, lo, hi)'
    <2>1. \A i \in Oldest(lo)..hi : data'[f[i]] = IF i = 0 THEN Null ELSE v[i]
      <3> SUFFICES ASSUME NEW i \in Oldest(lo)..hi
                   PROVE  data'[f[i]] = IF i = 0 THEN Null ELSE v[i]
        OBVIOUS
      <3>1. f[i] \in Nodes /\ f[i] # n
        BY <1>v, <1>w
      <3>2. data'[f[i]] = data[f[i]]
        BY <3>1, <1>x
      <3> QED BY <3>2, <1>a DEF Carried
    <2> QED BY <2>1, <1>a, <1>b DEF Carried
  <1>8. Held(f, lo, hi)'
    <2>1. ASSUME NEW m \in Nodes
          PROVE  m \in allocated' <=> \/ \E i \in Oldest(lo)'..hi : m = f[i]
                                      \/ \E q \in Producers : Pending(q)' /\ m = prod'[q].node
      <3>1. m \in allocated <=> \/ \E i \in Oldest(lo)..hi : m = f[i]
                                \/ \E q \in Producers : Pending(q) /\ m = prod[q].node
        BY <1>a, <1>z DEF Held
      <3>2. (\E q \in Producers : Pending(q)' /\ m = prod'[q].node)
            <=> m = n \/ (\E q \in Producers : Pending(q) /\ m = prod[q].node)
        BY <1>p, <1>q, <1>r
      <3> QED BY <3>1, <3>2, <1>n, <1>b
    <2> QED BY <2>1, Zenon DEF Held
  <1>9. Unlinked(f, v, lo, hi)'
    <2> SUFFICES ASSUME NEW q \in Producers, Pending(q)' PROVE UnlinkedOne(q, f, v, lo, hi)'
      BY DEF Unlinked, UnlinkedOne
    <2>1. CASE q = p
      <3>1. \A i \in 1..hi : v[i] # <<p, c>>
        <4>0. Enqueued(v, hi)
          BY <1>a
        <4>1. \A j \in 1..hi : v[j] = <<p, c>> => c <= prod[p].count
          BY <4>0, <1>c, Zenon DEF Enqueued
        <4>2. ~(c <= prod[p].count)
          BY <1>c
        <4> QED BY <4>1, <4>2
      <3>2. \A q2 \in Producers : Pending(q2)' /\ prod'[q2].node = n => p = q2
        BY <1>p, <1>q, <1>k
      <3>3. \A i \in Oldest(lo)'..hi : f[i] # n
        BY <1>v, <1>b
      <3>4. prod'[q].node = n /\ prod'[q].count = c /\ c >= 1
        BY <2>1, <1>p, <1>r, <1>c
      <3> QED BY <2>1, <3>1, <3>2, <3>3, <3>4, <1>x, <1>0 DEF UnlinkedOne
    <2>2. CASE q # p
      <3>1. UnlinkedOne(q, f, v, lo, hi) /\ Pending(q) /\ prod'[q] = prod[q]
        BY <1>a, <2>2, <1>p, <1>q DEF Unlinked
      <3>2. prod[q].node # n /\ prod[q].node \in Nodes
        BY <1>k, <3>1, <2>2
      <3>3. next'[prod[q].node] = next[prod[q].node] /\ data'[prod[q].node] = data[prod[q].node]
        BY <1>x, <3>2
      <3>4. \A q2 \in Producers : Pending(q2)' /\ prod'[q2].node = prod[q].node => q = q2
        BY <1>p, <1>q, <1>r, <3>1, <3>2 DEF UnlinkedOne
      <3> QED BY <3>1, <3>2, <3>3, <3>4, <1>b DEF UnlinkedOne
    <2> QED BY <2>1, <2>2
  <1>10. Following(f, r, hi, t)'
    <2> SUFFICES ASSUME NEW q \in Producers PROVE FollowingOne(q, f, r, hi, t)'
      BY <1>b DEF Following
    <2>1. CASE q = p
      BY <2>1, <1>p, <1>r DEF FollowingOne, Holding
    <2>2. CASE q # p
      <3>1. FollowingOne(q, f, r, hi, t) /\ prod'[q] = prod[q]
        BY <1>a, <1>p, <2>2 DEF Following
      <3>2. Holding(q) => \A o \in Producers : Pending(o)' => prod'[o].node # prod[q].last
        BY <3>1, <1>h, <1>p, <1>q, <1>r DEF FollowingOne
      <3> QED BY <3>1, <3>2 DEF FollowingOne, Holding
    <2> QED BY <2>1, <2>2
  <1>11. Alone(f, hi, t)'
    <2> SUFFICES ASSUME SoleProducer, NEW q \in callers PROVE AloneOne(q, f, hi, t)'
      BY <1>b, <1>z DEF Alone
    <2>1. q = p
      BY <1>z DEF SoleProducer
    <2>2. AloneOne(p, f, hi, t)
      BY <1>a, <1>z DEF Alone
    <2> QED BY <2>1, <2>2, <1>p, <1>r, <1>z DEF AloneOne
  <1>12. Consuming(f, v, r, lo, hi, t)'
    BY <1>a, <1>z DEF Consuming
  <1>13. Enqueued(v, hi)'
    <2>0. Enqueued(v, hi)
      BY <1>a
    <2>1. ASSUME NEW q \in Producers, NEW i \in 1..MaxItems, i <= prod'[q].count
          PROVE  (\E j \in 1..hi : v[j] = <<q, i>>) \/ (Pending(q)' /\ i = prod'[q].count)
      <3>1. i <= prod[q].count =>
              (\E j \in 1..hi : v[j] = <<q, i>>) \/ (Pending(q) /\ i = prod[q].count)
        BY <2>0, Zenon DEF Enqueued
      <3>2. CASE q = p
        <4>1. i <= prod[p].count \/ i = c
          BY <2>1, <3>2, <1>p, <1>r, <1>c
        <4> QED BY <4>1, <3>1, <3>2, <1>p, <1>q, <1>r
      <3>3. CASE q # p
        BY <3>1, <3>3, <1>p, <1>q, <2>1
      <3> QED BY <3>2, <3>3
    <2>2. ASSUME NEW j \in 1..hi, NEW q \in Producers, NEW i \in 1..MaxItems, v[j] = <<q, i>>
          PROVE  i <= prod'[q].count
      <3>1. i <= prod[q].count
        BY <2>0, <2>2, Zenon DEF Enqueued
      <3>2. CASE q = p
        BY <3>1, <3>2, <1>p, <1>r, <1>c, <1>0
      <3>3. CASE q # p
        BY <3>1, <3>3, <1>p
      <3> QED BY <3>2, <3>3
    <2> QED BY <2>1, <2>2, Zenon DEF Enqueued
  <1>14. Counted(v, lo)'
    BY <1>a, <1>b, <1>z DEF Counted
  <1> QED
    BY <1>1, <1>2, <1>4, <1>5, <1>6, <1>7, <1>8, <1>9, <1>10, <1>11, <1>12, <1>13, <1>14
    DEF QInv, Numbered

\* A node is linked behind the last one and becomes the last one: number h.
LEMMA LinkStep ==
    ASSUME NEW f, NEW v, NEW r, NEW lo, NEW hi, NEW t, QInv(f, v, r, lo, hi, t),
           NEW p \in Producers, Link(p), prod'[p].pc = "swing", Intact',
           NEW h, h = hi + 1,
           NEW g, g = [f EXCEPT ![h] = prod[p].node],
           NEW w, w = [v EXCEPT ![h] = <<p, prod[p].count>>],
           NEW s, s = [r EXCEPT ![prod[p].node] = h]
    PROVE  QInv(g, w, s, lo, h, t)'
  <1>a. /\ Types /\ Uncalled /\ Intact /\ Closed /\ Ghosts(f, v, r, lo, hi, t)
        /\ Ordered(f, r, lo, hi, t) /\ Carried(f, v, lo, hi) /\ Held(f, lo, hi)
        /\ Unlinked(f, v, lo, hi) /\ Following(f, r, hi, t) /\ Alone(f, hi, t)
        /\ Consuming(f, v, r, lo, hi, t) /\ Enqueued(v, hi) /\ Counted(v, lo)
        /\ prod \in [Producers -> ProdRecord] /\ cons \in ConsRecord
    BY Parts
  <1> DEFINE last == prod[p].last
             node == prod[p].node
             rec == [prod[p] EXCEPT !.pc = "swing"]
             val == <<p, prod[p].count>>
  <1>0. prod[p] \in ProdRecord
    BY <1>a
  <1>1. prod[p].pc = "link" /\ Pending(p)
    BY DEF Link, Pending
  <1>s. prod' # [prod EXCEPT ![p].pc = "tail"]
    <2>1. [prod EXCEPT ![p].pc = "tail"][p].pc = "tail"
      BY <1>0, <1>a DEF ProdRecord
    <2> QED BY <2>1
  <1>l. /\ next[last] = Null /\ next' = [next EXCEPT ![last] = node]
        /\ prod' = [prod EXCEPT ![p].pc = "swing"]
        /\ misused' = (misused \/ last \notin allocated)
    BY <1>s DEF Link, Goto, Access
  <1>u. UNCHANGED <<head, tail, data, allocated, used, deleted, cons, callers, weak, recycled,
                    destroyed>>
    BY DEF Link, aside
  <1>f. FollowingOne(p, f, r, hi, t)
    BY <1>1, OneProducer
  <1>b0. SoleProducer => AloneOne(p, f, hi, t) /\ ~weak
    BY <1>1, OneProducer
  <1>i. /\ lo \in Nat /\ hi \in Nat /\ t \in Nat /\ lo <= t /\ t <= hi
        /\ Oldest(lo) \in Nat /\ Oldest(lo) <= lo
        /\ cons.pc = "delete" => lo - 1 \in Nat /\ Oldest(lo) = lo - 1
    BY Numbers
  <1>j. /\ f \in [Nat -> Nodes] /\ v \in [Nat -> Values] /\ r \in [Nodes -> Nat]
        /\ Null \notin Nodes /\ Null \notin Values
        /\ \A i \in Oldest(lo)..hi : f[i] \in Nodes /\ r[f[i]] = i
        /\ tail = f[t] /\ tail \in Nodes /\ head = f[lo]
        /\ next \in [Nodes -> Pointers]
    BY Bounds, <1>a DEF Types, Ordered
  <1>2. last = f[hi] /\ (SoleProducer => t = hi)
    <2>1. last \in allocated /\ Holding(p)
      BY <1>1, <1>l DEF Intact, Holding
    <2>2. /\ r[last] \in Oldest(lo)..hi /\ r[last] \in Nat /\ r[last] <= hi
          /\ last = f[r[last]]
          /\ r[last] < hi => next[last] = f[r[last] + 1]
      BY <2>1, HeldNode
    <2>3. ~(r[last] < hi)
      BY <2>2, <1>l, <1>j, <1>i
    <2>4. last = f[hi]
      BY <2>2, <2>3, <1>i
    <2>5. SoleProducer => t = hi
      BY <1>b0, <1>1 DEF AloneOne
    <2> QED BY <2>4, <2>5
  <1>3. UnlinkedOne(p, f, v, lo, hi)
    BY <1>a DEF Unlinked
  <1>4. /\ node \in Nodes /\ prod[p].count >= 1 /\ prod[p].count \in 1..MaxItems /\ val \in Values
        /\ next[node] = Null /\ data[node] = val
        /\ \A i \in Oldest(lo)..hi : f[i] # node
        /\ \A i \in 1..hi : v[i] # val
        /\ \A q \in Producers : Pending(q) /\ prod[q].node = node => p = q
        /\ node # last /\ last \in Nodes
    <2>1. prod[p].count \in 1..MaxItems
      BY <1>0, <1>3, <1>1, QueueAssumption DEF ProdRecord, UnlinkedOne
    <2>2. hi \in Oldest(lo)..hi
      BY <1>i
    <2> QED BY <2>1, <2>2, <1>3, <1>1, <1>2, <1>j DEF UnlinkedOne, Values
  <1>g. /\ h \in Nat /\ hi < h /\ hi \in Nat
        /\ g \in [Nat -> Nodes] /\ g[h] = node /\ \A i \in Nat : i # h => g[i] = f[i]
        /\ w \in [Nat -> Values] /\ w[h] = val /\ \A i \in Nat : i # h => w[i] = v[i]
        /\ s \in [Nodes -> Nat] /\ s[node] = h /\ \A n \in Nodes : n # node => s[n] = r[n]
    <2>1. h \in Nat /\ hi < h
      BY <1>i
    <2> HIDE DEF val, node
    <2>2. node \in Nodes /\ val \in Values
      BY <1>4
    <2>3. g = [f EXCEPT ![h] = node] /\ w = [v EXCEPT ![h] = val] /\ s = [r EXCEPT ![node] = h]
      BY DEF node, val
    <2>4. h \in Nat /\ hi < h /\ hi \in Nat
      BY <2>1, <1>i
    <2>5. g \in [Nat -> Nodes] /\ g[h] = node /\ \A i \in Nat : i # h => g[i] = f[i]
      BY <1>j, <2>2, <2>3, <2>4
    <2>6. w \in [Nat -> Values] /\ w[h] = val /\ \A i \in Nat : i # h => w[i] = v[i]
      BY <1>j, <2>2, <2>3, <2>4
    <2>7. s \in [Nodes -> Nat] /\ s[node] = h /\ \A n \in Nodes : n # node => s[n] = r[n]
      BY <1>j, <2>2, <2>3, <2>4
    <2> QED BY <2>4, <2>5, <2>6, <2>7
  <1>x. /\ \A i \in Oldest(lo)..h : i = h \/ (i \in Oldest(lo)..hi /\ i < h /\ i \in Nat)
        /\ \A i \in Oldest(lo)..h : i = h \/ (i \in Oldest(lo)..hi /\ i < h /\ i \in Nat)
        /\ \A i \in 1..h : i = h \/ (i \in 1..hi /\ i < h /\ i \in Nat)
        /\ h \in Oldest(lo)..h /\ h \in Oldest(lo)..h /\ h \in 1..h
        /\ Oldest(lo)..hi \subseteq Oldest(lo)..hi
        /\ \A i \in Oldest(lo)..hi : i \in Oldest(lo)..h /\ i # h /\ i \in Nat
        /\ \A i \in 1..hi : i \in 1..h /\ i # h /\ i \in Nat
        /\ \A i \in Oldest(lo)..hi : i \in Oldest(lo)..h /\ i # h /\ i \in Nat
    BY <1>i, <1>g
  <1>y. /\ \A i \in Oldest(lo)..hi : g[i] = f[i] /\ g[i] # node
        /\ \A i \in 1..hi : w[i] = v[i] /\ w[i] # val
    BY <1>x, <1>g, <1>4
  <1>n. /\ next' \in [Nodes -> Pointers] /\ next'[last] = node
        /\ \A n \in Nodes : n # last => next'[n] = next[n]
    BY <1>l, <1>j, <1>4 DEF Pointers
  <1>r. /\ rec \in ProdRecord /\ rec.pc = "swing" /\ rec.node = node /\ rec.last = last
        /\ rec.count = prod[p].count /\ rec.next = prod[p].next
    BY <1>0 DEF ProdRecord, ProducerPcs
  <1>e. prod' = [prod EXCEPT ![p] = rec]
    BY <1>l
  <1> HIDE DEF rec
  <1>p. /\ prod' \in [Producers -> ProdRecord] /\ prod'[p] = rec
        /\ \A q \in Producers : q # p => prod'[q] = prod[q]
    BY <1>a, <1>e, <1>r
  <1> HIDE DEF last, node, val
  <1>q. /\ ~Pending(p)'
        /\ \A q \in Producers : q # p => (Pending(q)' <=> Pending(q))
    BY <1>p, <1>r DEF Pending
  <1>c. p \in callers
    BY <1>a, <1>1 DEF Uncalled
  <1>d. ~destroyed
    BY <1>a, <1>1 DEF Closed
  <1>b. Oldest(lo)' = Oldest(lo) /\ SoleProducer' = SoleProducer
    BY <1>u DEF Oldest, SoleProducer
  <1>t. /\ t \in Nat /\ t # h /\ g[t] = f[t] /\ g[lo] = f[lo] /\ lo # h
        /\ cons.pc = "delete" => g[lo - 1] = f[lo - 1]
    BY <1>i, <1>g
  <1>1a. Types'
    BY <1>a, <1>u, <1>n, <1>p, <1>l DEF Types, Intact
  <1>2a. Uncalled'
    BY <1>a, <1>p, <1>c, <1>u DEF Uncalled
  <1>4a. Closed'
    BY <1>d, <1>u DEF Closed
  <1>5a. Ghosts(g, w, s, lo, h, t)'
    BY <1>g, <1>i DEF Ghosts
  <1>6a. Ordered(g, s, lo, h, t)'
    <2>1. (cons.pc = "delete" => lo >= 1) /\ head = g[lo] /\ tail = g[t]
      BY <1>a, <1>t, <1>j DEF Ordered
    <2>2. next'[g[h]] = Null
      BY <1>g, <1>n, <1>4
    <2>3. ASSUME NEW i \in Oldest(lo)..h
          PROVE  s[g[i]] = i /\ (i < h => next'[g[i]] = g[i + 1])
      <3>1. CASE i = h
        BY <3>1, <1>g
      <3>2. CASE i # h
        <4>1. i \in Oldest(lo)..hi /\ i \in Nat /\ i < h /\ g[i] = f[i] /\ g[i] # node
              /\ f[i] \in Nodes
          BY <3>2, <1>x, <1>y, <1>j
        <4>2. s[g[i]] = i
          BY <4>1, <1>g, <1>j
        <4>3. CASE i = hi
          BY <4>1, <4>2, <4>3, <1>2, <1>n, <1>g DEF last
        <4>4. CASE i # hi
          <5>1. i < hi /\ i + 1 \in Nat /\ i + 1 # h
            BY <4>1, <4>4, <1>i
          <5>2. next[f[i]] = f[i + 1] /\ r[f[i]] = i /\ hi \in Oldest(lo)..hi
            BY <4>1, <5>1, <1>a, <1>i DEF Ordered
          <5>3. f[i] # last
            BY <5>2, <4>4, <1>2, <1>j DEF last
          <5>4. next'[f[i]] = next[f[i]]
            BY <5>3, <4>1, <1>n
          <5> QED BY <4>1, <4>2, <5>1, <5>2, <5>4, <1>g
        <4> QED BY <4>3, <4>4
      <3> QED BY <3>1, <3>2
    <2>4. ASSUME NEW n \in Nodes
          PROVE  s[n] <= h /\ (next'[n] # Null => s[n] < s[next'[n]])
      <3>1. r[n] <= hi /\ (next[n] # Null => r[n] < r[next[n]] /\ next[n] \in Nodes)
            /\ r[n] \in Nat
        BY <1>a, <1>j DEF Ordered, Pointers
      <3>2. s[n] <= h /\ s[n] \in Nat
        BY <3>1, <1>g, <1>i
      <3>3. CASE n = last
        <4>1. next'[n] = node /\ s[node] = h /\ s[n] = r[n]
          BY <3>3, <1>n, <1>g, <1>4
        <4> QED BY <4>1, <3>1, <3>2, <1>g, <1>i
      <3>4. CASE n # last
        <4>1. next'[n] = next[n]
          BY <3>4, <1>n
        <4>2. CASE next[n] # Null
          <5>1. n # node
            BY <4>2, <1>4
          <5>2. s[n] = r[n]
            BY <5>1, <1>g
          <5>3. s[next[n]] >= r[next[n]] /\ s[next[n]] \in Nat /\ r[next[n]] \in Nat
            <6>1. next[n] \in Nodes /\ r[next[n]] <= hi /\ r[next[n]] \in Nat
              BY <3>1, <4>2, <1>a, <1>j DEF Ordered
            <6>2. s[next[n]] = r[next[n]] \/ s[next[n]] = h
              BY <6>1, <1>g
            <6> QED BY <6>1, <6>2, <1>g, <1>i
          <5>4. r[n] < s[next[n]]
            BY <3>1, <4>2, <5>3
          <5> QED BY <3>2, <4>1, <5>2, <5>4
        <4>3. CASE next[n] = Null
          BY <3>2, <4>1, <4>3
        <4> QED BY <4>2, <4>3
      <3> QED BY <3>3, <3>4
    <2> QED BY <2>1, <2>2, <2>3, <2>4, <1>b, <1>u DEF Ordered
  <1>7a. Carried(g, w, lo, h)'
    <2>1. ASSUME NEW i \in Oldest(lo)..h PROVE data[g[i]] = IF i = 0 THEN Null ELSE w[i]
      <3>1. CASE i = h
        BY <3>1, <1>g, <1>4, <1>i
      <3>2. CASE i # h
        <4>1. i \in Oldest(lo)..hi /\ i \in Nat /\ g[i] = f[i] /\ w[i] = v[i]
          BY <3>2, <1>x, <1>y, <1>g
        <4> QED BY <4>1, <1>a DEF Carried
      <3> QED BY <3>1, <3>2
    <2>2. ASSUME NEW i \in 1..h, NEW j \in 1..h, w[i] = w[j] PROVE i = j
      <3>1. CASE i = h /\ j = h
        BY <3>1
      <3>2. CASE i # h /\ j # h
        <4>1. i \in 1..hi /\ j \in 1..hi /\ v[i] = v[j]
          BY <3>2, <2>2, <1>x, <1>y
        <4> QED BY <4>1, <1>a DEF Carried
      <3>3. CASE i = h /\ j # h
        BY <3>3, <2>2, <1>x, <1>y, <1>g
      <3>4. CASE i # h /\ j = h
        BY <3>4, <2>2, <1>x, <1>y, <1>g
      <3> QED BY <3>1, <3>2, <3>3, <3>4
    <2> QED BY <2>1, <2>2, <1>b, <1>u DEF Carried
  <1>8a. Held(g, lo, h)'
    <2>1. ASSUME NEW n \in Nodes
          PROVE  n \in allocated <=> \/ \E i \in Oldest(lo)..h : n = g[i]
                                     \/ \E q \in Producers : Pending(q)' /\ n = prod'[q].node
      <3>1. n \in allocated <=> \/ \E i \in Oldest(lo)..hi : n = f[i]
                                \/ \E q \in Producers : Pending(q) /\ n = prod[q].node
        BY <1>a, <1>d DEF Held
      <3>2. (\E i \in Oldest(lo)..h : n = g[i]) <=> n = node \/ (\E i \in Oldest(lo)..hi : n = f[i])
        <4>1. \A i \in Oldest(lo)..hi : i \in Oldest(lo)..h /\ g[i] = f[i]
          BY <1>x, <1>y
        <4>2. \A i \in Oldest(lo)..h : i = h \/ i \in Oldest(lo)..hi
          BY <1>x
        <4> QED BY <4>1, <4>2, <1>g, <1>x
      <3>3. (\E q \in Producers : Pending(q) /\ n = prod[q].node)
            <=> n = node \/ (\E q \in Producers : Pending(q)' /\ n = prod'[q].node)
        <4>1. ~Pending(p)' /\ Pending(p) /\ prod[p].node = node
          BY <1>1, <1>q DEF node
        <4> QED BY <4>1, <1>p, <1>q
      <3> QED BY <3>1, <3>2, <3>3
    <2>3. allocated' = allocated /\ Oldest(lo)' = Oldest(lo)
      BY <1>b, <1>u
    <2>4. \A n \in Nodes : n \in allocated' <=>
              \/ \E i \in Oldest(lo)'..h : n = g[i]
              \/ \E q \in Producers : Pending(q)' /\ n = prod'[q].node
      BY <2>1, <2>3
    <2> QED BY <2>4, Zenon DEF Held
  <1>9a. Unlinked(g, w, lo, h)'
    <2> SUFFICES ASSUME NEW q \in Producers, Pending(q)' PROVE UnlinkedOne(q, g, w, lo, h)'
      BY DEF Unlinked, UnlinkedOne
    <2>1. q # p /\ Pending(q) /\ prod'[q] = prod[q] /\ UnlinkedOne(q, f, v, lo, hi)
      BY <1>p, <1>q, <1>a DEF Unlinked
    <2>2. /\ prod[q].node \in Nodes /\ prod[q].count >= 1 /\ next[prod[q].node] = Null
          /\ data[prod[q].node] = <<q, prod[q].count>>
          /\ \A i \in Oldest(lo)..hi : f[i] # prod[q].node
          /\ \A i \in 1..hi : v[i] # <<q, prod[q].count>>
          /\ \A o \in Producers : Pending(o) /\ prod[o].node = prod[q].node => q = o
      BY <2>1 DEF UnlinkedOne
    <2>3. prod[q].node # node /\ prod[q].node # last
      <3>1. hi \in Oldest(lo)..hi
        BY <1>i
      <3>2. prod[q].node # last
        BY <3>1, <2>2, <1>2 DEF last
      <3> QED BY <3>2, <2>1, <1>4
    <2>4. next'[prod[q].node] = Null
      BY <2>2, <2>3, <1>n
    <2>5. \A i \in Oldest(lo)..h : g[i] # prod[q].node
      BY <2>2, <2>3, <1>x, <1>y, <1>g
    <2>6. \A i \in 1..h : w[i] # <<q, prod[q].count>>
      <3>1. val # <<q, prod[q].count>>
        BY <2>1 DEF val
      <3> QED BY <3>1, <2>2, <1>x, <1>y, <1>g
    <2>7. \A o \in Producers : Pending(o)' /\ prod'[o].node = prod[q].node => q = o
      BY <2>2, <1>p, <1>q
    <2> QED BY <2>1, <2>2, <2>4, <2>5, <2>6, <2>7, <1>b, <1>u DEF UnlinkedOne
  <1>10a. Following(g, s, h, t)'
    <2> SUFFICES ASSUME NEW q \in Producers PROVE FollowingOne(q, g, s, h, t)'
      BY DEF Following
    <2> DEFINE x == prod[q].last
    <2>1. FollowingOne(q, f, r, hi, t)
      BY <1>a DEF Following
    <2>2. Holding(q) => /\ x \in Nodes /\ r[x] <= t /\ x = f[r[x]] /\ x # node
                        /\ \A o \in Producers : Pending(o) => prod[o].node # x
      BY <2>1, <1>1 DEF FollowingOne, node
    <2>3. Holding(q) => /\ r[x] \in Nat /\ r[x] <= hi /\ s[x] = r[x]
                        /\ g[s[x]] = f[r[x]]
                        /\ r[x] < hi => g[s[x] + 1] = f[r[x] + 1]
      <3> SUFFICES ASSUME Holding(q)
                   PROVE  /\ r[x] \in Nat /\ r[x] <= hi /\ s[x] = r[x]
                          /\ g[s[x]] = f[r[x]]
                          /\ r[x] < hi => g[s[x] + 1] = f[r[x] + 1]
        OBVIOUS
      <3>1. r[x] \in Nat /\ r[x] <= hi /\ r[x] # h
        BY <2>2, <1>i, <1>j
      <3>2. s[x] = r[x]
        BY <2>2, <1>g
      <3>3. r[x] < hi => r[x] + 1 \in Nat /\ r[x] + 1 # h
        BY <3>1, <1>i
      <3> QED BY <3>1, <3>2, <3>3, <1>g
    <2>4. \A o \in Producers : Pending(o)' => Pending(o) /\ prod'[o].node = prod[o].node
      BY <1>p, <1>q
    <2>5. CASE q = p
      <3>1. Holding(p) /\ x = last
        BY <2>5, <1>1 DEF Holding, last
      <3>2. r[last] = hi
        <4>1. hi \in Oldest(lo)..hi
          BY <1>i
        <4> QED BY <4>1, <1>2, <1>j DEF last
      <3>3. s[last] < h /\ g[s[last] + 1] = node /\ s[last] <= t
        BY <3>1, <3>2, <2>2, <2>3, <2>5, <1>g
      <3>4. prod'[p].pc = "swing" /\ prod'[p].last = last /\ prod'[p].node = node
        BY <1>p, <1>r
      <3> QED BY <2>5, <3>1, <3>3, <3>4, <2>2, <2>3, <2>4 DEF FollowingOne, Holding
    <2>6. CASE q # p
      <3>1. prod'[q] = prod[q]
        BY <1>p, <2>6
      <3>2. Holding(q) => /\ s[x] <= t /\ x = g[s[x]]
                          /\ \A o \in Producers : Pending(o)' => prod'[o].node # x
                          /\ r[x] < hi => s[x] < h /\ g[s[x] + 1] = f[r[x] + 1]
        BY <2>2, <2>3, <2>4, <1>g
      <3>3. prod[q].pc \in {"check", "help", "swing"} => Holding(q)
        BY DEF Holding
      <3> QED BY <2>1, <2>2, <3>1, <3>2, <3>3 DEF FollowingOne, Holding
    <2> QED BY <2>5, <2>6
  <1>11a. Alone(g, h, t)'
    <2> SUFFICES ASSUME SoleProducer, NEW q \in callers PROVE AloneOne(q, g, h, t)'
      BY <1>b, <1>u DEF Alone
    <2>1. q = p
      BY <1>c DEF SoleProducer
    <2>2. t = hi /\ prod[p].last = tail /\ last # node
      BY <1>2, <1>4, <1>b0, <1>1 DEF AloneOne
    <2>3. h - 1 = t /\ t # h
      BY <2>2, <1>i
    <2> QED BY <2>1, <2>2, <2>3, <1>p, <1>r, <1>g, <1>u DEF AloneOne, last
  <1>12a. Consuming(g, w, s, lo, h, t)'
    <2>1. \A n \in Nodes : lo <= r[n] /\ r[n] <= t /\ n = f[r[n]] =>
                           s[n] = r[n] /\ n = g[s[n]]
      <3> SUFFICES ASSUME NEW n \in Nodes, lo <= r[n], r[n] <= t, n = f[r[n]]
                   PROVE  s[n] = r[n] /\ n = g[s[n]]
        OBVIOUS
      <3>1. r[n] \in Oldest(lo)..hi
        BY <1>i, <1>j
      <3>2. n # node
        BY <3>1, <1>4
      <3> QED BY <3>1, <3>2, <1>g, <1>y
    <2>2. g[lo] = f[lo] /\ (cons.pc = "delete" => g[lo - 1] = f[lo - 1])
      BY <1>t
    <2>3. lo < hi => lo < h /\ g[lo + 1] = f[lo + 1] /\ w[lo + 1] = v[lo + 1]
      BY <1>g, <1>i
    <2>6. w[lo] = v[lo]
      BY <1>g, <1>i
    <2>4. lo < t => lo < hi
      BY <1>i
    <2>5. Consuming(f, v, r, lo, hi, t) /\ cons' = cons
      BY <1>a, <1>u
    <2> QED BY <2>1, <2>2, <2>3, <2>4, <2>5, <2>6 DEF Consuming
  <1>13a. Enqueued(w, h)'
    <2>0. Enqueued(v, hi)
      BY <1>a
    <2>1. ASSUME NEW q \in Producers, NEW i \in 1..MaxItems, i <= prod'[q].count
          PROVE  (\E j \in 1..h : w[j] = <<q, i>>) \/ (Pending(q)' /\ i = prod'[q].count)
      <3>0. prod'[q].count = prod[q].count
        BY <1>p, <1>r
      <3>1. (\E j \in 1..hi : v[j] = <<q, i>>) \/ (Pending(q) /\ i = prod[q].count)
        BY <2>0, <2>1, <3>0, Zenon DEF Enqueued
      <3>2. CASE \E j \in 1..hi : v[j] = <<q, i>>
        BY <3>2, <1>x, <1>y
      <3>3. CASE Pending(q) /\ i = prod[q].count
        <4>1. CASE q = p
          <5>1. w[h] = <<q, i>>
            BY <4>1, <3>3, <1>g DEF val
          <5> QED BY <5>1, <1>x
        <4>2. CASE q # p
          BY <4>2, <3>0, <3>3, <1>q
        <4> QED BY <4>1, <4>2
      <3> QED BY <3>1, <3>2, <3>3
    <2>2. ASSUME NEW j \in 1..h, NEW q \in Producers, NEW i \in 1..MaxItems, w[j] = <<q, i>>
          PROVE  i <= prod'[q].count
      <3>0. prod'[q].count = prod[q].count
        BY <1>p, <1>r
      <3>1. CASE j = h
        <4>1. q = p /\ i = prod[p].count
          BY <3>1, <2>2, <1>g DEF val
        <4>2. prod[p].count \in 1..MaxItems
          BY <1>4
        <4> QED BY <4>1, <4>2, <3>0
      <3>2. CASE j # h
        <4>1. j \in 1..hi /\ v[j] = <<q, i>>
          BY <3>2, <2>2, <1>x, <1>y
        <4> QED BY <4>1, <2>0, <3>0, Zenon DEF Enqueued
      <3> QED BY <3>1, <3>2
    <2> QED BY <2>1, <2>2, Zenon DEF Enqueued
  <1>14a. Counted(w, lo)'
    <2>1. \A i \in 1..Oldest(lo) : w[i] = v[i]
      <3>1. \A i \in 1..Oldest(lo) : i \in 1..hi
        BY <1>i
      <3> QED BY <3>1, <1>y
    <2>2. \A x \in Values :
             (\E i \in 1..Oldest(lo) : v[i] = x) <=> (\E i \in 1..Oldest(lo) : w[i] = x)
      BY <2>1
    <2>3. \A x \in Values : deleted[x] = IF \E i \in 1..Oldest(lo) : v[i] = x THEN 1 ELSE 0
      BY <1>a, <1>d DEF Counted
    <2>4. \A x \in Values : deleted'[x] = IF \E i \in 1..Oldest(lo)' : w[i] = x THEN 1 ELSE 0
      BY <2>2, <2>3, <1>b, <1>u
    <2> QED BY <2>4 DEF Counted
  <1> QED
    BY <1>1a, <1>2a, <1>4a, <1>5a, <1>6a, <1>7a, <1>8a, <1>9a, <1>10a, <1>11a, <1>12a,
       <1>13a, <1>14a
    DEF QInv, Numbered

-----------------------------------------------------------------------------
(* The steps of the consumer.                                              *)

\* What is enqueued stays so when no producer moves.
LEMMA EnqueuedKept ==
    ASSUME NEW v, NEW hi, Enqueued(v, hi), prod' = prod
    PROVE  Enqueued(v, hi)'
  BY DEF Enqueued, Pending

\* a step that changes what the consumer knows, and perhaps the tail
ConsumerLocal ==
    /\ ~destroyed /\ cons.pc # "delete" /\ cons'.pc # "delete" /\ cons' \in ConsRecord
    /\ UNCHANGED <<head, next, data, allocated, used, deleted, prod, callers, weak, recycled,
                   destroyed>>
    /\ misused' \in BOOLEAN

\* Such a step keeps the invariant if what the consumer then knows is right.
LEMMA ConsumerStep ==
    ASSUME NEW f, NEW v, NEW r, NEW lo, NEW hi, NEW t, QInv(f, v, r, lo, hi, t),
           ConsumerLocal, NEW u, TailMoves(f, hi, t, u), Intact',
           Consuming(f, v, r, lo, hi, u)'
    PROVE  QInv(f, v, r, lo, hi, u)'
  <1>a. /\ Types /\ Uncalled /\ Intact /\ Closed /\ Ghosts(f, v, r, lo, hi, t)
        /\ Ordered(f, r, lo, hi, t) /\ Carried(f, v, lo, hi) /\ Held(f, lo, hi)
        /\ Unlinked(f, v, lo, hi) /\ Following(f, r, hi, t) /\ Alone(f, hi, t)
        /\ Enqueued(v, hi) /\ Counted(v, lo)
    BY Parts
  <1>z. /\ ~destroyed /\ cons.pc # "delete" /\ cons'.pc # "delete" /\ cons' \in ConsRecord
        /\ UNCHANGED <<head, next, data, allocated, used, deleted, prod, callers, weak, recycled,
                       destroyed>>
        /\ misused' \in BOOLEAN
    BY DEF ConsumerLocal
  <1>b. /\ Oldest(lo)' = Oldest(lo)
        /\ SoleProducer' = SoleProducer
        /\ \A q \in Producers : Pending(q)' <=> Pending(q)
    BY <1>z DEF Oldest, SoleProducer, Pending
  <1>u. u \in Nat /\ t <= u /\ u <= hi /\ lo <= u /\ tail' = f[u] /\ t \in Nat /\ lo \in Nat
        /\ hi \in Nat /\ f \in [Nat -> Nodes] /\ r \in [Nodes -> Nat] /\ u <= t + 1 /\ tail = f[t]
    BY <1>a, Numbers DEF TailMoves, Ghosts, Ordered
  <1>1. Types'
    BY <1>a, <1>z, <1>u DEF Types
  <1>2. Uncalled' /\ Closed'
    BY <1>a, <1>z DEF Uncalled, Closed
  <1>4. Ghosts(f, v, r, lo, hi, u)'
    BY <1>a, <1>u DEF Ghosts
  <1>5. Ordered(f, r, lo, hi, u)'
    BY <1>a, <1>b, <1>u, <1>z DEF Ordered
  <1>6. Carried(f, v, lo, hi)' /\ Counted(v, lo)'
    BY <1>a, <1>b, <1>z DEF Carried, Counted
  <1>7. Held(f, lo, hi)'
    <2>1. Held(f, lo, hi)
      BY <1>a
    <2> QED BY <2>1, <1>b, <1>z DEF Held
  <1>8. Unlinked(f, v, lo, hi)'
    <2> SUFFICES ASSUME NEW q \in Producers PROVE UnlinkedOne(q, f, v, lo, hi)'
      BY DEF Unlinked
    <2>1. UnlinkedOne(q, f, v, lo, hi)
      BY <1>a DEF Unlinked
    <2> QED BY <2>1, <1>b, <1>z DEF UnlinkedOne
  <1>9. Following(f, r, hi, u)'
    <2> SUFFICES ASSUME NEW q \in Producers PROVE FollowingOne(q, f, r, hi, u)'
      BY DEF Following
    <2>1. FollowingOne(q, f, r, hi, t) /\ prod' = prod
      BY <1>a, <1>z DEF Following
    <2>2. \A n \in Nodes : r[n] <= t => r[n] <= u
      BY <1>u
    <2> QED BY <2>1, <2>2, <1>b DEF FollowingOne, Holding
  <1>10. Alone(f, hi, u)'
    <2> SUFFICES ASSUME SoleProducer, NEW q \in callers PROVE AloneOne(q, f, hi, u)'
      BY <1>b, <1>z DEF Alone
    <2>1. AloneOne(q, f, hi, t) /\ prod'[q] = prod[q]
      BY <1>a, <1>z DEF Alone
    <2>2. CASE u = t
      BY <2>1, <2>2, <1>u DEF AloneOne
    <2>3. CASE u # t
      <3>1. u = t + 1 /\ t # hi
        BY <2>3, <1>u
      <3>2. u = hi /\ prod[q].pc = "swing"
        BY <3>1, <2>1, <1>u DEF AloneOne
      <3> QED BY <3>2, <2>1 DEF AloneOne
    <2> QED BY <2>2, <2>3
  <1>11. Enqueued(v, hi)'
    BY <1>a, <1>z, EnqueuedKept
  <1> QED
    BY <1>1, <1>2, <1>4, <1>5, <1>6, <1>7, <1>8, <1>9, <1>10, <1>11 DEF QInv, Numbered

\* What the consumer can rely on, in dequeue or before it.
LEMMA Front ==
    ASSUME NEW f, NEW v, NEW r, NEW lo, NEW hi, NEW t, QInv(f, v, r, lo, hi, t),
           cons.pc # "idle" \/ ~destroyed
    PROVE  /\ ~destroyed /\ cons \in ConsRecord /\ Consuming(f, v, r, lo, hi, t)
           /\ t \in Nat /\ hi \in Nat /\ t <= hi /\ lo <= t /\ lo \in Nat
           /\ f \in [Nat -> Nodes] /\ r \in [Nodes -> Nat]
           /\ tail = f[t] /\ r[tail] = t /\ head = f[lo]
           /\ tail \in Nodes /\ head \in Nodes /\ head \in allocated
           /\ next \in [Nodes -> Pointers] /\ next[f[hi]] = Null /\ Null \notin Nodes
           /\ \A i \in Oldest(lo)..hi : f[i] \in allocated /\ f[i] \in Nodes
           /\ \A i \in lo..hi : r[f[i]] = i /\ (i < hi => next[f[i]] = f[i + 1])
           /\ TailMoves(f, hi, t, t) <=> tail' = tail
           /\ misused \in BOOLEAN
  <1>a. /\ Types /\ Intact /\ Closed /\ Ghosts(f, v, r, lo, hi, t)
        /\ Ordered(f, r, lo, hi, t) /\ Held(f, lo, hi) /\ Consuming(f, v, r, lo, hi, t)
    BY Parts
  <1>1. ~destroyed
    BY <1>a DEF Closed
  <1>2. /\ t \in Nat /\ hi \in Nat /\ t <= hi /\ lo <= t /\ lo \in Nat
        /\ f \in [Nat -> Nodes] /\ r \in [Nodes -> Nat]
        /\ Oldest(lo) \in Nat /\ Oldest(lo) <= lo
    BY <1>a, Numbers DEF Ghosts
  <1>3. \A i \in lo..hi : i \in Oldest(lo)..hi
    BY Numbers
  <1>4. \A i \in lo..hi : r[f[i]] = i /\ (i < hi => next[f[i]] = f[i + 1])
    BY <1>3, <1>a DEF Ordered
  <1>5. tail = f[t] /\ head = f[lo] /\ next[f[hi]] = Null
    BY <1>a DEF Ordered
  <1>6. r[tail] = t
    BY <1>4, <1>5, <1>2
  <1>7. \A i \in Oldest(lo)..hi : f[i] \in allocated /\ f[i] \in Nodes
    BY <1>1, <1>2, <1>a, Bounds DEF Held
  <1>9. TailMoves(f, hi, t, t) <=> tail' = tail
    BY <1>2, <1>5 DEF TailMoves
  <1>10. /\ tail \in Nodes /\ head \in Nodes /\ next \in [Nodes -> Pointers]
         /\ misused \in BOOLEAN /\ cons \in ConsRecord
    BY <1>a DEF Types
  <1> QED BY <1>1, <1>2, <1>4, <1>5, <1>6, <1>7, <1>9, <1>10, <1>a,
           EndsAllocated, QueueAssumption

\* the steps of dequeue that keep head: the loads, the checks, and helping the tail along
Looks ==
    \/ DequeueStart \/ DequeueLoadTail \/ DequeueLoadNext \/ CheckHead \/ HelpTail \/ LoadData
    \/ MoveHead /\ cons'.pc = "idle"

\* They keep the invariant.
LEMMA LooksStep ==
    ASSUME NEW f, NEW v, NEW r, NEW lo, NEW hi, NEW t, QInv(f, v, r, lo, hi, t), Looks, Intact'
    PROVE  \E u \in {t, t + 1} : QInv(f, v, r, lo, hi, u)'
  <1> USE DEF memory, aside
  <1>0. /\ ~destroyed /\ cons \in ConsRecord /\ Consuming(f, v, r, lo, hi, t)
        /\ t \in Nat /\ hi \in Nat /\ t <= hi /\ lo <= t /\ lo \in Nat
        /\ f \in [Nat -> Nodes] /\ r \in [Nodes -> Nat]
        /\ tail = f[t] /\ r[tail] = t /\ head = f[lo]
        /\ tail \in Nodes /\ head \in Nodes /\ head \in allocated
        /\ next \in [Nodes -> Pointers] /\ next[f[hi]] = Null /\ Null \notin Nodes
        /\ \A i \in Oldest(lo)..hi : f[i] \in allocated /\ f[i] \in Nodes
        /\ \A i \in lo..hi : r[f[i]] = i /\ (i < hi => next[f[i]] = f[i + 1])
        /\ TailMoves(f, hi, t, t) <=> tail' = tail
        /\ misused \in BOOLEAN
    <2>1. cons.pc # "idle" \/ ~destroyed
      BY DEF Looks, DequeueStart, DequeueLoadTail, DequeueLoadNext, CheckHead, HelpTail, LoadData,
             MoveHead
    <2> QED BY <2>1, Front
  <1>t. tail' = tail => TailMoves(f, hi, t, t)
    BY <1>0
  <1>c. /\ cons.pc \in ConsumerPcs /\ cons.first \in Pointers /\ cons.last \in Pointers
        /\ cons.next \in Pointers
    BY <1>0 DEF ConsRecord
  <1>1. CASE DequeueStart
    <2> USE DEF DequeueStart
    <2>1. ConsumerLocal /\ cons' = [cons EXCEPT !.pc = "tail", !.first = head] /\ misused' = misused
      BY <1>1, <1>0 DEF ConsumerLocal, ConsRecord, ConsumerPcs, Pointers
    <2>2. cons'.pc = "tail" /\ cons'.first = f[lo]
      BY <2>1, <1>0 DEF ConsRecord
    <2>3. Consuming(f, v, r, lo, hi, t)'
      BY <2>2 DEF Consuming
    <2>4. TailMoves(f, hi, t, t)
      BY <1>t, <1>1
    <2> HIDE DEF DequeueStart
    <2>5. QInv(f, v, r, lo, hi, t)'
      BY <2>1, <2>3, <2>4, <1>0, ConsumerStep
    <2> QED BY <2>5
  <1>2. CASE DequeueLoadTail
    <2> USE DEF DequeueLoadTail
    <2>1. ConsumerLocal /\ cons' = [cons EXCEPT !.pc = "next", !.last = tail] /\ misused' = misused
      BY <1>2, <1>0 DEF ConsumerLocal, ConsRecord, ConsumerPcs, Pointers
    <2>2. cons'.pc = "next" /\ cons'.first = cons.first /\ cons'.last = tail
      BY <2>1, <1>0 DEF ConsRecord
    <2>3. Consuming(f, v, r, lo, hi, t)'
      BY <2>2, <1>0, <1>2 DEF Consuming
    <2>4. TailMoves(f, hi, t, t)
      BY <1>t, <1>2
    <2> HIDE DEF DequeueLoadTail
    <2>5. QInv(f, v, r, lo, hi, t)'
      BY <2>1, <2>3, <2>4, <1>0, ConsumerStep
    <2> QED BY <2>5
  <1>3. CASE DequeueLoadNext
    <2> USE DEF DequeueLoadNext
    <2>0. cons.pc = "next" /\ cons.first = f[lo]
      BY <1>3, <1>0 DEF Consuming
    <2>00. next[cons.first] \in Pointers
      BY <2>0, <1>0
    <2>1. ConsumerLocal /\ cons' = [cons EXCEPT !.pc = "check", !.next = next[cons.first]]
      <3>1. cons' \in ConsRecord /\ cons'.pc = "check"
        BY <1>3, <1>0, <2>00 DEF ConsRecord, ConsumerPcs
      <3> QED BY <3>1, <2>0, <1>3, <1>0 DEF ConsumerLocal, Access
    <2>2. cons'.pc = "check" /\ cons'.first = cons.first /\ cons'.last = cons.last
          /\ cons'.next = next[cons.first] /\ misused' = misused
      <3>1. cons.first \in allocated
        BY <2>0, <1>0
      <3>2. misused' = misused
        BY <1>3, <3>1, <1>0 DEF Access
      <3> QED BY <3>2, <2>1, <1>0 DEF ConsRecord
    <2>4. TailMoves(f, hi, t, t)
      BY <1>t, <1>3
    <2> HIDE DEF DequeueLoadNext
    <2>6. next[f[lo]] # Null => lo < hi /\ next[f[lo]] = f[lo + 1]
      <3>1. lo \in lo..hi
        BY <1>0
      <3>2. lo < hi \/ lo = hi
        BY <1>0
      <3> QED BY <3>1, <3>2, <1>0
    <2>3. Consuming(f, v, r, lo, hi, t)'
      BY <2>0, <2>2, <2>6, <1>0 DEF Consuming
    <2>5. QInv(f, v, r, lo, hi, t)'
      BY <2>1, <2>2, <2>3, <2>4, <1>0, ConsumerStep
    <2> QED BY <2>5
  <1>4. CASE CheckHead
    <2> USE DEF CheckHead
    <2> DEFINE pc == IF cons.first = cons.last THEN IF cons.next = Null THEN "idle" ELSE "help"
                     ELSE IF cons.next = Null THEN "idle" ELSE "data"
    <2>0. cons.pc = "check"
      BY <1>4
    <2>1. ConsumerLocal /\ cons' = [cons EXCEPT !.pc = pc] /\ misused' = misused
      BY <1>4, <1>0 DEF ConsumerLocal, ConsRecord, ConsumerPcs
    <2>2. cons'.pc = pc /\ cons'.first = cons.first /\ cons'.last = cons.last
          /\ cons'.next = cons.next
      BY <2>1, <1>0 DEF ConsRecord
    <2>4. TailMoves(f, hi, t, t)
      BY <1>t, <1>4
    <2> HIDE DEF CheckHead
    <2>6. cons.last # f[lo] /\ cons.last = f[r[cons.last]] => r[cons.last] # lo
      OBVIOUS
    <2>7. cons.last \in Nodes /\ lo <= r[cons.last] /\ r[cons.last] <= t
          /\ cons.last = f[r[cons.last]] /\ cons.first = f[lo]
          /\ (cons.next # Null => lo < hi /\ cons.next = f[lo + 1])
      BY <2>0, <1>0 DEF Consuming
    <2>8. cons.first # cons.last => lo < t
      BY <2>6, <2>7, <1>0
    <2>3. Consuming(f, v, r, lo, hi, t)'
      BY <2>2, <2>7, <2>8 DEF Consuming
    <2>5. QInv(f, v, r, lo, hi, t)'
      BY <2>1, <2>3, <2>4, <1>0, ConsumerStep
    <2> QED BY <2>5
  <1>5. CASE HelpTail
    <2> USE DEF HelpTail
    <2>0. cons.pc = "help" /\ cons.last = f[lo] /\ lo < hi /\ cons.next = f[lo + 1]
      BY <1>5, <1>0 DEF Consuming
    <2>1. ConsumerLocal /\ cons' = [cons EXCEPT !.pc = "idle"] /\ misused' = misused
      BY <1>5, <1>0 DEF ConsumerLocal, ConsRecord, ConsumerPcs
    <2>2. cons'.pc = "idle"
      BY <2>1, <1>0 DEF ConsRecord
    <2>3. \A u : Consuming(f, v, r, lo, hi, u)'
      BY <2>2 DEF Consuming
    <2>4. (tail = cons.last /\ tail' = cons.next) \/ tail' = tail
      BY <1>5
    <2> HIDE DEF HelpTail
    <2>5. PICK u \in {t, t + 1} : TailMoves(f, hi, t, u)
      <3>1. CASE tail' = tail
        BY <3>1, <1>t
      <3>2. CASE tail = cons.last /\ tail' = cons.next
        <4>1. lo \in lo..hi /\ r[f[lo]] = lo
          BY <1>0
        <4>2. t = lo
          BY <4>1, <3>2, <2>0, <1>0
        <4>3. TailMoves(f, hi, t, t + 1)
          BY <4>2, <3>2, <2>0, <1>0 DEF TailMoves
        <4> QED BY <4>3
      <3> QED BY <3>1, <3>2, <2>4
    <2>6. QInv(f, v, r, lo, hi, u)'
      BY <2>1, <2>3, <2>5, <1>0, ConsumerStep
    <2> QED BY <2>6, <2>5
  <1>6. CASE LoadData
    <2> USE DEF LoadData
    <2>0. cons.pc = "data" /\ lo < t /\ cons.next = f[lo + 1]
      BY <1>6, <1>0 DEF Consuming
    <2>1. cons.next \in allocated
      <3>1. lo + 1 \in Oldest(lo)..hi
        BY <2>0, <1>0, Numbers
      <3> QED BY <3>1, <2>0, <1>0
    <2>2. data[cons.next] = v[lo + 1] /\ v[lo + 1] \in Values /\ v[lo + 1] # Null
      <3>1. lo + 1 \in Oldest(lo)..hi /\ lo + 1 # 0 /\ lo + 1 \in Nat
        BY <2>0, <1>0, Numbers
      <3> QED BY <3>1, <2>0, Parts, Bounds DEF Carried
    <2>3. /\ cons' = [cons EXCEPT !.pc = "head", !.data = v[lo + 1]]
          /\ misused' = misused
      BY <1>6, <2>1, <2>2, <1>0 DEF Access
    <2>6. /\ cons' \in ConsRecord /\ cons'.pc = "head" /\ cons'.first = cons.first
          /\ cons'.last = cons.last /\ cons'.next = cons.next /\ cons'.data = v[lo + 1]
      BY <2>3, <2>2, <1>0 DEF ConsRecord, ConsumerPcs
    <2>7. ConsumerLocal
      BY <2>0, <2>3, <2>6, <1>6, <1>0 DEF ConsumerLocal
    <2>4. TailMoves(f, hi, t, t)
      BY <1>t, <1>6
    <2>5. Consuming(f, v, r, lo, hi, t)'
      BY <2>0, <2>6, <1>0 DEF Consuming
    <2> HIDE DEF LoadData
    <2>8. QInv(f, v, r, lo, hi, t)'
      BY <2>7, <2>4, <2>5, <1>0, ConsumerStep
    <2> QED BY <2>8
  <1>7. CASE MoveHead /\ cons'.pc = "idle"
    <2> USE DEF MoveHead
    <2>0. head' = head /\ cons' = [cons EXCEPT !.pc = "idle"] /\ cons.pc = "head"
      <3>1. [cons EXCEPT !.pc = "delete"].pc = "delete"
        BY <1>0 DEF ConsRecord
      <3> QED BY <3>1, <1>7
    <2>2. ConsumerLocal /\ misused' = misused
      BY <2>0, <1>7, <1>0 DEF ConsumerLocal, ConsRecord, ConsumerPcs
    <2>4. TailMoves(f, hi, t, t)
      BY <1>t, <1>7
    <2>5. Consuming(f, v, r, lo, hi, t)'
      BY <1>7 DEF Consuming
    <2> HIDE DEF MoveHead
    <2>6. QInv(f, v, r, lo, hi, t)'
      BY <2>2, <2>4, <2>5, <1>0, ConsumerStep
    <2> QED BY <2>6
  <1> QED BY <1>1, <1>2, <1>3, <1>4, <1>5, <1>6, <1>7 DEF Looks

\* The head moves to the next node: the old first node is the consumer's to delete.
LEMMA MoveHeadStep ==
    ASSUME NEW f, NEW v, NEW r, NEW lo, NEW hi, NEW t, QInv(f, v, r, lo, hi, t),
           MoveHead, cons'.pc = "delete", Intact', NEW lo2, lo2 = lo + 1
    PROVE  QInv(f, v, r, lo2, hi, t)' /\ lo < hi
  <1>a. /\ Types /\ Uncalled /\ Intact /\ Closed /\ Ghosts(f, v, r, lo, hi, t)
        /\ Ordered(f, r, lo, hi, t) /\ Carried(f, v, lo, hi) /\ Held(f, lo, hi)
        /\ Unlinked(f, v, lo, hi) /\ Following(f, r, hi, t) /\ Alone(f, hi, t)
        /\ Consuming(f, v, r, lo, hi, t) /\ Enqueued(v, hi) /\ Counted(v, lo)
        /\ prod \in [Producers -> ProdRecord] /\ cons \in ConsRecord
    BY Parts
  <1>1. cons.pc = "head"
    BY DEF MoveHead
  <1>2. head' = cons.next /\ cons' = [cons EXCEPT !.pc = "delete"]
    <2>1. [cons EXCEPT !.pc = "idle"].pc = "idle"
      BY <1>a DEF ConsRecord
    <2> QED BY <2>1 DEF MoveHead
  <1>z. UNCHANGED <<tail, next, data, allocated, used, deleted, misused, prod, callers, weak,
                    recycled, destroyed>>
    BY DEF MoveHead, memory, aside
  <1>3. cons' \in ConsRecord /\ cons'.pc = "delete" /\ cons'.first = cons.first
        /\ cons'.next = cons.next /\ cons'.last = cons.last /\ cons'.data = cons.data
    BY <1>2, <1>a DEF ConsRecord, ConsumerPcs
  <1>4. cons.first = f[lo] /\ lo < t /\ cons.next = f[lo + 1] /\ cons.data = v[lo + 1]
    BY <1>1, <1>a DEF Consuming
  <1>i. /\ lo \in Nat /\ hi \in Nat /\ t \in Nat /\ lo <= t /\ t <= hi
        /\ lo2 \in Nat /\ lo2 >= 1 /\ lo2 <= t /\ lo2 - 1 = lo /\ lo < hi
    BY Numbers, <1>4
  <1>b. /\ Oldest(lo) = lo /\ Oldest(lo2)' = lo /\ Oldest(lo2)' = Oldest(lo)
        /\ SoleProducer' = SoleProducer
        /\ \A q \in Producers : Pending(q)' <=> Pending(q)
    <2>1. Oldest(lo) = lo /\ Oldest(lo2)' = lo
      BY <1>1, <1>3, <1>i DEF Oldest
    <2>2. SoleProducer' = SoleProducer
      BY <1>z DEF SoleProducer
    <2> QED BY <2>1, <2>2, <1>z DEF Pending
  <1>d. ~destroyed
    BY <1>1, <1>a DEF Closed
  <1>h. head' = f[lo2] /\ f[lo2] \in Nodes
    BY <1>2, <1>4, <1>i, <1>a DEF Ghosts
  <1>1a. Types'
    BY <1>a, <1>z, <1>3, <1>h DEF Types
  <1>2a. Uncalled' /\ Closed'
    BY <1>a, <1>z, <1>d DEF Uncalled, Closed
  <1>5a. Ghosts(f, v, r, lo2, hi, t)'
    BY <1>a, <1>i DEF Ghosts
  <1>6a. Ordered(f, r, lo2, hi, t)'
    BY <1>a, <1>b, <1>i, <1>h, <1>z DEF Ordered
  <1>7a. Carried(f, v, lo2, hi)'
    BY <1>a, <1>b, <1>z DEF Carried
  <1>8a. Held(f, lo2, hi)'
    <2>1. Held(f, lo, hi)
      BY <1>a
    <2> QED BY <2>1, <1>b, <1>z DEF Held
  <1>9a. Unlinked(f, v, lo2, hi)'
    <2> SUFFICES ASSUME NEW q \in Producers PROVE UnlinkedOne(q, f, v, lo2, hi)'
      BY DEF Unlinked
    <2>1. UnlinkedOne(q, f, v, lo, hi)
      BY <1>a DEF Unlinked
    <2> QED BY <2>1, <1>b, <1>z DEF UnlinkedOne
  <1>10a. Following(f, r, hi, t)' /\ Alone(f, hi, t)'
    <2>1. Following(f, r, hi, t)'
      BY <1>a, <1>b, <1>z DEF Following, FollowingOne, Holding
    <2>2. Alone(f, hi, t)'
      BY <1>a, <1>b, <1>z DEF Alone, AloneOne
    <2> QED BY <2>1, <2>2
  <1>11a. Consuming(f, v, r, lo2, hi, t)'
    BY <1>3, <1>4, <1>i DEF Consuming
  <1>12a. Enqueued(v, hi)'
    BY <1>a, <1>z, EnqueuedKept
  <1>13a. Counted(v, lo2)'
    BY <1>a, <1>b, <1>z DEF Counted
  <1> QED
    BY <1>1a, <1>2a, <1>5a, <1>6a, <1>7a, <1>8a, <1>9a, <1>10a, <1>11a, <1>12a, <1>13a, <1>i
    DEF QInv, Numbered

\* The old first node is deleted, with the object of the item that left.
LEMMA DeleteStep ==
    ASSUME NEW f, NEW v, NEW r, NEW lo, NEW hi, NEW t, QInv(f, v, r, lo, hi, t), Delete, Intact'
    PROVE  QInv(f, v, r, lo, hi, t)'
  <1>a. /\ Types /\ Uncalled /\ Intact /\ Closed /\ Ghosts(f, v, r, lo, hi, t)
        /\ Ordered(f, r, lo, hi, t) /\ Carried(f, v, lo, hi) /\ Held(f, lo, hi)
        /\ Unlinked(f, v, lo, hi) /\ Following(f, r, hi, t) /\ Alone(f, hi, t)
        /\ Consuming(f, v, r, lo, hi, t) /\ Enqueued(v, hi) /\ Counted(v, lo)
        /\ prod \in [Producers -> ProdRecord] /\ cons \in ConsRecord
    BY Parts
  <1>z. /\ cons.pc = "delete"
        /\ deleted' = [deleted EXCEPT ![cons.data] = @ + 1]
        /\ allocated' = allocated \ {cons.first}
        /\ cons' = [cons EXCEPT !.pc = "idle"]
        /\ UNCHANGED <<head, tail, next, data, used, misused, prod, callers, weak, recycled,
                       destroyed>>
    BY DEF Delete, aside
  <1>1. cons' \in ConsRecord /\ cons'.pc = "idle"
    BY <1>z, <1>a DEF ConsRecord, ConsumerPcs
  <1>2. cons.first = f[lo - 1] /\ cons.data = v[lo] /\ lo >= 1
    BY <1>z, <1>a DEF Consuming, Ordered
  <1>i. /\ lo \in Nat /\ hi \in Nat /\ t \in Nat /\ lo <= t /\ t <= hi
        /\ Oldest(lo) = lo - 1 /\ Oldest(lo) \in Nat /\ Oldest(lo) <= lo - 1 /\ lo >= 1
        /\ lo - 1 \in Nat
    BY Numbers, <1>z, <1>2
  <1>j. /\ f \in [Nat -> Nodes] /\ v \in [Nat -> Values] /\ r \in [Nodes -> Nat]
        /\ \A i \in Oldest(lo)..hi : f[i] \in Nodes /\ r[f[i]] = i
    BY Bounds
  <1>b. /\ Oldest(lo)' = lo /\ SoleProducer' = SoleProducer
        /\ \A q \in Producers : Pending(q)' <=> Pending(q)
    <2>1. Oldest(lo)' = lo
      BY <1>1 DEF Oldest
    <2>2. SoleProducer' = SoleProducer
      BY <1>z DEF SoleProducer
    <2> QED BY <2>1, <2>2, <1>z, <1>i DEF Pending
  <1>x. /\ \A i \in Oldest(lo)'..hi : i \in Oldest(lo)..hi
        /\ \A i \in Oldest(lo)'..hi : i \in Oldest(lo)..hi /\ i \in Oldest(lo)..hi /\ i # lo - 1
        /\ \A i \in Oldest(lo)..hi : i = lo - 1 \/ i \in Oldest(lo)'..hi
        /\ lo \in Oldest(lo)..hi /\ lo - 1 \in Oldest(lo)..hi /\ lo - 1 \in Oldest(lo)..hi
        /\ \A i \in 1..lo : i = lo \/ i \in 1..Oldest(lo)
        /\ \A i \in 1..Oldest(lo) : i \in 1..lo /\ i # lo /\ i \in 1..hi
        /\ lo \in 1..lo /\ lo \in 1..hi
    BY <1>i, <1>b
  <1>d. ~destroyed
    BY <1>z, <1>a DEF Closed
  <1>v. v[lo] \in Values
    BY <1>i, <1>j
  <1>c. /\ deleted' \in [Values -> Nat]
        /\ deleted'[v[lo]] = deleted[v[lo]] + 1
        /\ \A w \in Values : w # v[lo] => deleted'[w] = deleted[w]
    BY <1>z, <1>2, <1>v, <1>a DEF Types
  <1>1a. Types'
    <2>1. \A n \in allocated' : n \in used
      BY <1>z, <1>a DEF Types
    <2> QED BY <2>1, <1>a, <1>z, <1>c, <1>1 DEF Types
  <1>2a. Uncalled' /\ Closed'
    BY <1>a, <1>z, <1>d DEF Uncalled, Closed
  <1>5a. Ghosts(f, v, r, lo, hi, t)'
    BY <1>a DEF Ghosts
  <1>6a. Ordered(f, r, lo, hi, t)'
    BY <1>a, <1>x, <1>1, <1>z DEF Ordered
  <1>7a. Carried(f, v, lo, hi)'
    BY <1>a, <1>x, <1>z DEF Carried
  <1>8a. Held(f, lo, hi)'
    <2>1. ASSUME NEW n \in Nodes
          PROVE  n \in allocated' <=> \/ \E i \in Oldest(lo)'..hi : n = f[i]
                                      \/ \E q \in Producers : Pending(q) /\ n = prod[q].node
      <3>1. n \in allocated <=> \/ \E i \in Oldest(lo)..hi : n = f[i]
                                \/ \E q \in Producers : Pending(q) /\ n = prod[q].node
        BY <1>a, <1>d DEF Held
      <3>2. n \in allocated' <=> n \in allocated /\ n # f[lo - 1]
        BY <1>z, <1>2
      <3>3. \A i \in Oldest(lo)'..hi : f[i] # f[lo - 1]
        BY <1>x, <1>j
      <3>4. \A q \in Producers : Pending(q) => prod[q].node # f[lo - 1]
        BY <1>a, <1>x DEF Unlinked, UnlinkedOne
      <3> QED BY <3>1, <3>2, <3>3, <3>4, <1>x
    <2>3. \A n \in Nodes : n \in allocated' <=>
              \/ \E i \in Oldest(lo)'..hi : n = f[i]
              \/ \E q \in Producers : Pending(q)' /\ n = prod'[q].node
      BY <2>1, <1>b, <1>z
    <2> QED BY <2>3, Zenon DEF Held
  <1>9a. Unlinked(f, v, lo, hi)'
    <2> SUFFICES ASSUME NEW q \in Producers PROVE UnlinkedOne(q, f, v, lo, hi)'
      BY DEF Unlinked
    <2>1. UnlinkedOne(q, f, v, lo, hi)
      BY <1>a DEF Unlinked
    <2> QED BY <2>1, <1>b, <1>z, <1>x DEF UnlinkedOne
  <1>10a. Following(f, r, hi, t)' /\ Alone(f, hi, t)'
    <2>1. Following(f, r, hi, t)'
      BY <1>a, <1>b, <1>z DEF Following, FollowingOne, Holding
    <2>2. Alone(f, hi, t)'
      BY <1>a, <1>b, <1>z DEF Alone, AloneOne
    <2> QED BY <2>1, <2>2
  <1>11a. Consuming(f, v, r, lo, hi, t)'
    BY <1>1 DEF Consuming
  <1>12a. Enqueued(v, hi)'
    BY <1>a, <1>z, EnqueuedKept
  <1>13a. Counted(v, lo)'
    <2>1. ASSUME NEW w \in Values
          PROVE  deleted'[w] = IF \E i \in 1..lo : v[i] = w THEN 1 ELSE 0
      <3>1. deleted[w] = IF \E i \in 1..Oldest(lo) : v[i] = w THEN 1 ELSE 0
        BY <1>a, <1>d DEF Counted
      <3>2. CASE w = v[lo]
        <4>1. ~ \E i \in 1..Oldest(lo) : v[i] = w
          BY <3>2, <1>x, <1>a DEF Carried
        <4> QED BY <4>1, <3>1, <3>2, <1>c, <1>x
      <3>3. CASE w # v[lo]
        BY <3>1, <3>3, <1>c, <1>x
      <3> QED BY <3>2, <3>3
    <2> QED BY <2>1, <1>b DEF Counted
  <1> QED
    BY <1>1a, <1>2a, <1>5a, <1>6a, <1>7a, <1>8a, <1>9a, <1>10a, <1>11a, <1>12a, <1>13a
    DEF QInv, Numbered

-----------------------------------------------------------------------------
(* The list from one node to its end.  After follows the next pointers.    *)
(* The ranks r decrease towards the head, so that there is a function with *)
(* After's equation; induction over the distance from the end gives its    *)
(* values.  Induction itself comes from the well-founded order of finite   *)
(* sets.                                                                   *)

\* Of some numbers one is the smallest.
LEMMA Least ==
    ASSUME NEW A \in SUBSET Nat, A # {}
    PROVE  \E m \in A : \A k \in A : m <= k
  <1> DEFINE F == {0..n : n \in A}
  <1>1. F \subseteq FiniteSubsetsOf(Nat) /\ F # {}
    <2>1. \A n \in A : 0..n \in SUBSET Nat /\ IsFiniteSet(0..n)
      BY FS_Interval
    <2> QED BY <2>1 DEF FiniteSubsetsOf
  <1>2. IsWellFoundedOn(StrictSubsetOrdering(Nat), FiniteSubsetsOf(Nat))
    BY FS_StrictSubsetOrderingWellFounded
  <1>3. \E x \in F : \A y \in F : ~ (<<y, x>> \in StrictSubsetOrdering(Nat))
    <2> HIDE DEF F
    <2> QED BY <1>1, <1>2, WFMin
  <1>4. PICK m \in A : \A y \in F : ~ (<<y, 0..m>> \in StrictSubsetOrdering(Nat))
    BY <1>3
  <1>5. ASSUME NEW k \in A, k < m PROVE FALSE
    <2>1. 0..k \in F /\ 0..k \subseteq 0..m /\ m \in 0..m /\ m \notin 0..k
      BY <1>5
    <2>2. 0..k \in SUBSET Nat /\ 0..m \in SUBSET Nat
      BY <1>5
    <2>3. <<0..k, 0..m>> \in StrictSubsetOrdering(Nat)
      BY <2>1, <2>2 DEF StrictSubsetOrdering
    <2> QED BY <2>1, <2>3, <1>4
  <1> QED BY <1>5

\* What holds of 0, and of the successor of each number of which it holds, holds of all.
LEMMA Induction ==
    ASSUME NEW A, 0 \in A, \A n \in Nat : n \in A => n + 1 \in A
    PROVE  \A n \in Nat : n \in A
  <1> DEFINE B == {n \in Nat : n \notin A}
  <1>1. SUFFICES ASSUME B # {} PROVE FALSE
    OBVIOUS
  <1>2. B \in SUBSET Nat
    OBVIOUS
  <1> HIDE DEF B
  <1>3. PICK m \in B : \A k \in B : m <= k
    BY <1>1, <1>2, Least
  <1>4. m \in Nat /\ m \notin A /\ m # 0
    BY <1>3 DEF B
  <1>5. m - 1 \in Nat /\ ~(m <= m - 1)
    BY <1>4
  <1>6. m - 1 \in A
    BY <1>3, <1>5 DEF B
  <1>7. (m - 1) + 1 = m
    BY <1>4
  <1>8. (m - 1) + 1 \in A
    BY <1>5, <1>6
  <1> QED BY <1>4, <1>7, <1>8

\* the right-hand side of After's definition
Body(g, n) == IF next[n] = Null THEN <<>> ELSE <<next[n]>> \o g[next[n]]

\* After satisfies its equation.
LEMMA AfterIs ==
    ASSUME NEW r \in [Nodes -> Nat], NEW hi \in Nat, next \in [Nodes -> Pointers],
           \A n \in Nodes : r[n] <= hi /\ (next[n] # Null => r[n] < r[next[n]])
    PROVE  \A n \in Nodes : After[n] = Body(After, n)
  <1> DEFINE A == {k \in Nat : \E g : \A n \in Nodes : hi - r[n] < k => g[n] = Body(g, n)}
  <1>1. 0 \in A
    <2>1. \A n \in Nodes : ~(hi - r[n] < 0)
      OBVIOUS
    <2> QED BY <2>1
  <1>2. ASSUME NEW k \in Nat, k \in A PROVE k + 1 \in A
    <2>1. PICK g : \A n \in Nodes : hi - r[n] < k => g[n] = Body(g, n)
      BY <1>2
    <2> DEFINE g2 == [n \in Nodes |-> Body(g, n)]
    <2>2. ASSUME NEW n \in Nodes, hi - r[n] < k + 1 PROVE g2[n] = Body(g2, n)
      <3>1. CASE next[n] = Null
        BY <3>1 DEF Body
      <3>2. CASE next[n] # Null
        <4>1. next[n] \in Nodes /\ r[n] < r[next[n]]
          BY <3>2 DEF Pointers
        <4>2. r[n] \in Nat /\ r[next[n]] \in Nat
          BY <4>1
        <4>3. hi - r[next[n]] < k
          BY <4>1, <4>2, <2>2
        <4>4. g[next[n]] = g2[next[n]]
          BY <4>1, <4>3, <2>1
        <4> QED BY <3>2, <4>4 DEF Body
      <3> QED BY <3>1, <3>2
    <2> HIDE DEF g2
    <2>3. \E h : \A n \in Nodes : hi - r[n] < k + 1 => h[n] = Body(h, n)
      BY <2>2
    <2> QED BY <2>3
  <1>3. \A k \in Nat : k \in A
    <2> HIDE DEF A
    <2> QED BY <1>1, <1>2, Induction
  <1>4. PICK g : \A n \in Nodes : hi - r[n] < hi + 1 => g[n] = Body(g, n)
    <2>1. hi + 1 \in A
      BY <1>3
    <2> QED BY <2>1
  <1>5. \A n \in Nodes : hi - r[n] < hi + 1
    OBVIOUS
  <1> DEFINE h == [n \in Nodes |-> g[n]]
  <1>6. h = [n \in Nodes |-> Body(h, n)]
    <2>1. ASSUME NEW n \in Nodes PROVE h[n] = Body(h, n)
      <3>1. g[n] = Body(g, n)
        BY <1>4, <1>5
      <3>2. next[n] # Null => next[n] \in Nodes
        BY DEF Pointers
      <3> QED BY <3>1, <3>2 DEF Body
    <2> QED BY <2>1
  <1> HIDE DEF h
  <1>7. After = CHOOSE a : a = [n \in Nodes |-> Body(a, n)]
    BY DEF After, Body
  <1>8. After = [n \in Nodes |-> Body(After, n)]
    BY <1>6, <1>7
  <1> QED BY <1>8

\* A sequence with one element before it.
LEMMA Prepend ==
    ASSUME NEW S, NEW e \in S, NEW k \in Nat, NEW q \in [1..k -> S], NEW s \in [1..(k + 1) -> S],
           s[1] = e, \A j \in 1..k : s[j + 1] = q[j]
    PROVE  <<e>> \o q = s
  <1>1. q \in Seq(S) /\ Len(q) = k
    OBVIOUS
  <1>2. s \in Seq(S) /\ Len(s) = k + 1
    OBVIOUS
  <1>3. <<e>> \o q \in Seq(S) /\ Len(<<e>> \o q) = k + 1
    BY <1>1
  <1>4. ASSUME NEW j \in 1..(k + 1) PROVE (<<e>> \o q)[j] = s[j]
    <2>1. CASE j = 1
      BY <2>1, <1>1
    <2>2. CASE j # 1
      <3>1. j - 1 \in 1..k /\ (j - 1) + 1 = j
        BY <2>2
      <3>2. s[j] = q[j - 1]
        BY <3>1
      <3>3. (<<e>> \o q)[j] = q[j - 1]
        BY <2>2, <1>1, <3>1
      <3> QED BY <3>2, <3>3
    <2> QED BY <2>1, <2>2
  <1> QED BY <1>2, <1>3, <1>4

\* What is behind the node that is k from the end.
LEMMA Behind ==
    ASSUME NEW f, NEW v, NEW r, NEW lo, NEW hi, NEW t, QInv(f, v, r, lo, hi, t)
    PROVE  \A k \in Nat : k <= hi - Oldest(lo) => After[f[hi - k]] = [j \in 1..k |-> f[hi - k + j]]
  <1>a. Types /\ Ordered(f, r, lo, hi, t)
    BY Parts
  <1>i. /\ lo \in Nat /\ hi \in Nat /\ lo <= hi /\ Oldest(lo) \in Nat /\ Oldest(lo) <= lo
    BY Numbers
  <1>j. /\ f \in [Nat -> Nodes] /\ r \in [Nodes -> Nat] /\ Null \notin Nodes
    BY Bounds
  <1>1. \A n \in Nodes : After[n] = Body(After, n)
    <2>1. next \in [Nodes -> Pointers]
      BY <1>a DEF Types
    <2>2. \A n \in Nodes : r[n] <= hi /\ (next[n] # Null => r[n] < r[next[n]])
      BY <1>a DEF Ordered
    <2> QED BY <2>1, <2>2, <1>i, <1>j, AfterIs
  <1> DEFINE Rest(k) == [j \in 1..k |-> f[hi - k + j]]
             A == {k \in Nat : k <= hi - Oldest(lo) => After[f[hi - k]] = Rest(k)}
  <1>2. 0 \in A
    <2>1. After[f[hi]] = <<>>
      BY <1>1, <1>a, <1>i, <1>j DEF Body, Ordered
    <2>2. Rest(0) = <<>>
      OBVIOUS
    <2>3. hi - 0 = hi
      BY <1>i
    <2> QED BY <2>1, <2>2, <2>3
  <1>3. ASSUME NEW k \in Nat, k \in A PROVE k + 1 \in A
    <2> SUFFICES ASSUME k + 1 <= hi - Oldest(lo) PROVE After[f[hi - (k + 1)]] = Rest(k + 1)
      OBVIOUS
    <2> DEFINE i == hi - (k + 1)
    <2>1. i \in Oldest(lo)..hi /\ i \in Nat /\ i < hi /\ i + 1 = hi - k /\ i + 1 \in Nat
          /\ k <= hi - Oldest(lo)
      BY <1>i
    <2>2. After[f[i + 1]] = Rest(k)
      BY <1>3, <2>1
    <2>3. next[f[i]] = f[i + 1] /\ f[i] \in Nodes /\ f[i + 1] \in Nodes
      BY <2>1, <1>a, <1>j DEF Ordered
    <2>4. After[f[i]] = <<f[i + 1]>> \o Rest(k)
      <3>1. After[f[i]] = Body(After, f[i]) /\ next[f[i]] # Null
        BY <2>3, <1>1, <1>j
      <3>2. After[next[f[i]]] = Rest(k)
        BY <2>2, <2>3
      <3> HIDE DEF Rest, i
      <3> QED BY <2>3, <3>1, <3>2 DEF Body
    <2>5. /\ Rest(k) \in [1..k -> Nodes] /\ Rest(k + 1) \in [1..(k + 1) -> Nodes]
          /\ Rest(k + 1)[1] = f[i + 1]
          /\ \A j \in 1..k : Rest(k + 1)[j + 1] = Rest(k)[j]
      <3>1. ASSUME NEW j \in 1..k PROVE hi - k + j \in Nat /\ hi - (k + 1) + (j + 1) = hi - k + j
                                        /\ j + 1 \in 1..(k + 1)
        BY <2>1, <1>i
      <3>2. ASSUME NEW j \in 1..(k + 1) PROVE hi - (k + 1) + j \in Nat
        BY <2>1, <1>i
      <3>3. 1 \in 1..(k + 1)
        OBVIOUS
      <3> QED BY <3>1, <3>2, <3>3, <1>j
    <2> HIDE DEF Rest
    <2>6. <<f[i + 1]>> \o Rest(k) = Rest(k + 1)
      BY <2>3, <2>5, Prepend
    <2> QED BY <2>4, <2>6
  <1>4. \A k \in Nat : k \in A
    <2> HIDE DEF A
    <2> QED BY <1>2, <1>3, Induction
  <1> QED BY <1>4

\* The nodes left are those from lo to hi; the contents are the items from lo + 1 to hi.
LEMMA Left ==
    ASSUME NEW f, NEW v, NEW r, NEW lo, NEW hi, NEW t, QInv(f, v, r, lo, hi, t)
    PROVE  /\ Remaining = {f[i] : i \in lo..hi}
           /\ Contents = [i \in 1..(hi - lo) |-> v[lo + i]]
  <1>a. Types /\ Ordered(f, r, lo, hi, t) /\ Carried(f, v, lo, hi)
    BY Parts
  <1>i. /\ lo \in Nat /\ hi \in Nat /\ lo <= hi /\ Oldest(lo) \in Nat /\ Oldest(lo) <= lo
        /\ hi - lo \in Nat /\ hi - lo <= hi - Oldest(lo) /\ hi - (hi - lo) = lo
    BY Numbers
  <1>1. After[head] = [j \in 1..(hi - lo) |-> f[lo + j]]
    <2>1. After[f[hi - (hi - lo)]] = [j \in 1..(hi - lo) |-> f[hi - (hi - lo) + j]]
      BY <1>i, Behind
    <2>2. head = f[lo]
      BY <1>a DEF Ordered
    <2> QED BY <2>1, <2>2, <1>i
  <1>2. Remaining = {f[i] : i \in lo..hi}
    <2> DEFINE L == {f[i] : i \in lo..hi}
    <2>1. L \in SUBSET Nodes /\ head \in L /\ \A m \in L : next[m] = Null \/ next[m] \in L
      <3>1. \A i \in lo..hi : i \in Oldest(lo)..hi /\ i \in Nat /\ (i = hi \/ i + 1 \in lo..hi)
        BY <1>i
      <3>2. \A i \in lo..hi : next[f[i]] = Null \/ (i + 1 \in lo..hi /\ next[f[i]] = f[i + 1])
        BY <3>1, <1>i, <1>a DEF Ordered
      <3>3. lo \in lo..hi /\ head = f[lo]
        BY <1>i, <1>a DEF Ordered
      <3>4. f \in [Nat -> Nodes]
        BY Bounds
      <3> QED BY <3>1, <3>2, <3>3, <3>4
    <2>2. ASSUME NEW S \in SUBSET Nodes, head \in S,
                 \A m \in S : next[m] = Null \/ next[m] \in S
          PROVE  L \subseteq S
      <3> DEFINE A == {k \in Nat : lo + k <= hi => f[lo + k] \in S}
      <3>1. 0 \in A
        BY <2>2, <1>i, <1>a DEF Ordered
      <3>2. ASSUME NEW k \in Nat, k \in A PROVE k + 1 \in A
        <4> SUFFICES ASSUME lo + (k + 1) <= hi PROVE f[lo + (k + 1)] \in S
          OBVIOUS
        <4>1. lo + k \in Oldest(lo)..hi /\ lo + k < hi /\ lo + (k + 1) = (lo + k) + 1
              /\ lo + k \in lo..hi /\ (lo + k) + 1 \in Nat
          BY <1>i
        <4>2. f[lo + k] \in S
          BY <3>2, <4>1
        <4>3. next[f[lo + k]] = f[(lo + k) + 1]
          BY <4>1, <1>a DEF Ordered
        <4>4. f[(lo + k) + 1] # Null
          BY <4>1, Bounds
        <4> QED BY <4>1, <4>2, <4>3, <4>4, <2>2
      <3>3. \A k \in Nat : k \in A
        <4> HIDE DEF A
        <4> QED BY <3>1, <3>2, Induction
      <3>4. \A i \in lo..hi : i - lo \in Nat /\ lo + (i - lo) = i /\ i <= hi
        BY <1>i
      <3> QED BY <3>3, <3>4
    <2> HIDE DEF L
    <2>3. Remaining = L
      BY <2>1, <2>2 DEF Remaining
    <2> QED BY <2>3 DEF L
  <1>3. Contents = [i \in 1..(hi - lo) |-> v[lo + i]]
    <2>1. Contents = [i \in 1..(hi - lo) |-> data[f[lo + i]]]
      BY <1>1 DEF Contents
    <2>2. ASSUME NEW i \in 1..(hi - lo) PROVE data[f[lo + i]] = v[lo + i]
      <3>1. lo + i \in Oldest(lo)..hi /\ lo + i # 0
        BY <1>i
      <3> QED BY <3>1, <1>a DEF Carried
    <2> QED BY <2>1, <2>2
  <1> QED BY <1>2, <1>3

\* The destructor deletes every node left, and every object but those of the items that left.
LEMMA DestroyStep ==
    ASSUME NEW f, NEW v, NEW r, NEW lo, NEW hi, NEW t, QInv(f, v, r, lo, hi, t), Destroy, Intact'
    PROVE  QInv(f, v, r, lo, hi, t)'
  <1>a. /\ Types /\ Uncalled /\ Intact /\ Closed /\ Ghosts(f, v, r, lo, hi, t)
        /\ Ordered(f, r, lo, hi, t) /\ Carried(f, v, lo, hi) /\ Held(f, lo, hi)
        /\ Unlinked(f, v, lo, hi) /\ Following(f, r, hi, t) /\ Alone(f, hi, t)
        /\ Consuming(f, v, r, lo, hi, t) /\ Enqueued(v, hi) /\ Counted(v, lo)
        /\ prod \in [Producers -> ProdRecord] /\ cons \in ConsRecord
    BY Parts
  <1>z. /\ ~destroyed /\ destroyed' = TRUE /\ cons.pc = "idle"
        /\ \A p \in Producers : prod[p].pc = "idle"
        /\ allocated' = allocated \ Remaining
        /\ deleted' = [x \in Values |->
              IF \E n \in Remaining : data[n] = x THEN deleted[x] + 1 ELSE deleted[x]]
        /\ UNCHANGED <<head, tail, next, data, used, callers, weak, recycled, prod, cons>>
        /\ misused' \in BOOLEAN
    BY <1>a DEF Destroy, aside, Types
  <1>i. /\ lo \in Nat /\ hi \in Nat /\ lo <= hi /\ Oldest(lo) \in Nat /\ Oldest(lo) <= lo
        /\ Oldest(lo) = lo
    BY Numbers, <1>z DEF Oldest
  <1>p. \A p \in Producers : ~Pending(p)
    BY <1>z DEF Pending
  <1>r. Remaining = {f[i] : i \in lo..hi}
    BY Left
  <1>x. \A i \in lo..hi : i \in Oldest(lo)..hi /\ (i # 0 => i \in 1..hi)
    BY <1>i
  <1>d. \A i \in lo..hi : data[f[i]] = IF i = 0 THEN Null ELSE v[i]
    BY <1>x, <1>a DEF Carried
  <1>n. Null \notin Values
    BY Bounds
  <1>c. /\ \A x \in Values : deleted[x] = IF \E i \in 1..lo : v[i] = x THEN 1 ELSE 0
        /\ deleted \in [Values -> Nat]
    BY <1>a, <1>z, <1>i DEF Counted, Types
  <1>e. \A x \in Values :
           (\E n \in Remaining : data[n] = x) <=> (\E i \in lo..hi : i # 0 /\ v[i] = x)
    BY <1>r, <1>d, <1>n
  <1>2. NothingLeaks'
    <2>1. allocated' = {}
      <3>1. ASSUME NEW n \in allocated PROVE n \in Remaining
        <4>1. n \in Nodes
          BY <1>a DEF Types
        <4>2. \E i \in lo..hi : n = f[i]
          BY <4>1, <1>a, <1>z, <1>p, <1>i DEF Held
        <4> QED BY <4>2, <1>r
      <3> QED BY <3>1, <1>z
    <2>2. ASSUME NEW p \in Producers, NEW i \in 1..MaxItems, i <= prod[p].count
          PROVE  deleted'[<<p, i>>] >= 1
      <3>0. <<p, i>> \in Values
        BY DEF Values
      <3>1. Enqueued(v, hi)
        BY <1>a
      <3>2. \E j \in 1..hi : v[j] = <<p, i>>
        BY <3>1, <2>2, <1>p, Zenon DEF Enqueued
      <3>3. PICK j \in 1..hi : v[j] = <<p, i>>
        BY <3>2
      <3>4. j \in 1..lo \/ (j \in lo..hi /\ j # 0)
        BY <1>i
      <3> DEFINE x == <<p, i>>
      <3>5. x \in Values /\ v[j] = x
        BY <3>0, <3>3
      <3> HIDE DEF x
      <3>6. deleted'[x] = (IF \E n \in Remaining : data[n] = x THEN deleted[x] + 1 ELSE deleted[x])
            /\ deleted[x] \in Nat
        BY <3>5, <1>z, <1>c
      <3>7. deleted'[x] >= 1
        <4>1. CASE j \in 1..lo
          <5>1. deleted[x] = 1
            BY <4>1, <3>5, <1>c
          <5> QED BY <5>1, <3>6
        <4>2. CASE j \in lo..hi /\ j # 0
          <5>1. \E n \in Remaining : data[n] = x
            BY <4>2, <3>5, <1>e
          <5> QED BY <5>1, <3>6
        <4> QED BY <4>1, <4>2, <3>4
      <3> QED BY <3>7 DEF x
    <2>3. prod' = prod
      BY <1>z
    <2> QED BY <2>1, <2>2, <2>3 DEF NothingLeaks
  <1>b. /\ Oldest(lo)' = Oldest(lo)
        /\ SoleProducer' = SoleProducer
        /\ \A q \in Producers : Pending(q)' <=> Pending(q)
    BY <1>z DEF Oldest, SoleProducer, Pending
  <1>3. Types'
    <2>1. deleted' \in [Values -> Nat]
      BY <1>z, <1>c
    <2>2. allocated' \subseteq used'
      BY <1>z, <1>a DEF Types
    <2> HIDE DEF Remaining
    <2> QED BY <2>1, <2>2, <1>a, <1>z DEF Types
  <1>4. Uncalled' /\ Closed'
    BY <1>a, <1>z, <1>2 DEF Uncalled, Closed
  <1>6. Ghosts(f, v, r, lo, hi, t)'
    BY <1>a DEF Ghosts
  <1>7. Ordered(f, r, lo, hi, t)' /\ Carried(f, v, lo, hi)'
    BY <1>a, <1>b, <1>z DEF Ordered, Carried
  <1>8. Held(f, lo, hi)' /\ Counted(v, lo)'
    BY <1>z DEF Held, Counted
  <1>9. Unlinked(f, v, lo, hi)'
    BY <1>b, <1>p DEF Unlinked, UnlinkedOne
  <1>10. Following(f, r, hi, t)' /\ Alone(f, hi, t)'
    <2>1. Following(f, r, hi, t)'
      BY <1>a, <1>b, <1>z DEF Following, FollowingOne, Holding
    <2>2. Alone(f, hi, t)'
      BY <1>a, <1>b, <1>z DEF Alone, AloneOne
    <2> QED BY <2>1, <2>2
  <1>11. Consuming(f, v, r, lo, hi, t)'
    BY <1>a, <1>z DEF Consuming
  <1>12. Enqueued(v, hi)'
    BY <1>a, <1>z, EnqueuedKept
  <1> QED
    BY <1>3, <1>4, <1>6, <1>7, <1>8, <1>9, <1>10, <1>11, <1>12 DEF QInv, Numbered

-----------------------------------------------------------------------------
(* The invariant, and what follows from it.                                *)

\* A new queue satisfies it: the dummy is node 0, and no other node is linked.
LEMMA QueueInit == Init => \E f, v, r, lo, hi, t : QInv(f, v, r, lo, hi, t)
  <1> SUFFICES ASSUME Init PROVE \E f, v, r, lo, hi, t : QInv(f, v, r, lo, hi, t)
    OBVIOUS
  <1>1. PICK dummy \in Nodes :
          /\ head = dummy /\ tail = dummy
          /\ next = [n \in Nodes |-> Null]
          /\ data = [n \in Nodes |-> Null]
          /\ allocated = {dummy} /\ used = {dummy}
          /\ callers \in (SUBSET Producers) \ {{}}
          /\ weak \in {FALSE, Spurious}
          /\ prod = [p \in Producers |-> [pc |-> "idle", node |-> Null, last |-> Null,
                                          next |-> Null, count |-> 0]]
          /\ cons = [pc |-> "idle", first |-> Null, last |-> Null, next |-> Null, data |-> Null]
          /\ recycled = FALSE
          /\ deleted = [x \in Values |-> 0]
          /\ misused = FALSE
          /\ destroyed = FALSE
    BY DEF Init
  <1>2. PICK p0 \in Producers : p0 \in callers
    <2>1. callers \subseteq Producers /\ callers # {}
      BY <1>1
    <2> QED BY <2>1
  <1>3. \E f, v, r : f = [i \in Nat |-> dummy] /\ v = [i \in Nat |-> <<p0, 1>>]
                     /\ r = [n \in Nodes |-> 0]
    OBVIOUS
  <1>4. PICK f, v, r : f = [i \in Nat |-> dummy] /\ v = [i \in Nat |-> <<p0, 1>>]
                       /\ r = [n \in Nodes |-> 0]
    BY <1>3
  <1>m. MaxItems \in Nat \ {0} /\ Spurious \in BOOLEAN /\ Reuse \in BOOLEAN /\ Null \notin Nodes
    BY QueueAssumption
  <1>5. <<p0, 1>> \in Values
    BY <1>m DEF Values
  <1>6. /\ f \in [Nat -> Nodes] /\ v \in [Nat -> Values] /\ r \in [Nodes -> Nat]
        /\ f[0] = dummy /\ \A i \in 0..0 : f[i] = dummy /\ i = 0
        /\ \A n \in Nodes : r[n] = 0 /\ next[n] = Null /\ data[n] = Null
    BY <1>1, <1>4, <1>5
  <1>7. /\ cons.pc = "idle" /\ \A p \in Producers : prod[p].pc = "idle" /\ prod[p].count = 0
        /\ \A p \in Producers : ~Pending(p)
        /\ Oldest(0) = 0
    BY <1>1 DEF Oldest, Pending
  <1>8. Types
    <2>1. prod \in [Producers -> ProdRecord] /\ cons \in ConsRecord
      BY <1>1, <1>m DEF ProdRecord, ConsRecord, ProducerPcs, ConsumerPcs, Pointers
    <2>2. next \in [Nodes -> Pointers]
      BY <1>1 DEF Pointers
    <2> QED BY <2>1, <2>2, <1>1, <1>m DEF Types
  <1>9. Uncalled /\ Intact /\ Closed
    BY <1>1, <1>7 DEF Uncalled, Intact, Closed
  <1>10. Ghosts(f, v, r, 0, 0, 0)
    BY <1>6 DEF Ghosts
  <1>11. Ordered(f, r, 0, 0, 0)
    <2>1. \A i \in 0..0 : r[f[i]] = i /\ ~(i < 0)
      BY <1>6
    <2> QED BY <2>1, <1>1, <1>6, <1>7 DEF Ordered
  <1>12. Carried(f, v, 0, 0)
    <2>1. \A i \in 1..0 : FALSE
      OBVIOUS
    <2> QED BY <2>1, <1>1, <1>6, <1>7 DEF Carried
  <1>13. Held(f, 0, 0)
    <2>1. 0 \in 0..0
      OBVIOUS
    <2> QED BY <2>1, <1>1, <1>6, <1>7 DEF Held
  <1>14. Unlinked(f, v, 0, 0)
    BY <1>7 DEF Unlinked, UnlinkedOne
  <1>15. Following(f, r, 0, 0) /\ Alone(f, 0, 0)
    BY <1>7, <1>1 DEF Following, FollowingOne, Holding, Alone, AloneOne
  <1>16. Consuming(f, v, r, 0, 0, 0)
    BY <1>7 DEF Consuming
  <1>17. Enqueued(v, 0)
    <2>1. \A i \in 1..0 : FALSE
      OBVIOUS
    <2>2. \A i \in 1..MaxItems : ~(i <= 0)
      BY <1>m
    <2> QED BY <2>1, <2>2, <1>7 DEF Enqueued
  <1>18. Counted(v, 0)
    <2>1. \A i \in 1..0 : FALSE
      OBVIOUS
    <2> QED BY <2>1, <1>1, <1>7 DEF Counted
  <1>19. QInv(f, v, r, 0, 0, 0)
    BY <1>8, <1>9, <1>10, <1>11, <1>12, <1>13, <1>14, <1>15, <1>16, <1>17, <1>18
    DEF QInv, Numbered
  <1> QED BY <1>19

\* A step adds an item at the end, takes the first one, or leaves the items alone.
Grown(v, lo, hi, w, l, h) ==
    \/ w = v /\ l = lo /\ h = hi
    \/ l = lo /\ h = hi + 1 /\ w[h] \in Values /\ \A i \in 1..hi : w[i] = v[i]
    \/ w = v /\ h = hi /\ l = lo + 1 /\ lo < hi

\* Every step keeps the invariant, and that is all it does to the items.
LEMMA QueueNext ==
    ASSUME NEW f, NEW v, NEW r, NEW lo, NEW hi, NEW t, QInv(f, v, r, lo, hi, t), [Next]_vars,
           Intact'
    PROVE  \E g, w, s, l, h, u : QInv(g, w, s, l, h, u)' /\ Grown(v, lo, hi, w, l, h)
  <1>1. Grown(v, lo, hi, v, lo, hi)
    BY DEF Grown
  <1>2. SUFFICES ASSUME ~ \E u : QInv(f, v, r, lo, hi, u)'
                 PROVE  \E g, w, s, l, h, u : QInv(g, w, s, l, h, u)' /\ Grown(v, lo, hi, w, l, h)
    BY <1>1
  <1>3. CASE UNCHANGED vars
    <2>1. QInv(f, v, r, lo, hi, t)'
      <3>1. UNCHANGED <<head, tail, next, data, allocated, used, callers, weak, recycled, prod,
                        cons, deleted, misused, destroyed>>
        BY <1>3 DEF vars, memory, aside
      <3>2. /\ Oldest(lo)' = Oldest(lo)
            /\ SoleProducer' = SoleProducer
            /\ \A q \in Producers : Pending(q)' <=> Pending(q)
        BY <3>1 DEF Oldest, SoleProducer, Pending
      <3>3. /\ Types /\ Uncalled /\ Intact /\ Closed /\ Ghosts(f, v, r, lo, hi, t)
            /\ Ordered(f, r, lo, hi, t) /\ Carried(f, v, lo, hi) /\ Held(f, lo, hi)
            /\ Unlinked(f, v, lo, hi) /\ Following(f, r, hi, t) /\ Alone(f, hi, t)
            /\ Consuming(f, v, r, lo, hi, t) /\ Enqueued(v, hi) /\ Counted(v, lo)
        BY Parts
      <3>4. Types' /\ Uncalled'
        BY <3>1, <3>2, <3>3 DEF Types, Uncalled
      <3>5. Closed'
        BY <3>1, <3>3 DEF Closed, NothingLeaks, Intact
      <3>6. Ghosts(f, v, r, lo, hi, t)' /\ Ordered(f, r, lo, hi, t)' /\ Carried(f, v, lo, hi)'
        BY <3>1, <3>2, <3>3 DEF Ghosts, Ordered, Carried
      <3>7. Held(f, lo, hi)' /\ Counted(v, lo)'
        BY <3>1, <3>2, <3>3 DEF Held, Counted
      <3>8. Unlinked(f, v, lo, hi)'
        BY <3>1, <3>2, <3>3 DEF Unlinked, UnlinkedOne
      <3>9. Following(f, r, hi, t)' /\ Alone(f, hi, t)' /\ Consuming(f, v, r, lo, hi, t)'
        <4>1. Following(f, r, hi, t)'
          BY <3>1, <3>2, <3>3 DEF Following, FollowingOne, Holding
        <4>2. Alone(f, hi, t)'
          BY <3>1, <3>2, <3>3 DEF Alone, AloneOne
        <4> QED BY <4>1, <4>2, <3>1, <3>3 DEF Consuming
      <3>10. Enqueued(v, hi)'
        BY <3>1, <3>3, EnqueuedKept
      <3> QED BY <3>4, <3>5, <3>6, <3>7, <3>8, <3>9, <3>10 DEF QInv, Numbered
    <2> QED BY <2>1, <1>2
  <1>4. CASE \E p \in Producers : enqueue(p)
    <2>1. PICK p \in Producers : enqueue(p)
      BY <1>4
    <2>2. CASE Link(p) /\ prod'[p].pc = "swing"
      <3>1. \E h, g, w, s : /\ h = hi + 1
                            /\ g = [f EXCEPT ![h] = prod[p].node]
                            /\ w = [v EXCEPT ![h] = <<p, prod[p].count>>]
                            /\ s = [r EXCEPT ![prod[p].node] = h]
        OBVIOUS
      <3>2. PICK h, g, w, s : /\ h = hi + 1
                              /\ g = [f EXCEPT ![h] = prod[p].node]
                              /\ w = [v EXCEPT ![h] = <<p, prod[p].count>>]
                              /\ s = [r EXCEPT ![prod[p].node] = h]
        BY <3>1
      <3>3. QInv(g, w, s, lo, h, t)'
        BY <2>2, <3>2, LinkStep
      <3>4. Grown(v, lo, hi, w, lo, h)
        <4>1. v \in [Nat -> Values] /\ hi \in Nat
          BY Bounds
        <4>2. <<p, prod[p].count>> \in Values
          <5>1. UnlinkedOne(p, f, v, lo, hi) /\ prod[p] \in ProdRecord
            BY Parts DEF Unlinked
          <5>2. Pending(p)
            BY <2>2 DEF Link, Pending
          <5> QED BY <5>1, <5>2, QueueAssumption DEF UnlinkedOne, ProdRecord, Values
        <4>3. h \in Nat /\ \A i \in 1..hi : i \in Nat /\ i # h
          BY <4>1, <3>2
        <4> DEFINE x == <<p, prod[p].count>>
        <4>4. w = [v EXCEPT ![h] = x] /\ x \in Values
          BY <3>2, <4>2
        <4> HIDE DEF x
        <4>5. w[h] \in Values /\ \A i \in 1..hi : w[i] = v[i]
          BY <4>1, <4>3, <4>4
        <4> QED BY <4>5, <3>2 DEF Grown
      <3> QED BY <3>3, <3>4
    <2>3. CASE ~(Link(p) /\ prod'[p].pc = "swing")
      <3>1. \E u : QInv(f, v, r, lo, hi, u)'
        BY <2>1, <2>3, EnqueueStartStep, LoadTailStep, LoadNextStep, CheckTailStep,
           LinkFailsStep, MoveTailStep DEF enqueue
      <3> QED BY <3>1, <1>2
    <2> QED BY <2>2, <2>3
  <1>5. CASE dequeue
    <2>1. CASE MoveHead /\ cons'.pc = "delete"
      <3>1. \E l : l = lo + 1
        OBVIOUS
      <3>2. PICK l : l = lo + 1
        BY <3>1
      <3>3. QInv(f, v, r, l, hi, t)' /\ lo < hi
        BY <2>1, <3>2, MoveHeadStep
      <3>4. Grown(v, lo, hi, v, l, hi)
        BY <3>2, <3>3 DEF Grown
      <3> QED BY <3>3, <3>4
    <2>2. CASE ~(MoveHead /\ cons'.pc = "delete")
      <3>1. Looks \/ Delete
        <4>1. MoveHead => cons'.pc = "delete" \/ cons'.pc = "idle"
          <5>1. cons \in ConsRecord
            BY Parts
          <5> QED BY <5>1 DEF MoveHead, ConsRecord
        <4> QED BY <1>5, <2>2, <4>1 DEF dequeue, Looks
      <3>2. \E u : QInv(f, v, r, lo, hi, u)'
        BY <3>1, LooksStep, DeleteStep
      <3> QED BY <3>2, <1>2
    <2> QED BY <2>1, <2>2
  <1>6. CASE Destroy
    <2>1. QInv(f, v, r, lo, hi, t)'
      BY <1>6, DestroyStep
    <2> QED BY <2>1, <1>2
  <1> QED BY <1>3, <1>4, <1>5, <1>6 DEF Next

-----------------------------------------------------------------------------
(* When the queue stays intact.                                            *)

\* The consumer and the destructor access no deleted node.
LEMMA ConsumerIntact ==
    ASSUME NEW f, NEW v, NEW r, NEW lo, NEW hi, NEW t, QInv(f, v, r, lo, hi, t),
           dequeue \/ Destroy
    PROVE  Intact'
  <1>0. /\ ~misused /\ ~recycled /\ cons \in ConsRecord /\ Ordered(f, r, lo, hi, t)
        /\ f \in [Nat -> Nodes] /\ lo \in Nat /\ hi \in Nat /\ lo <= hi /\ Oldest(lo) <= lo
        /\ Oldest(lo) \in Nat
    BY Parts, Bounds DEF Intact
  <1>f. ~destroyed
    <2>1. Closed
      BY Parts
    <2> QED BY <2>1 DEF Closed, dequeue, Destroy, DequeueStart, DequeueLoadTail, DequeueLoadNext,
               CheckHead, HelpTail, LoadData, MoveHead, Delete
  <1>1. /\ \A i \in Oldest(lo)..hi : f[i] \in allocated
        /\ Consuming(f, v, r, lo, hi, t) /\ t <= hi /\ t \in Nat
    BY <1>f, Front
  <1>2. CASE DequeueLoadNext
    <2>1. cons.first = f[lo] /\ lo \in Oldest(lo)..hi
      BY <1>0, <1>1, <1>2 DEF DequeueLoadNext, Consuming
    <2> QED BY <2>1, <1>0, <1>1, <1>2 DEF DequeueLoadNext, Access, Intact, aside
  <1>3. CASE LoadData
    <2>1. cons.next = f[lo + 1] /\ lo + 1 \in Oldest(lo)..hi
      BY <1>0, <1>1, <1>3 DEF LoadData, Consuming
    <2> QED BY <2>1, <1>0, <1>1, <1>3 DEF LoadData, Access, Intact, aside
  <1>4. CASE Destroy
    <2>1. Remaining = {f[i] : i \in lo..hi}
      BY Left
    <2>2. Remaining \subseteq allocated
      <3>1. \A i \in lo..hi : i \in Oldest(lo)..hi
        BY <1>0
      <3> QED BY <2>1, <3>1, <1>1
    <2>3. f[hi] \in Remaining /\ next[f[hi]] = Null
      <3>1. hi \in lo..hi
        BY <1>0
      <3> QED BY <2>1, <3>1, <1>0 DEF Ordered
    <2>4. misused' = (misused \/ ~(Remaining \subseteq allocated)
                              \/ \A n \in Remaining : next[n] # Null)
      BY <1>4 DEF Destroy
    <2>5. recycled' = recycled
      BY <1>4 DEF Destroy, aside
    <2> QED BY <2>2, <2>3, <2>4, <2>5, <1>0 DEF Intact
  <1>5. CASE dequeue /\ ~DequeueLoadNext /\ ~LoadData
    <2>1. CASE DequeueStart \/ DequeueLoadTail \/ CheckHead
      BY <2>1, <1>0 DEF DequeueStart, DequeueLoadTail, CheckHead, Intact, memory, aside
    <2>2. CASE HelpTail
      BY <2>2, <1>0 DEF HelpTail, Intact, memory, aside
    <2>3. CASE MoveHead
      BY <2>3, <1>0 DEF MoveHead, Intact, memory, aside
    <2>4. CASE Delete
      BY <2>4, <1>0 DEF Delete, Intact, aside
    <2> QED BY <1>5, <2>1, <2>2, <2>3, <2>4 DEF dequeue
  <1> QED BY <1>2, <1>3, <1>4, <1>5

\* A sole producer finds the tail where it was: it accesses no deleted node, and is not in the
\* middle of an enqueue when it makes a node.
LEMMA SoleIntact ==
    ASSUME NEW f, NEW v, NEW r, NEW lo, NEW hi, NEW t, QInv(f, v, r, lo, hi, t),
           SoleProducer, NEW p \in Producers, enqueue(p)
    PROVE  Intact'
  <1>0. ~misused /\ ~recycled /\ Uncalled /\ Closed /\ Alone(f, hi, t)
    BY Parts DEF Intact
  <1>1. CASE LoadNext(p) \/ Link(p)
    <2>1. p \in callers /\ ~destroyed /\ prod[p].pc \in {"next", "link"}
      BY <1>0, <1>1 DEF Uncalled, Closed, LoadNext, Link
    <2>2. prod[p].last \in allocated
      BY <2>1, <1>0, EndsAllocated DEF Alone, AloneOne
    <2>3. (misused' <=> (misused \/ prod[p].last \notin allocated)) /\ recycled' = recycled
      BY <1>0, <1>1 DEF LoadNext, Link, Access, aside
    <2> QED BY <2>2, <2>3, <1>0 DEF Intact
  <1>2. CASE EnqueueStart(p)
    <2>1. \A q \in Producers : prod[q].pc = "idle"
      <3>1. p \in callers /\ prod[p].pc = "idle"
        BY <1>2 DEF EnqueueStart
      <3> QED BY <3>1, <1>0 DEF SoleProducer, Uncalled
    <2>2. \A n : ~ \E q \in Producers : Holds(q, n)
      BY <2>1 DEF Holds
    <2>3. PICK n \in Fresh : recycled' = (recycled \/ \E q \in Producers : Holds(q, n))
      BY <1>2 DEF EnqueueStart
    <2>4. misused' = misused
      BY <1>2 DEF EnqueueStart
    <2> QED BY <2>2, <2>3, <2>4, <1>0 DEF Intact
  <1>3. CASE LoadTail(p) \/ CheckTail(p) \/ Swing(p) \/ Help(p)
    BY <1>0, <1>3 DEF LoadTail, CheckTail, Swing, Help, MoveTail, Intact, memory, aside
  <1> QED BY <1>1, <1>2, <1>3 DEF enqueue

-----------------------------------------------------------------------------
(* What is true whatever addresses are used again: each node that is not   *)
(* deleted has one owner, a producer or the list, no pointer leads to a    *)
(* deleted one, and each object is deleted once.                           *)

\* the node whose item has left, as long as it is not deleted
Foremost == IF cons.pc = "delete" THEN cons.first ELSE head

Typed ==
    /\ Types /\ Uncalled
    /\ \A p \in Producers : /\ Holding(p) => prod[p].last \in Nodes
                            /\ prod[p].pc = "help" => prod[p].next \in Nodes
                            /\ prod[p].pc = "swing" => prod[p].node \in Nodes

\* No pointer of a node leads to one that is not linked; its item is its producer's last.
OwnNode(p) ==
    Pending(p) =>
        /\ prod[p].node \in allocated /\ prod[p].count >= 1
        /\ data[prod[p].node] = <<p, prod[p].count>>
        /\ prod[p].node # head /\ prod[p].node # Foremost
        /\ \A m \in allocated : next[m] # prod[p].node
        /\ \A q \in Producers : Pending(q) /\ prod[q].node = prod[p].node => p = q

\* No pointer leads to a deleted node or back to the front, and no two to the same node.
Chained ==
    /\ head \in allocated /\ Foremost \in allocated
    /\ \A m \in allocated :
          next[m] # Null => next[m] \in allocated /\ next[m] # Foremost
    /\ \A m \in allocated : next[m] = head => m = Foremost
    /\ \A m, k \in allocated : next[m] # Null /\ next[m] = next[k] => k = m

\* An item is on one node, and once it is deleted on none but the front.
Once ==
    /\ \A m, k \in allocated : data[m] # Null /\ data[m] = data[k] => m = k
    /\ \A p \in Producers, i \in 1..MaxItems :
          /\ \A m \in allocated : data[m] = <<p, i>> => i <= prod[p].count
          /\ deleted[<<p, i>>] # 0 => i <= prod[p].count
    /\ \A x \in Values :
          /\ deleted[x] \in {0, 1}
          /\ deleted[x] = 1 => \A m \in allocated : data[m] = x => m = Foremost

\* What the consumer has read is still so.
Reading ==
    /\ cons.pc \in {"tail", "next", "check", "help", "data", "head"} => cons.first = head
    /\ (cons.pc = "check" /\ cons.next # Null) \/ cons.pc \in {"help", "data", "head"} =>
          cons.next = next[head] /\ cons.next # Null
    /\ cons.pc = "head" => cons.data = data[cons.next] /\ cons.data \in Values
    /\ cons.pc = "delete" => /\ cons.first # head /\ next[cons.first] = head
                             /\ cons.data = data[head] /\ cons.data \in Values

Ownership == (\A p \in Producers : OwnNode(p)) /\ Chained /\ Once /\ Reading

Owned ==
    /\ Typed
    /\ destroyed => /\ OnlyLastDeletedTwice
                    /\ cons.pc = "idle" /\ \A p \in Producers : prod[p].pc = "idle"
    /\ ~destroyed => Ownership

\* At the start the list owns its one node.
LEMMA OwnedInit == Init => Owned
  <1> SUFFICES ASSUME Init PROVE Owned
    OBVIOUS
  <1>1. PICK dummy \in Nodes :
          /\ head = dummy /\ tail = dummy
          /\ next = [n \in Nodes |-> Null]
          /\ data = [n \in Nodes |-> Null]
          /\ allocated = {dummy} /\ used = {dummy}
          /\ prod = [p \in Producers |-> [pc |-> "idle", node |-> Null, last |-> Null,
                                          next |-> Null, count |-> 0]]
          /\ cons = [pc |-> "idle", first |-> Null, last |-> Null, next |-> Null, data |-> Null]
          /\ deleted = [x \in Values |-> 0]
          /\ destroyed = FALSE
    BY DEF Init
  <1>2. Types /\ Uncalled
    <2>1. PICK f, v, r, lo, hi, t : QInv(f, v, r, lo, hi, t)
      BY QueueInit
    <2> QED BY <2>1, Parts
  <1>3. \A p \in Producers : prod[p].pc = "idle"
    BY <1>1
  <1>4. Null \notin Nodes /\ Null \notin Values
    BY QueueAssumption DEF Values
  <1>5. Typed /\ \A p \in Producers : OwnNode(p)
    BY <1>2, <1>3 DEF Typed, OwnNode, Pending, Holding
  <1>6. Chained
    BY <1>1, <1>4 DEF Chained, Foremost
  <1>7. Once
    <2>1. \A x \in Values : deleted[x] = 0
      BY <1>1
    <2>2. \A p \in Producers, i \in 1..MaxItems : <<p, i>> \in Values
      BY DEF Values
    <2>3. \A m \in allocated : data[m] = Null
      BY <1>1
    <2> QED BY <2>1, <2>2, <2>3, <1>4 DEF Once
  <1>8. Reading
    BY <1>1 DEF Reading
  <1> QED BY <1>1, <1>5, <1>6, <1>7, <1>8 DEF Owned, Ownership

\* What the types say of a producer and of the consumer.
LEMMA TypedParts ==
    ASSUME Typed
    PROVE  /\ Types /\ prod \in [Producers -> ProdRecord] /\ cons \in ConsRecord
           /\ \A p \in Producers : prod[p] \in ProdRecord
           /\ Null \notin Nodes /\ Null \notin Values /\ allocated \subseteq Nodes
  BY QueueAssumption DEF Typed, Types, Values

\* A step of a producer that only changes what it knows.
LEMMA OwnedLocal ==
    ASSUME Owned, ~destroyed, NEW p \in Producers, ProducerLocal(p), tail' \in Nodes,
           Holding(p)' => prod'[p].last \in Nodes,
           prod'[p].pc = "help" => prod'[p].next \in Nodes,
           prod'[p].pc = "swing" => prod'[p].node \in Nodes
    PROVE  Owned'
  <1>0. Typed /\ Ownership
    BY DEF Owned
  <1>1. prod \in [Producers -> ProdRecord] /\ Types /\ Uncalled
    BY <1>0, TypedParts DEF Typed
  <1>2. PICK rec \in ProdRecord : /\ prod' = [prod EXCEPT ![p] = rec]
                                  /\ rec.node = prod[p].node /\ rec.count = prod[p].count
    BY DEF ProducerLocal
  <1>3. /\ prod[p].pc # "idle" /\ Pending(p)' = Pending(p)
        /\ UNCHANGED <<head, next, data, allocated, used, deleted, cons, callers, weak, recycled,
                       destroyed>>
        /\ misused' \in BOOLEAN
    BY DEF ProducerLocal
  <1>4. /\ prod' \in [Producers -> ProdRecord]
        /\ \A q \in Producers : q # p => prod'[q] = prod[q]
        /\ \A q \in Producers : /\ prod'[q].node = prod[q].node /\ prod'[q].count = prod[q].count
                                /\ Pending(q)' = Pending(q)
    <2>1. prod' \in [Producers -> ProdRecord] /\ prod'[p] = rec
          /\ \A q \in Producers : q # p => prod'[q] = prod[q]
      BY <1>1, <1>2
    <2>2. \A q \in Producers : q # p => Pending(q)' = Pending(q)
      BY <2>1 DEF Pending
    <2> QED BY <2>1, <2>2, <1>2, <1>3
  <1>5. Types' /\ Uncalled'
    <2>1. Types'
      BY <1>1, <1>3, <1>4 DEF Types
    <2>2. Uncalled'
      BY <1>1, <1>3, <1>4 DEF Uncalled
    <2> QED BY <2>1, <2>2
  <1>6. Typed'
    <2>1. \A q \in Producers : q # p => /\ Holding(q)' => prod'[q].last \in Nodes
                                        /\ prod'[q].pc = "help" => prod'[q].next \in Nodes
                                        /\ prod'[q].pc = "swing" => prod'[q].node \in Nodes
      BY <1>0, <1>4 DEF Typed, Holding
    <2> QED BY <2>1, <1>5 DEF Typed
  <1>7. Foremost' = Foremost
    BY <1>3 DEF Foremost
  <1>8. \A q \in Producers : OwnNode(q)'
    BY <1>0, <1>3, <1>4, <1>7 DEF Ownership, OwnNode
  <1>9. Chained' /\ Once' /\ Reading'
    BY <1>0, <1>3, <1>4, <1>7 DEF Ownership, Chained, Once, Reading
  <1> QED BY <1>3, <1>6, <1>8, <1>9 DEF Owned, Ownership

\* The steps of a producer but the two that change the list.
LEMMA OwnedProducer ==
    ASSUME Owned, NEW p \in Producers, enqueue(p), ~EnqueueStart(p),
           ~(Link(p) /\ prod'[p].pc = "swing")
    PROVE  Owned'
  <1>0. Typed /\ prod[p] \in ProdRecord /\ prod \in [Producers -> ProdRecord]
        /\ tail \in Nodes /\ next \in [Nodes -> Pointers] /\ misused \in BOOLEAN
        /\ allocated \subseteq Nodes
    BY TypedParts DEF Owned, Types
  <1>1. prod[p].pc # "idle"
    BY DEF enqueue, LoadTail, LoadNext, CheckTail, Link, Swing, Help, MoveTail
  <1>2. ~destroyed /\ Ownership
    BY <1>1 DEF Owned
  <1>3. /\ Holding(p) => prod[p].last \in Nodes
        /\ prod[p].pc = "help" => prod[p].next \in Nodes
        /\ prod[p].pc = "swing" => prod[p].node \in Nodes
    BY <1>0 DEF Typed
  <1>4. ASSUME NEW rec \in ProdRecord, prod' = [prod EXCEPT ![p] = rec],
               rec.node = prod[p].node, rec.count = prod[p].count,
               prod[p].pc = "swing" <=> rec.pc \in {"swing", "idle"},
               UNCHANGED <<head, next, data, allocated, used, deleted, cons, callers, weak,
                           recycled, destroyed>>,
               misused' \in BOOLEAN, tail' \in Nodes,
               rec.pc \in {"next", "check", "link", "help", "swing"} => rec.last \in Nodes,
               rec.pc = "help" => rec.next \in Nodes, rec.pc # "swing"
        PROVE  Owned'
    <2>1. ProducerLocal(p) /\ prod'[p] = rec
      BY <1>0, <1>1, <1>4, LocalShape
    <2>2. Holding(p)' => prod'[p].last \in Nodes
      BY <2>1, <1>4 DEF Holding
    <2>3. /\ prod'[p].pc = "help" => prod'[p].next \in Nodes
          /\ prod'[p].pc = "swing" => prod'[p].node \in Nodes
      BY <2>1, <1>4
    <2> QED BY <2>1, <2>2, <2>3, <1>2, <1>4, OwnedLocal
  <1>5. CASE LoadTail(p)
    <2> DEFINE rec == [prod[p] EXCEPT !.pc = "next", !.last = tail]
    <2>1. prod[p].pc = "tail" /\ tail \in Pointers
      BY <1>0, <1>5 DEF LoadTail, Pointers
    <2>2. /\ rec \in ProdRecord /\ rec.node = prod[p].node /\ rec.count = prod[p].count
          /\ rec.pc = "next" /\ rec.last = tail
      BY <1>0, <2>1 DEF ProdRecord, ProducerPcs
    <2>3. prod' = [prod EXCEPT ![p] = rec]
      BY <1>5 DEF LoadTail
    <2>4. /\ UNCHANGED <<head, tail, next, data, allocated, used, deleted, cons, callers, weak,
                         recycled, destroyed>>
          /\ misused' = misused
      BY <1>5 DEF LoadTail, memory, aside
    <2> HIDE DEF rec
    <2> QED BY <2>1, <2>2, <2>3, <2>4, <1>0, <1>4
  <1>6. CASE LoadNext(p)
    <2> DEFINE rec == [prod[p] EXCEPT !.pc = "check", !.next = next[prod[p].last]]
    <2>1. prod[p].pc = "next"
      BY <1>6 DEF LoadNext
    <2>2. prod[p].last \in Nodes /\ next[prod[p].last] \in Pointers
      BY <2>1, <1>0, <1>3 DEF Holding
    <2>3. /\ rec \in ProdRecord /\ rec.node = prod[p].node /\ rec.count = prod[p].count
          /\ rec.pc = "check" /\ rec.last = prod[p].last
      BY <1>0, <2>2 DEF ProdRecord, ProducerPcs
    <2>4. prod' = [prod EXCEPT ![p] = rec]
      BY <1>6 DEF LoadNext
    <2>5. /\ UNCHANGED <<head, tail, next, data, allocated, used, deleted, cons, callers, weak,
                         recycled, destroyed>>
          /\ misused' \in BOOLEAN
      BY <1>6, <1>0 DEF LoadNext, Access, aside
    <2> HIDE DEF rec
    <2> QED BY <2>1, <2>2, <2>3, <2>4, <2>5, <1>0, <1>4
  <1>7. CASE CheckTail(p)
    <2> DEFINE pc == IF prod[p].last # tail THEN "tail"
                     ELSE IF prod[p].next = Null THEN "link" ELSE "help"
               rec == [prod[p] EXCEPT !.pc = pc]
    <2>1. prod[p].pc = "check"
      BY <1>7 DEF CheckTail
    <2>2. pc \in {"tail", "link", "help"} /\ (pc = "help" => prod[p].next # Null)
      OBVIOUS
    <2>3. prod' = [prod EXCEPT ![p] = rec]
      BY <1>7 DEF CheckTail, Goto
    <2> HIDE DEF pc
    <2>4. /\ rec \in ProdRecord /\ rec.node = prod[p].node /\ rec.count = prod[p].count
          /\ rec.pc = pc /\ rec.last = prod[p].last /\ rec.next = prod[p].next
      BY <1>0, <2>2 DEF ProdRecord, ProducerPcs
    <2>5. /\ UNCHANGED <<head, tail, next, data, allocated, used, deleted, cons, callers, weak,
                         recycled, destroyed>>
          /\ misused' = misused
      BY <1>7 DEF CheckTail, memory, aside
    <2>6. prod[p].last \in Nodes /\ prod[p].next \in Pointers
      BY <2>1, <1>0, <1>3 DEF Holding, ProdRecord
    <2> HIDE DEF rec
    <2> QED BY <2>1, <2>2, <2>3, <2>4, <2>5, <2>6, <1>0, <1>4 DEF Pointers
  <1>8. CASE Link(p)
    <2> DEFINE rec == [prod[p] EXCEPT !.pc = "tail"]
    <2>1. prod[p].pc = "link"
      BY <1>8 DEF Link
    <2>2. /\ rec \in ProdRecord /\ rec.node = prod[p].node /\ rec.count = prod[p].count
          /\ rec.pc = "tail"
      BY <1>0 DEF ProdRecord, ProducerPcs
    <2>3. [prod EXCEPT ![p].pc = "swing"][p].pc = "swing"
      BY <1>0 DEF ProdRecord
    <2>4. prod' # [prod EXCEPT ![p].pc = "swing"]
      BY <1>8, <2>3
    <2>5. prod' = [prod EXCEPT ![p] = rec] /\ next' = next
      BY <1>8, <2>4 DEF Link, Goto
    <2>6. /\ UNCHANGED <<head, tail, data, allocated, used, deleted, cons, callers, weak,
                         recycled, destroyed>>
          /\ misused' \in BOOLEAN
      BY <1>8, <1>0 DEF Link, Access, aside
    <2> HIDE DEF rec
    <2> QED BY <2>1, <2>2, <2>5, <2>6, <1>0, <1>4
  <1>9. ASSUME NEW new \in Nodes, NEW then \in {"idle", "tail"}, NEW pc \in {"swing", "help"},
               pc = "swing" <=> then = "idle", MoveTail(p, pc, new, then)
        PROVE  Owned'
    <2> DEFINE rec == [prod[p] EXCEPT !.pc = then]
    <2>1. prod[p].pc = pc
      BY <1>9 DEF MoveTail
    <2>2. /\ rec \in ProdRecord /\ rec.node = prod[p].node /\ rec.count = prod[p].count
          /\ rec.pc = then
      BY <1>0 DEF ProdRecord, ProducerPcs
    <2>3. prod' = [prod EXCEPT ![p] = rec]
      BY <1>9 DEF MoveTail, Goto
    <2>4. tail' \in Nodes
      BY <1>0, <1>9 DEF MoveTail
    <2>5. /\ UNCHANGED <<head, next, data, allocated, used, deleted, cons, callers, weak,
                         recycled, destroyed>>
          /\ misused' = misused
      BY <1>9 DEF MoveTail, memory, aside
    <2> HIDE DEF rec
    <2> QED BY <2>1, <2>2, <2>3, <2>4, <2>5, <1>0, <1>4, <1>9
  <1>10. CASE Swing(p)
    <2>1. prod[p].pc = "swing"
      BY <1>10 DEF Swing, MoveTail
    <2> QED BY <2>1, <1>3, <1>9, <1>10 DEF Swing
  <1>11. CASE Help(p)
    <2>1. prod[p].pc = "help"
      BY <1>11 DEF Help, MoveTail
    <2> QED BY <2>1, <1>3, <1>9, <1>11 DEF Help
  <1> QED BY <1>5, <1>6, <1>7, <1>8, <1>10, <1>11 DEF enqueue

\* What a producer has to link is its own.
LEMMA OwnedEnqueueStart ==
    ASSUME Owned, NEW p \in Producers, EnqueueStart(p)
    PROVE  Owned'
  <1>z. /\ prod[p].pc = "idle" /\ ~destroyed /\ p \in callers /\ prod[p].count < MaxItems
        /\ UNCHANGED <<head, tail, cons, deleted, misused, callers, weak, destroyed>>
    BY DEF EnqueueStart
  <1>0. /\ Typed /\ (\A q \in Producers : OwnNode(q)) /\ Chained /\ Once /\ Reading
        /\ Types /\ prod \in [Producers -> ProdRecord] /\ prod[p] \in ProdRecord
        /\ Null \notin Nodes /\ Null \notin Values /\ allocated \subseteq Nodes
    BY <1>z, TypedParts DEF Owned, Ownership
  <1>n. PICK n \in Fresh :
          /\ allocated' = allocated \cup {n}
          /\ used' = used \cup {n}
          /\ next' = [next EXCEPT ![n] = Null]
          /\ data' = [data EXCEPT ![n] = <<p, prod[p].count + 1>>]
          /\ prod' = [prod EXCEPT ![p].pc = "tail", ![p].node = n, ![p].count = @ + 1]
          /\ recycled' = (recycled \/ \E q \in Producers : Holds(q, n))
    BY Zenon DEF EnqueueStart
  <1> DEFINE c == prod[p].count + 1
             rec == [prod[p] EXCEPT !.pc = "tail", !.node = n, !.count = c]
  <1>1. n \in Nodes /\ n \notin allocated
    BY <1>0 DEF Fresh, Types
  <1>c. c \in 1..MaxItems /\ prod[p].count \in Nat /\ c = prod[p].count + 1 /\ c \in Nat
    BY <1>0, <1>z, QueueAssumption DEF ProdRecord
  <1>r. /\ rec \in ProdRecord /\ rec.pc = "tail" /\ rec.node = n /\ rec.count = c
        /\ rec.last = prod[p].last /\ rec.next = prod[p].next
    <2>1. n \in Pointers /\ c \in 0..MaxItems
      BY <1>1, <1>c DEF Pointers
    <2> HIDE DEF c
    <2> QED BY <1>0, <2>1 DEF ProdRecord, ProducerPcs, rec
  <1>e. prod' = [prod EXCEPT ![p] = rec]
    BY <1>n, <1>0 DEF rec
  <1> HIDE DEF rec
  <1>p. /\ prod' \in [Producers -> ProdRecord] /\ prod'[p] = rec
        /\ \A q \in Producers : q # p => prod'[q] = prod[q]
    BY <1>0, <1>e, <1>r
  <1>q. /\ Pending(p)'
        /\ \A q \in Producers : q # p => (Pending(q)' <=> Pending(q))
        /\ \A q \in Producers : prod[q].count <= prod'[q].count /\ prod[q].count \in Nat
                                /\ prod'[q].count \in Nat
    <2>1. Pending(p)' /\ \A q \in Producers : q # p => (Pending(q)' <=> Pending(q))
      BY <1>p, <1>r DEF Pending
    <2>2. \A q \in Producers : prod[q].count \in Nat /\ prod'[q].count \in Nat
      BY <1>p, <1>0, QueueAssumption DEF ProdRecord
    <2>3. \A q \in Producers : prod[q].count <= prod'[q].count
      BY <2>2, <1>p, <1>r, <1>c
    <2> QED BY <2>1, <2>2, <2>3
  <1>x. /\ next' \in [Nodes -> Pointers] /\ next'[n] = Null
        /\ data' \in [Nodes -> Values \cup {Null}] /\ data'[n] = <<p, c>> /\ <<p, c>> \in Values
        /\ \A m \in Nodes : m # n => next'[m] = next[m] /\ data'[m] = data[m]
    BY <1>n, <1>1, <1>c, <1>0 DEF Types, Pointers, Values
  <1>2. Typed'
    <2>1. Types'
      <3>1. recycled' \in BOOLEAN
        BY <1>n, <1>0 DEF Types
      <3> QED BY <3>1, <1>0, <1>n, <1>1, <1>x, <1>p, <1>z DEF Types
    <2>2. Uncalled'
      BY <1>0, <1>p, <1>z DEF Typed, Uncalled
    <2>3. \A q \in Producers : /\ Holding(q)' => prod'[q].last \in Nodes
                               /\ prod'[q].pc = "help" => prod'[q].next \in Nodes
                               /\ prod'[q].pc = "swing" => prod'[q].node \in Nodes
      BY <1>0, <1>p, <1>r DEF Typed, Holding
    <2> QED BY <2>1, <2>2, <2>3 DEF Typed
  <1>f. Foremost' = Foremost /\ Foremost \in allocated /\ head \in allocated
    BY <1>z, <1>0 DEF Foremost, Chained
  <1>m. \A m \in allocated' : \/ m = n
                              \/ m \in allocated /\ m # n /\ m \in Nodes /\ next'[m] = next[m]
                                 /\ data'[m] = data[m]
    BY <1>n, <1>0, <1>1, <1>x
  <1>o. \A m \in allocated : next[m] # n
    BY <1>0, <1>1 DEF Chained
  <1>i. \A m \in allocated : data[m] # <<p, c>>
    <2>1. \A m \in allocated : data[m] = <<p, c>> => c <= prod[p].count
      BY <1>0, <1>c DEF Once
    <2> QED BY <2>1, <1>c
  <1>3. ASSUME NEW q \in Producers PROVE OwnNode(q)'
    <2>1. CASE q = p
      <3>1. ASSUME NEW q2 \in Producers, Pending(q2)', prod'[q2].node = n PROVE p = q2
        BY <3>1, <1>p, <1>q, <1>0, <1>1 DEF OwnNode
      <3>2. \A m \in allocated' : next'[m] # n
        BY <1>m, <1>o, <1>x, <1>0, <1>1
      <3> QED BY <2>1, <3>1, <3>2, <1>p, <1>r, <1>c, <1>x, <1>f, <1>1, <1>z, <1>n DEF OwnNode
    <2>2. CASE q # p
      <3> SUFFICES ASSUME Pending(q)' PROVE OwnNode(q)'
        BY DEF OwnNode
      <3>1. /\ Pending(q) /\ prod'[q] = prod[q] /\ prod[q].node \in allocated
            /\ prod[q].node \in Nodes /\ prod[q].node # n
        BY <2>2, <1>p, <1>q, <1>0, <1>1 DEF OwnNode
      <3>2. \A m \in allocated' : next'[m] # prod[q].node
        BY <3>1, <1>m, <1>x, <1>0 DEF OwnNode
      <3>3. \A q2 \in Producers : Pending(q2)' /\ prod'[q2].node = prod[q].node => q = q2
        BY <3>1, <1>p, <1>q, <1>r, <1>0 DEF OwnNode
      <3> QED BY <3>1, <3>2, <3>3, <1>0, <1>n, <1>x, <1>f, <1>z DEF OwnNode
    <2> QED BY <2>1, <2>2
  <1>4. Chained'
    <2>1. head' \in allocated' /\ Foremost' \in allocated' /\ head # n /\ head \in Nodes
      BY <1>f, <1>n, <1>z, <1>1, <1>0
    <2>2. \A m \in allocated' : next'[m] # Null => next'[m] \in allocated' /\ next'[m] # Foremost'
      BY <1>m, <1>x, <1>f, <1>n, <1>0 DEF Chained
    <2>3. \A m \in allocated' : next'[m] = head' => m = Foremost'
      BY <2>1, <1>m, <1>x, <1>f, <1>z, <1>0 DEF Chained
    <2>4. \A m, k \in allocated' : next'[m] # Null /\ next'[m] = next'[k] => k = m
      BY <1>m, <1>x, <1>0 DEF Chained
    <2> QED BY <2>1, <2>2, <2>3, <2>4 DEF Chained
  <1>5. Once'
    <2>1. \A m, k \in allocated' : data'[m] # Null /\ data'[m] = data'[k] => m = k
      BY <1>m, <1>x, <1>i, <1>0 DEF Once
    <2>2. ASSUME NEW q \in Producers, NEW i \in 1..MaxItems
          PROVE  /\ \A m \in allocated' : data'[m] = <<q, i>> => i <= prod'[q].count
                 /\ deleted'[<<q, i>>] # 0 => i <= prod'[q].count
      <3>1. i <= prod[q].count => i <= prod'[q].count
        BY <1>q
      <3>2. <<p, c>> = <<q, i>> => i <= prod'[q].count
        BY <1>p, <1>r, <1>c
      <3> QED BY <3>1, <3>2, <1>m, <1>x, <1>0, <1>z DEF Once
    <2>3. ASSUME NEW y \in Values
          PROVE  /\ deleted'[y] \in {0, 1}
                 /\ deleted'[y] = 1 => \A m \in allocated' : data'[m] = y => m = Foremost'
      <3>1. deleted[<<p, c>>] = 0
        <4>1. deleted[<<p, c>>] # 0 => c <= prod[p].count
          BY <1>0, <1>c DEF Once
        <4> QED BY <4>1, <1>c
      <3> QED BY <3>1, <1>m, <1>x, <1>0, <1>z, <1>f DEF Once
    <2> QED BY <2>1, <2>2, <2>3 DEF Once
  <1>6. Reading'
    <2>1. head \in Nodes /\ head # n /\ Foremost \in Nodes /\ Foremost # n
      BY <1>f, <1>0, <1>1
    <2>2. next'[head] = next[head] /\ next'[Foremost] = next[Foremost] /\ data'[head] = data[head]
      BY <2>1, <1>x
    <2>3. next[head] # Null => data'[next[head]] = data[next[head]]
      <3>1. next[head] # Null => next[head] \in allocated
        BY <1>f, <1>0 DEF Chained
      <3> QED BY <3>1, <1>x, <1>0, <1>1
    <2> QED BY <2>1, <2>2, <2>3, <1>0, <1>z DEF Reading, Foremost
  <1> QED BY <1>2, <1>3, <1>4, <1>5, <1>6, <1>z DEF Owned, Ownership

\* A node is linked once, whatever node it is linked to.
LEMMA OwnedLink ==
    ASSUME Owned, NEW p \in Producers, Link(p), prod'[p].pc = "swing"
    PROVE  Owned'
  <1>1. prod[p].pc = "link"
    BY DEF Link
  <1>0. /\ Typed /\ (\A q \in Producers : OwnNode(q)) /\ Chained /\ Once /\ Reading /\ ~destroyed
        /\ Types /\ prod \in [Producers -> ProdRecord] /\ prod[p] \in ProdRecord
        /\ Null \notin Nodes /\ Null \notin Values /\ allocated \subseteq Nodes
    BY <1>1, TypedParts DEF Owned, Ownership
  <1> DEFINE last == prod[p].last
             node == prod[p].node
             rec == [prod[p] EXCEPT !.pc = "swing"]
  <1>2. /\ last \in Nodes /\ node \in allocated /\ node \in Nodes
    BY <1>0, <1>1 DEF Typed, Holding, OwnNode, Pending
  <1>3. [prod EXCEPT ![p].pc = "tail"][p].pc = "tail"
    BY <1>0 DEF ProdRecord
  <1>4. /\ next[last] = Null /\ next' = [next EXCEPT ![last] = node]
        /\ prod' = [prod EXCEPT ![p] = rec]
    BY <1>3 DEF Link, Goto
  <1>5. /\ UNCHANGED <<head, tail, data, allocated, used, deleted, cons, callers, weak,
                       recycled, destroyed>>
        /\ misused' \in BOOLEAN
    BY <1>0 DEF Link, Access, aside, Types
  <1>r. /\ rec \in ProdRecord /\ rec.pc = "swing" /\ rec.node = node /\ rec.last = last
        /\ rec.count = prod[p].count
    BY <1>0 DEF ProdRecord, ProducerPcs
  <1> HIDE DEF rec, last, node
  <1>p. /\ prod' \in [Producers -> ProdRecord] /\ prod'[p] = rec
        /\ \A q \in Producers : q # p => prod'[q] = prod[q]
    BY <1>0, <1>4, <1>r
  <1>q. /\ Pending(p) /\ ~Pending(p)'
        /\ \A q \in Producers : q # p => (Pending(q)' <=> Pending(q))
        /\ \A q \in Producers : prod'[q].count = prod[q].count
    BY <1>1, <1>p, <1>r DEF Pending
  <1>x. /\ next' \in [Nodes -> Pointers] /\ next'[last] = node
        /\ \A m \in Nodes : m # last => next'[m] = next[m]
    BY <1>4, <1>2, <1>0 DEF Types, Pointers
  <1>f. Foremost' = Foremost
    BY <1>5 DEF Foremost
  <1>n. /\ node # head /\ node # Foremost /\ \A m \in allocated : next[m] # node
        /\ \A q \in Producers : Pending(q) /\ prod[q].node = node => p = q
    BY <1>0, <1>q DEF OwnNode, node
  <1>6. Typed'
    <2>1. Types'
      BY <1>0, <1>5, <1>p, <1>x DEF Types
    <2>2. Uncalled'
      <3>1. p \in callers
        BY <1>0, <1>1 DEF Typed, Uncalled
      <3> QED BY <3>1, <1>0, <1>5, <1>p DEF Typed, Uncalled
    <2>3. \A q \in Producers : /\ Holding(q)' => prod'[q].last \in Nodes
                               /\ prod'[q].pc = "help" => prod'[q].next \in Nodes
                               /\ prod'[q].pc = "swing" => prod'[q].node \in Nodes
      BY <1>0, <1>p, <1>r, <1>2 DEF Typed, Holding
    <2> QED BY <2>1, <2>2, <2>3 DEF Typed
  <1>7. ASSUME NEW q \in Producers, Pending(q)' PROVE OwnNode(q)'
    <2>1. Pending(q) /\ q # p /\ prod'[q] = prod[q] /\ prod[q].node # node
      BY <1>7, <1>p, <1>q, <1>n
    <2>2. \A m \in allocated : next'[m] # prod[q].node
      BY <2>1, <1>x, <1>0 DEF OwnNode
    <2>3. \A q2 \in Producers : Pending(q2)' /\ prod'[q2].node = prod[q].node => q = q2
      BY <2>1, <1>p, <1>q, <1>0 DEF OwnNode
    <2>4. /\ prod[q].node \in allocated /\ prod[q].count >= 1
          /\ data[prod[q].node] = <<q, prod[q].count>>
          /\ prod[q].node # head /\ prod[q].node # Foremost
      BY <2>1, <1>0 DEF OwnNode
    <2>5. allocated' = allocated /\ data' = data /\ head' = head
      BY <1>5
    <2> QED BY <2>1, <2>2, <2>3, <2>4, <2>5, <1>f DEF OwnNode
  <1>8. Chained'
    <2>1. \A m \in allocated : \/ m = last /\ next'[m] = node
                               \/ m # last /\ next'[m] = next[m]
      BY <1>x, <1>0
    <2>2. \A m \in allocated : next'[m] # Null => next'[m] \in allocated /\ next'[m] # Foremost
      BY <2>1, <1>2, <1>n, <1>0 DEF Chained
    <2>3. \A m \in allocated : next'[m] = head => m = Foremost
      BY <2>1, <1>n, <1>0 DEF Chained
    <2>4. \A m, k \in allocated : next'[m] # Null /\ next'[m] = next'[k] => k = m
      BY <2>1, <1>n, <1>0 DEF Chained
    <2> QED BY <2>2, <2>3, <2>4, <1>f, <1>5, <1>0 DEF Chained
  <1>9. Once'
    BY <1>0, <1>5, <1>f, <1>q DEF Once
  <1>10. Reading'
    <2>1. \A m \in Nodes : next[m] # Null => next'[m] = next[m]
      BY <1>4, <1>x
    <2>2. head \in Nodes /\ Foremost \in Nodes
      BY <1>0 DEF Chained
    <2> QED BY <2>1, <2>2, <1>0, <1>5 DEF Reading, Foremost
  <1> QED BY <1>6, <1>7, <1>8, <1>9, <1>10, <1>5, <1>0 DEF Owned, Ownership, OwnNode

\* A step of the consumer that only changes what it knows.
LEMMA OwnedConsumer ==
    ASSUME Owned, ConsumerLocal, tail' \in Nodes, Reading'
    PROVE  Owned'
  <1>z. /\ ~destroyed /\ cons.pc # "delete" /\ cons'.pc # "delete" /\ cons' \in ConsRecord
        /\ UNCHANGED <<head, next, data, allocated, used, deleted, prod, callers, weak, recycled,
                       destroyed>>
        /\ misused' \in BOOLEAN
    BY DEF ConsumerLocal
  <1>0. Typed /\ (\A q \in Producers : OwnNode(q)) /\ Chained /\ Once /\ Types
    BY <1>z, TypedParts DEF Owned, Ownership
  <1>1. Foremost' = Foremost /\ \A q \in Producers : Pending(q)' = Pending(q)
    BY <1>z DEF Foremost, Pending
  <1>2. Typed'
    <2>1. Types'
      BY <1>0, <1>z DEF Types
    <2>2. Uncalled'
      BY <1>0, <1>z DEF Typed, Uncalled
    <2>3. \A q \in Producers : /\ Holding(q)' => prod'[q].last \in Nodes
                               /\ prod'[q].pc = "help" => prod'[q].next \in Nodes
                               /\ prod'[q].pc = "swing" => prod'[q].node \in Nodes
      BY <1>0, <1>z DEF Typed, Holding
    <2> QED BY <2>1, <2>2, <2>3 DEF Typed
  <1>3. ASSUME NEW q \in Producers PROVE OwnNode(q)'
    BY <1>0, <1>1, <1>z DEF OwnNode
  <1>4. Chained' /\ Once'
    BY <1>0, <1>1, <1>z DEF Chained, Once
  <1> QED BY <1>2, <1>3, <1>4, <1>z DEF Owned, Ownership

\* The steps of the consumer that only look.
LEMMA OwnedLooks ==
    ASSUME Owned, Looks
    PROVE  Owned'
  <1> USE DEF memory, aside
  <1>f. ~destroyed
    <2>1. destroyed => cons.pc = "idle"
      BY DEF Owned
    <2> QED BY <2>1 DEF Looks, DequeueStart, DequeueLoadTail, DequeueLoadNext, CheckHead, HelpTail,
               LoadData, MoveHead
  <1>0. /\ Types /\ Reading /\ Chained /\ cons \in ConsRecord /\ head \in Nodes /\ tail \in Nodes
        /\ next \in [Nodes -> Pointers] /\ data \in [Nodes -> Values \cup {Null}]
        /\ misused \in BOOLEAN /\ Null \notin Nodes /\ Null \notin Values
        /\ head \in allocated /\ allocated \subseteq Nodes
    BY <1>f, TypedParts DEF Owned, Ownership, Types, Chained
  <1>1. CASE DequeueStart
    <2> DEFINE rec == [cons EXCEPT !.pc = "tail", !.first = head]
    <2>1. rec \in ConsRecord /\ rec.pc = "tail" /\ rec.first = head
      BY <1>0 DEF ConsRecord, ConsumerPcs, Pointers
    <2>2. cons' = rec /\ cons.pc = "idle"
      BY <1>1 DEF DequeueStart
    <2> HIDE DEF rec
    <2>3. ConsumerLocal /\ tail' = tail
      BY <2>1, <2>2, <1>0, <1>1, <1>f DEF DequeueStart, ConsumerLocal
    <2>4. Reading'
      BY <2>1, <2>2, <2>3 DEF Reading, ConsumerLocal
    <2> QED BY <2>3, <2>4, <1>0, OwnedConsumer
  <1>2. CASE DequeueLoadTail
    <2> DEFINE rec == [cons EXCEPT !.pc = "next", !.last = tail]
    <2>1. rec \in ConsRecord /\ rec.pc = "next" /\ rec.first = cons.first
      BY <1>0 DEF ConsRecord, ConsumerPcs, Pointers
    <2>2. cons' = rec /\ cons.pc = "tail"
      BY <1>2 DEF DequeueLoadTail
    <2> HIDE DEF rec
    <2>3. ConsumerLocal /\ tail' = tail
      BY <2>1, <2>2, <1>0, <1>2, <1>f DEF DequeueLoadTail, ConsumerLocal
    <2>4. Reading'
      BY <2>1, <2>2, <2>3, <1>0 DEF Reading, ConsumerLocal
    <2> QED BY <2>3, <2>4, <1>0, OwnedConsumer
  <1>3. CASE DequeueLoadNext
    <2> DEFINE rec == [cons EXCEPT !.pc = "check", !.next = next[cons.first]]
    <2>0. cons.pc = "next" /\ cons.first = head /\ next[head] \in Pointers
      BY <1>0, <1>3 DEF DequeueLoadNext, Reading
    <2>1. rec \in ConsRecord /\ rec.pc = "check" /\ rec.first = head /\ rec.next = next[head]
      BY <2>0, <1>0 DEF ConsRecord, ConsumerPcs
    <2>2. cons' = rec
      BY <1>3 DEF DequeueLoadNext
    <2> HIDE DEF rec
    <2>3. ConsumerLocal /\ tail' = tail
      BY <2>0, <2>1, <2>2, <1>0, <1>3, <1>f DEF DequeueLoadNext, Access, ConsumerLocal
    <2>4. Reading'
      BY <2>1, <2>2, <2>3 DEF Reading, ConsumerLocal
    <2> QED BY <2>3, <2>4, <1>0, OwnedConsumer
  <1>4. CASE CheckHead
    <2> DEFINE pc == IF cons.first = cons.last THEN IF cons.next = Null THEN "idle" ELSE "help"
                     ELSE IF cons.next = Null THEN "idle" ELSE "data"
               rec == [cons EXCEPT !.pc = pc]
    <2>0. cons.pc = "check" /\ pc \in {"idle", "help", "data"} /\ (pc # "idle" => cons.next # Null)
      BY <1>4 DEF CheckHead
    <2>2. cons' = rec
      BY <1>4 DEF CheckHead
    <2> HIDE DEF pc
    <2>1. rec \in ConsRecord /\ rec.pc = pc /\ rec.first = cons.first /\ rec.next = cons.next
      BY <2>0, <1>0 DEF ConsRecord, ConsumerPcs
    <2> HIDE DEF rec
    <2>3. ConsumerLocal /\ tail' = tail
      BY <2>0, <2>1, <2>2, <1>0, <1>4, <1>f DEF CheckHead, ConsumerLocal
    <2>4. Reading'
      BY <2>0, <2>1, <2>2, <2>3, <1>0 DEF Reading, ConsumerLocal
    <2> QED BY <2>3, <2>4, <1>0, OwnedConsumer
  <1>5. CASE HelpTail \/ (MoveHead /\ cons'.pc = "idle")
    <2> DEFINE rec == [cons EXCEPT !.pc = "idle"]
    <2>0. cons.pc \in {"help", "head"}
      BY <1>5 DEF HelpTail, MoveHead
    <2>1. rec \in ConsRecord /\ rec.pc = "idle"
      BY <1>0 DEF ConsRecord, ConsumerPcs
    <2>2. cons' = rec /\ head' = head
      <3>1. [cons EXCEPT !.pc = "delete"].pc = "delete"
        BY <1>0 DEF ConsRecord
      <3> QED BY <3>1, <1>5 DEF HelpTail, MoveHead
    <2>3. tail' \in Nodes
      <3>1. CASE HelpTail
        <4>1. cons.next \in Nodes
          BY <3>1, <1>0 DEF HelpTail, Reading, Pointers
        <4> QED BY <4>1, <3>1, <1>0 DEF HelpTail
      <3>2. CASE MoveHead
        BY <3>2, <1>0 DEF MoveHead
      <3> QED BY <3>1, <3>2, <1>5
    <2> HIDE DEF rec
    <2>4. ConsumerLocal
      <3>1. CASE HelpTail
        BY <3>1, <2>0, <2>1, <2>2, <1>0, <1>f DEF HelpTail, ConsumerLocal
      <3>2. CASE MoveHead
        BY <3>2, <2>0, <2>1, <2>2, <1>0, <1>f DEF MoveHead, ConsumerLocal
      <3> QED BY <3>1, <3>2, <1>5
    <2>5. Reading'
      BY <2>1, <2>2 DEF Reading
    <2> QED BY <2>3, <2>4, <2>5, OwnedConsumer
  <1>6. CASE LoadData
    <2> DEFINE rec == [cons EXCEPT !.pc = "head", !.data = data[cons.next]]
    <2>0. /\ cons.pc = "data" /\ cons.first = head /\ cons.next = next[head] /\ cons.next # Null
          /\ cons.next \in Nodes /\ data[cons.next] \in Values \cup {Null}
      BY <1>0, <1>6 DEF LoadData, Reading, Pointers
    <2>3. tail' = tail
      BY <1>6 DEF LoadData
    <2>4. CASE data[cons.next] = Null
      <3>1. cons' = [cons EXCEPT !.pc = "idle"]
        BY <2>4, <1>6 DEF LoadData
      <3>2. cons' \in ConsRecord /\ cons'.pc = "idle"
        BY <3>1, <1>0 DEF ConsRecord, ConsumerPcs
      <3>3. ConsumerLocal
        BY <3>2, <2>0, <1>0, <1>6, <1>f DEF LoadData, Access, ConsumerLocal
      <3>4. Reading'
        BY <3>2 DEF Reading
      <3> QED BY <3>3, <3>4, <2>3, <1>0, OwnedConsumer
    <2>5. CASE data[cons.next] # Null
      <3>1. cons' = rec
        BY <2>5, <1>6 DEF LoadData
      <3>2. /\ rec \in ConsRecord /\ rec.pc = "head" /\ rec.first = head
            /\ rec.next = cons.next /\ rec.data = data[cons.next]
        BY <2>0, <1>0 DEF ConsRecord, ConsumerPcs
      <3> HIDE DEF rec
      <3>3. ConsumerLocal
        BY <3>1, <3>2, <2>0, <1>0, <1>6, <1>f DEF LoadData, Access, ConsumerLocal
      <3>4. Reading'
        BY <3>1, <3>2, <3>3, <2>0, <2>5 DEF Reading, ConsumerLocal
      <3> QED BY <3>3, <3>4, <2>3, <1>0, OwnedConsumer
    <2> QED BY <2>4, <2>5
  <1> QED BY <1>1, <1>2, <1>3, <1>4, <1>5, <1>6 DEF Looks

\* The second node becomes the first: its item has left, and the old first one is the front.
LEMMA OwnedMoveHead ==
    ASSUME Owned, MoveHead, cons'.pc = "delete"
    PROVE  Owned'
  <1>1. cons.pc = "head" /\ ~destroyed
    BY DEF MoveHead, Owned
  <1>0. /\ Typed /\ (\A q \in Producers : OwnNode(q)) /\ Chained /\ Once /\ Reading
        /\ Types /\ cons \in ConsRecord /\ Null \notin Nodes /\ allocated \subseteq Nodes
    BY <1>1, TypedParts DEF Owned, Ownership
  <1>2. cons' = [cons EXCEPT !.pc = "delete"] /\ head' = cons.next
    <2>1. [cons EXCEPT !.pc = "idle"].pc = "idle"
      BY <1>0 DEF ConsRecord
    <2> QED BY <2>1 DEF MoveHead
  <1>3. /\ UNCHANGED <<tail, next, data, allocated, used, deleted, prod, callers, weak, recycled,
                       misused, destroyed>>
    BY DEF MoveHead, memory, aside
  <1>4. /\ cons' \in ConsRecord /\ cons'.pc = "delete" /\ cons'.first = cons.first
        /\ cons'.data = cons.data
    BY <1>2, <1>0 DEF ConsRecord, ConsumerPcs
  <1>5. /\ Foremost = head /\ Foremost' = head /\ cons.first = head
        /\ head' = next[head] /\ head' # Null /\ head' \in allocated /\ head' # head
        /\ cons.data = data[head'] /\ cons.data \in Values /\ head' \in Nodes
    BY <1>0, <1>1, <1>2, <1>4 DEF Foremost, Reading, Chained
  <1>p. \A q \in Producers : Pending(q)' = Pending(q)
    BY <1>3 DEF Pending
  <1>6. Typed'
    <2>1. Types'
      BY <1>0, <1>3, <1>4, <1>5 DEF Types
    <2>2. Uncalled'
      BY <1>0, <1>3 DEF Typed, Uncalled
    <2>3. \A q \in Producers : /\ Holding(q)' => prod'[q].last \in Nodes
                               /\ prod'[q].pc = "help" => prod'[q].next \in Nodes
                               /\ prod'[q].pc = "swing" => prod'[q].node \in Nodes
      BY <1>0, <1>3 DEF Typed, Holding
    <2> QED BY <2>1, <2>2, <2>3 DEF Typed
  <1>7. ASSUME NEW q \in Producers PROVE OwnNode(q)'
    <2> SUFFICES ASSUME Pending(q) PROVE OwnNode(q)'
      BY <1>p DEF OwnNode
    <2>1. prod[q].node # head'
      BY <1>0, <1>5 DEF OwnNode, Chained
    <2> QED BY <2>1, <1>0, <1>3, <1>5, <1>p DEF OwnNode
  <1>8. Chained'
    <2>1. \A m \in allocated : next[m] = head' => m = head
      BY <1>0, <1>5 DEF Chained
    <2> QED BY <2>1, <1>0, <1>3, <1>5 DEF Chained
  <1>9. Once'
    BY <1>0, <1>3, <1>5 DEF Once
  <1>10. Reading'
    BY <1>3, <1>4, <1>5 DEF Reading
  <1> QED BY <1>6, <1>7, <1>8, <1>9, <1>10, <1>1, <1>3 DEF Owned, Ownership

\* The front and the object that has left are deleted.
LEMMA OwnedDelete ==
    ASSUME Owned, Delete
    PROVE  Owned'
  <1>1. cons.pc = "delete" /\ ~destroyed
    BY DEF Delete, Owned
  <1>0. /\ Typed /\ (\A q \in Producers : OwnNode(q)) /\ Chained /\ Once /\ Reading
        /\ Types /\ cons \in ConsRecord /\ Null \notin Nodes /\ allocated \subseteq Nodes
        /\ Null \notin Values
    BY <1>1, TypedParts DEF Owned, Ownership
  <1> DEFINE first == cons.first
             item == cons.data
  <1>2. /\ deleted' = [deleted EXCEPT ![item] = @ + 1]
        /\ allocated' = allocated \ {first}
        /\ cons' = [cons EXCEPT !.pc = "idle"]
        /\ UNCHANGED <<head, tail, next, data, used, misused, prod, callers, weak, recycled,
                       destroyed>>
    BY DEF Delete, aside
  <1>3. /\ Foremost = first /\ first # head /\ next[first] = head /\ item = data[head]
        /\ item \in Values /\ head \in allocated
    BY <1>0, <1>1 DEF Foremost, Reading, Chained
  <1>4. cons' \in ConsRecord /\ cons'.pc = "idle" /\ Foremost' = head
    BY <1>2, <1>0 DEF ConsRecord, ConsumerPcs, Foremost
  <1> HIDE DEF first, item
  <1>5. /\ deleted[item] = 0 /\ deleted' \in [Values -> Nat] /\ deleted'[item] = 1
        /\ \A x \in Values : x # item => deleted'[x] = deleted[x]
    <2>1. deleted \in [Values -> Nat] /\ deleted[item] \in {0, 1}
      BY <1>0, <1>3 DEF Types, Once
    <2>2. deleted[item] # 1
      BY <1>0, <1>3 DEF Once
    <2> QED BY <2>1, <2>2, <1>2, <1>3
  <1>p. \A q \in Producers : Pending(q)' = Pending(q)
    BY <1>2 DEF Pending
  <1>6. Typed'
    <2>1. Types'
      BY <1>0, <1>2, <1>4, <1>5 DEF Types
    <2>2. Uncalled'
      BY <1>0, <1>2 DEF Typed, Uncalled
    <2>3. \A q \in Producers : /\ Holding(q)' => prod'[q].last \in Nodes
                               /\ prod'[q].pc = "help" => prod'[q].next \in Nodes
                               /\ prod'[q].pc = "swing" => prod'[q].node \in Nodes
      BY <1>0, <1>2 DEF Typed, Holding
    <2> QED BY <2>1, <2>2, <2>3 DEF Typed
  <1>7. ASSUME NEW q \in Producers PROVE OwnNode(q)'
    BY <1>0, <1>2, <1>3, <1>4, <1>p DEF OwnNode
  <1>8. Chained'
    BY <1>0, <1>2, <1>3, <1>4 DEF Chained
  <1>9. Once'
    <2>1. \A m, k \in allocated' : data[m] # Null /\ data[m] = data[k] => m = k
      BY <1>0, <1>2 DEF Once
    <2>2. ASSUME NEW q \in Producers, NEW i \in 1..MaxItems
          PROVE  /\ \A m \in allocated' : data[m] = <<q, i>> => i <= prod[q].count
                 /\ deleted'[<<q, i>>] # 0 => i <= prod[q].count
      <3>1. <<q, i>> \in Values
        BY DEF Values
      <3>2. CASE <<q, i>> = item
        <4>1. i <= prod[q].count
          BY <3>2, <1>0, <1>3 DEF Once
        <4> QED BY <4>1
      <3>3. CASE <<q, i>> # item
        BY <3>1, <3>3, <1>0, <1>2, <1>5 DEF Once
      <3> QED BY <3>2, <3>3
    <2>3. ASSUME NEW y \in Values
          PROVE  /\ deleted'[y] \in {0, 1}
                 /\ deleted'[y] = 1 => \A m \in allocated' : data[m] = y => m = head
      <3>1. CASE y = item
        BY <3>1, <2>1, <1>0, <1>2, <1>3, <1>5 DEF Once
      <3>2. CASE y # item
        BY <3>2, <1>0, <1>2, <1>3, <1>5 DEF Once
      <3> QED BY <3>1, <3>2
    <2> QED BY <2>1, <2>2, <2>3, <1>2, <1>4 DEF Once
  <1>10. Reading'
    BY <1>4 DEF Reading
  <1> QED BY <1>6, <1>7, <1>8, <1>9, <1>10, <1>1, <1>2 DEF Owned, Ownership

\* The destructor comes past no deleted node, and past the front once.
LEMMA OwnedDestroy ==
    ASSUME Owned, Destroy
    PROVE  Owned'
  <1>1. /\ ~destroyed /\ cons.pc = "idle" /\ \A p \in Producers : prod[p].pc = "idle"
        /\ deleted' = [x \in Values |->
              IF \E n \in Remaining : data[n] = x THEN deleted[x] + 1 ELSE deleted[x]]
        /\ allocated' = allocated \ Remaining
        /\ destroyed' = TRUE
        /\ UNCHANGED <<head, tail, next, data, used, callers, weak, recycled, prod, cons>>
    BY DEF Destroy, aside
  <1>m. misused' \in BOOLEAN
    BY DEF Destroy
  <1>0. /\ Typed /\ Chained /\ Once /\ Types /\ Null \notin Nodes /\ allocated \subseteq Nodes
        /\ Foremost = head
    BY <1>1, TypedParts DEF Owned, Ownership, Foremost
  <1>2. Remaining \subseteq allocated
    <2>1. allocated \in SUBSET Nodes
      BY <1>0
    <2>2. head \in allocated /\ \A m \in allocated : next[m] = Null \/ next[m] \in allocated
      BY <1>0 DEF Chained
    <2> QED BY <2>1, <2>2 DEF Remaining
  <1>3. Typed'
    <2>1. Types'
      <3>1. deleted' \in [Values -> Nat]
        BY <1>0, <1>1 DEF Types
      <3> HIDE DEF Remaining
      <3> QED BY <3>1, <1>0, <1>1, <1>m DEF Types
    <2>2. Uncalled'
      BY <1>0, <1>1 DEF Typed, Uncalled
    <2>3. \A q \in Producers : /\ Holding(q)' => prod'[q].last \in Nodes
                               /\ prod'[q].pc = "help" => prod'[q].next \in Nodes
                               /\ prod'[q].pc = "swing" => prod'[q].node \in Nodes
      BY <1>0, <1>1 DEF Typed, Holding
    <2> QED BY <2>1, <2>2, <2>3 DEF Typed
  <1>4. ASSUME NEW x \in Values, deleted'[x] > 1
        PROVE  deleted'[x] = 2 /\ data[head] = x
    <2>1. deleted[x] \in {0, 1}
      BY <1>0 DEF Once
    <2>2. /\ deleted[x] = 1 /\ deleted'[x] = 2
          /\ \E n \in Remaining : data[n] = x
      BY <2>1, <1>1, <1>4
    <2> QED BY <2>2, <1>0, <1>2 DEF Once
  <1>5. OnlyLastDeletedTwice'
    BY <1>1, <1>4 DEF OnlyLastDeletedTwice
  <1> QED BY <1>1, <1>3, <1>5 DEF Owned

\* Whatever addresses are used again.
LEMMA OwnedNext == Owned /\ [Next]_vars => Owned'
  <1> SUFFICES ASSUME Owned, [Next]_vars PROVE Owned'
    OBVIOUS
  <1>1. CASE UNCHANGED vars
    BY <1>1 DEF Owned, Typed, Types, Uncalled, Holding, Ownership, OwnNode, Pending, Foremost,
       Chained, Once, Reading, OnlyLastDeletedTwice, vars, memory, aside
  <1>2. ASSUME NEW p \in Producers, enqueue(p) PROVE Owned'
    BY <1>2, OwnedProducer, OwnedEnqueueStart, OwnedLink
  <1>3. CASE dequeue
    <2>1. CASE MoveHead
      <3>1. cons \in ConsRecord
        BY TypedParts DEF Owned
      <3>2. cons'.pc \in {"idle", "delete"}
        BY <2>1, <3>1 DEF MoveHead, ConsRecord
      <3> QED BY <3>2, <2>1, OwnedLooks, OwnedMoveHead DEF Looks
    <2>2. CASE Delete
      BY <2>2, OwnedDelete
    <2>3. CASE ~MoveHead /\ ~Delete
      BY <2>3, <1>3, OwnedLooks DEF dequeue, Looks
    <2> QED BY <2>1, <2>2, <2>3
  <1>4. CASE Destroy
    BY <1>4, OwnedDestroy
  <1> QED BY <1>1, <1>2, <1>3, <1>4 DEF Next

\* A queue that is intact was so before.
LEMMA IntactBefore == Types /\ [Next]_vars /\ Intact' => Intact
  <1> SUFFICES ASSUME Types, [Next]_vars, Intact' PROVE Intact
    OBVIOUS
  <1>0. misused \in BOOLEAN /\ recycled \in BOOLEAN /\ ~misused' /\ ~recycled'
    BY DEF Types, Intact
  <1>1. CASE UNCHANGED vars
    BY <1>0, <1>1 DEF vars, memory, aside, Intact
  <1>2. ASSUME NEW p \in Producers, enqueue(p) PROVE Intact
    <2>1. CASE EnqueueStart(p)
      <3>1. misused' = misused /\ (recycled => recycled')
        BY <2>1, Zenon DEF EnqueueStart
      <3> QED BY <3>1, <1>0 DEF Intact
    <2>2. CASE LoadTail(p) \/ CheckTail(p) \/ Swing(p) \/ Help(p)
      BY <2>2, <1>0 DEF LoadTail, CheckTail, Swing, Help, MoveTail, memory, aside, Intact
    <2>3. CASE LoadNext(p) \/ Link(p)
      BY <2>3, <1>0 DEF LoadNext, Link, Access, aside, Intact
    <2> QED BY <1>2, <2>1, <2>2, <2>3 DEF enqueue
  <1>3. CASE dequeue
    <2>1. recycled' = recycled
      BY <1>3 DEF dequeue, DequeueStart, DequeueLoadTail, DequeueLoadNext, CheckHead, HelpTail,
                  LoadData, MoveHead, Delete, aside
    <2>2. misused => misused'
      BY <1>3 DEF dequeue, DequeueStart, DequeueLoadTail, DequeueLoadNext, CheckHead, HelpTail,
                  LoadData, MoveHead, Delete, memory, Access
    <2> QED BY <2>1, <2>2, <1>0 DEF Intact
  <1>4. CASE Destroy
    BY <1>0, <1>4 DEF Destroy, aside, Intact
  <1> QED BY <1>1, <1>2, <1>3, <1>4 DEF Next

-----------------------------------------------------------------------------
(* The invariant of the queue, and what follows from it.                   *)

QueueInv ==
    /\ Owned
    /\ Intact => \E f, v, r, lo, hi, t : QInv(f, v, r, lo, hi, t)
    /\ SoleProducer => Intact

\* The queue keeps both invariants; with one producer, on x86, it stays intact.
THEOREM QueueInvariant == Spec => []QueueInv
  <1>1. ASSUME Init PROVE QueueInv
    <2>1. Owned /\ \E f, v, r, lo, hi, t : QInv(f, v, r, lo, hi, t)
      BY <1>1, QueueInit, OwnedInit
    <2>2. Intact
      BY <2>1, Parts
    <2> QED BY <2>1, <2>2 DEF QueueInv
  <1>2. ASSUME QueueInv, [Next]_vars PROVE QueueInv'
    <2>1. Owned'
      BY <1>2, OwnedNext DEF QueueInv
    <2>2. ASSUME SoleProducer' PROVE Intact'
      <3>1. SoleProducer' = SoleProducer
        <4>1. UNCHANGED <<callers, weak>>
          <5>1. CASE UNCHANGED vars
            BY <5>1 DEF vars, aside
          <5>2. ASSUME NEW p \in Producers, enqueue(p) PROVE UNCHANGED <<callers, weak>>
            <6>1. CASE EnqueueStart(p)
              BY <6>1, Zenon DEF EnqueueStart
            <6>2. CASE ~EnqueueStart(p)
              BY <5>2, <6>2 DEF enqueue, LoadTail, LoadNext, CheckTail, Link, Swing, Help,
                                MoveTail, aside
            <6> QED BY <6>1, <6>2
          <5>3. CASE dequeue
            BY <5>3 DEF dequeue, DequeueStart, DequeueLoadTail, DequeueLoadNext, CheckHead,
                        HelpTail, LoadData, MoveHead, Delete, aside
          <5>4. CASE Destroy
            BY <5>4 DEF Destroy, aside
          <5> QED BY <1>2, <5>1, <5>2, <5>3, <5>4 DEF Next
        <4> QED BY <4>1 DEF SoleProducer
      <3>2. Intact /\ SoleProducer
        BY <1>2, <2>2, <3>1 DEF QueueInv
      <3>3. PICK f, v, r, lo, hi, t : QInv(f, v, r, lo, hi, t)
        BY <1>2, <3>2 DEF QueueInv
      <3>4. CASE UNCHANGED vars
        BY <3>2, <3>4 DEF vars, memory, aside, Intact
      <3>5. CASE \E p \in Producers : enqueue(p)
        BY <3>2, <3>3, <3>5, SoleIntact
      <3>6. CASE dequeue \/ Destroy
        BY <3>3, <3>6, ConsumerIntact
      <3> QED BY <1>2, <3>4, <3>5, <3>6 DEF Next
    <2>3. ASSUME Intact' PROVE (\E f, v, r, lo, hi, t : QInv(f, v, r, lo, hi, t))'
      <3>1. Intact
        BY <1>2, <2>3, IntactBefore DEF QueueInv, Owned, Typed
      <3>2. PICK f, v, r, lo, hi, t : QInv(f, v, r, lo, hi, t)
        BY <1>2, <3>1 DEF QueueInv
      <3> QED BY <1>2, <2>3, <3>2, QueueNext
    <2> QED BY <2>1, <2>2, <2>3 DEF QueueInv
  <1> QED BY <1>1, <1>2, PTL DEF Spec

\* Pointers point to nodes and the head to one that is not deleted, whatever addresses are used
\* again; so does the tail while the queue is intact (LockFreeQueue.h:38, 92).
THEOREM TypeCorrect == Spec => []TypeOK
  <1>1. ASSUME QueueInv PROVE TypeOK
    <2>1. Types /\ (~destroyed => head \in allocated)
      BY <1>1 DEF QueueInv, Owned, Typed, Ownership, Chained
    <2>2. ASSUME Intact, ~destroyed PROVE tail \in allocated
      <3>1. PICK f, v, r, lo, hi, t : QInv(f, v, r, lo, hi, t)
        BY <1>1, <2>2 DEF QueueInv
      <3> QED BY <3>1, <2>2, EndsAllocated
    <2> QED BY <2>1, <2>2 DEF Types, TypeOK, Pointers
  <1> QED BY <1>1, QueueInvariant, PTL

\* Where one producer enqueues, no thread follows a pointer to a deleted node, whatever
\* addresses are used again.
THEOREM OneProducerIsSafe == Spec => []SafeWithOneProducer
  <1>1. QueueInv => SafeWithOneProducer
    BY DEF QueueInv, SafeWithOneProducer, NoUseAfterFree, Intact
  <1> QED BY <1>1, QueueInvariant, PTL

\* No object is deleted twice but the one that was dequeued last, by the destructor, whatever
\* addresses are used again and however the list is torn by it.
THEOREM DeletedOnce == Spec => []OnlyLastDeletedTwice
  <1>1. ASSUME QueueInv PROVE OnlyLastDeletedTwice
    <2>1. CASE destroyed
      BY <1>1, <2>1 DEF QueueInv, Owned
    <2>2. CASE ~destroyed
      <3>1. \A x \in Values : deleted[x] = 0 \/ deleted[x] = 1
        BY <1>1, <2>2 DEF QueueInv, Owned, Ownership, Once
      <3> QED BY <3>1 DEF OnlyLastDeletedTwice
    <2> QED BY <2>1, <2>2
  <1> QED BY <1>1, QueueInvariant, PTL

\* The destructor of an intact queue leaves no node and no object.
THEOREM DestructorFreesAll == Spec => []NothingLeaks
  <1>1. ASSUME QueueInv, Intact, destroyed PROVE NothingLeaks
    <2>1. PICK f, v, r, lo, hi, t : QInv(f, v, r, lo, hi, t)
      BY <1>1 DEF QueueInv
    <2> QED BY <2>1, <1>1, Parts DEF Closed
  <1>2. QueueInv => NothingLeaks
    BY <1>1 DEF NothingLeaks
  <1> QED BY <1>2, QueueInvariant, PTL

\* The items that a numbering gives.
LEMMA ContentsNumbered ==
    \A f, v, r, lo, hi, t : QInv(f, v, r, lo, hi, t) =>
        /\ Contents = [i \in 1..(hi - lo) |-> v[lo + i]]
        /\ v \in [Nat -> Values] /\ lo \in Nat /\ hi \in Nat /\ lo <= hi
  <1> SUFFICES ASSUME NEW f, NEW v, NEW r, NEW lo, NEW hi, NEW t, QInv(f, v, r, lo, hi, t)
               PROVE  /\ Contents = [i \in 1..(hi - lo) |-> v[lo + i]]
                      /\ v \in [Nat -> Values] /\ lo \in Nat /\ hi \in Nat /\ lo <= hi
    OBVIOUS
  <1>1. Contents = [i \in 1..(hi - lo) |-> v[lo + i]]
    BY Left
  <1>2. v \in [Nat -> Values]
    BY Bounds
  <1>3. lo \in Nat /\ hi \in Nat /\ lo <= hi
    BY Numbers
  <1> QED BY <1>1, <1>2, <1>3

\* A step on the numbering is a step of the queue of items, or none.
LEMMA ItemsStep ==
    ASSUME NEW v \in [Nat -> Values], NEW lo \in Nat, NEW hi \in Nat, lo <= hi,
           NEW w \in [Nat -> Values], NEW l \in Nat, NEW h \in Nat, l <= h,
           Grown(v, lo, hi, w, l, h),
           Contents = [i \in 1..(hi - lo) |-> v[lo + i]],
           Contents' = [i \in 1..(h - l) |-> w[l + i]]
    PROVE  [Fifo!Next]_Contents
  <1> DEFINE k == hi - lo
  <1>0. k \in Nat /\ lo + k = hi
    OBVIOUS
  <1>c. Contents \in Seq(Values) /\ Len(Contents) = k /\ \A i \in 1..k : Contents[i] = v[lo + i]
    BY <1>0
  <1>1. CASE w = v /\ l = lo /\ h = hi
    BY <1>1
  <1>2. CASE l = lo /\ h = hi + 1 /\ w[h] \in Values /\ \A i \in 1..hi : w[i] = v[i]
    <2> DEFINE s == Append(Contents, w[h])
    <2>1. s \in Seq(Values) /\ Len(s) = k + 1 /\ s[k + 1] = w[h]
          /\ \A i \in 1..k : s[i] = Contents[i]
      BY <1>c, <1>2
    <2>2. h - l = k + 1
      BY <1>2, <1>0
    <2>3. Contents' \in Seq(Values) /\ Len(Contents') = k + 1
          /\ \A i \in 1..(k + 1) : Contents'[i] = w[l + i]
      BY <2>2, <1>0
    <2>4. ASSUME NEW i \in 1..(k + 1) PROVE Contents'[i] = s[i]
      <3>1. CASE i = k + 1
        <4>1. l + i = h
          BY <3>1, <1>2, <1>0
        <4> QED BY <4>1, <3>1, <2>1, <2>3
      <3>2. CASE i # k + 1
        <4>1. i \in 1..k /\ lo + i \in 1..hi /\ l + i = lo + i
          BY <3>2, <1>2, <1>0
        <4> QED BY <4>1, <2>1, <2>3, <1>c, <1>2
      <3> QED BY <3>1, <3>2
    <2> HIDE DEF s
    <2>5. Contents' = s
      BY <2>1, <2>3, <2>4, SeqEqual
    <2>6. Fifo!Enqueue(w[h])
      BY <2>5 DEF Fifo!Enqueue, s
    <2> QED BY <2>6, <1>2 DEF Fifo!Next
  <1>3. CASE w = v /\ h = hi /\ l = lo + 1 /\ lo < hi
    <2>1. k \in Nat \ {0} /\ h - l = k - 1 /\ k - 1 \in Nat
      BY <1>3, <1>0
    <2>2. Contents # <<>>
      BY <1>c, <2>1
    <2> DEFINE s == Tail(Contents)
    <2>3. s \in Seq(Values) /\ Len(s) = k - 1 /\ \A i \in 1..(k - 1) : s[i] = Contents[i + 1]
      <3>1. Contents \in Seq(Values) /\ Len(Contents) = k
        BY <1>c
      <3> HIDE DEF k
      <3>2. /\ Tail(Contents) \in Seq(Values) /\ Len(Tail(Contents)) = k - 1
            /\ \A i \in 1..Len(Tail(Contents)) : Tail(Contents)[i] = Contents[i + 1]
        BY <3>1, <2>2, HeadTailProperties
      <3> QED BY <3>2
    <2>4. Contents' \in Seq(Values) /\ Len(Contents') = k - 1
          /\ \A i \in 1..(k - 1) : Contents'[i] = v[l + i]
      BY <1>3, <2>1
    <2>5. ASSUME NEW i \in 1..(k - 1) PROVE Contents'[i] = s[i]
      <3>1. i + 1 \in 1..k /\ lo + (i + 1) = l + i
        BY <1>3, <1>0
      <3>2. s[i] = Contents[i + 1] /\ Contents[i + 1] = v[lo + (i + 1)]
        BY <3>1, <2>3, <1>c
      <3>3. Contents'[i] = v[l + i]
        BY <2>4
      <3> QED BY <3>1, <3>2, <3>3
    <2> HIDE DEF s
    <2>6. Contents' = s
      <3> HIDE DEF k
      <3> QED BY <2>3, <2>4, <2>5, SeqEqual
    <2> QED BY <2>2, <2>6 DEF Fifo!Next, Fifo!Dequeue, s
  <1> QED BY <1>1, <1>2, <1>3 DEF Grown

\* An intact queue is a FIFO queue: every step of it adds an item at the end, takes the one at
\* the front, or leaves the items alone, whatever the threads do meanwhile.
THEOREM QueueIsFifo == Spec => ImplementsFifo
  <1>1. Init => Fifo!Init
    <2> SUFFICES ASSUME Init PROVE Fifo!Init
      OBVIOUS
    <2>0. head \in Nodes /\ next[head] = Null /\ next = [n \in Nodes |-> Null]
      BY DEF Init
    <2>1. After[head] = <<>>
      <3>1. After = CHOOSE a : a = [n \in Nodes |-> Body(a, n)]
        BY DEF After, Body
      <3>2. \A a : [n \in Nodes |-> Body(a, n)] = [n \in Nodes |-> <<>>]
        BY <2>0 DEF Body
      <3>3. After = [n \in Nodes |-> <<>>]
        BY <3>1, <3>2
      <3> QED BY <2>0, <3>3
    <2>2. Contents = <<>>
      BY <2>1 DEF Contents
    <2> QED BY <2>2 DEF Fifo!Init
  <1> DEFINE Law == \A f, v, r, lo, hi, t : QInv(f, v, r, lo, hi, t) =>
                        /\ Contents = [i \in 1..(hi - lo) |-> v[lo + i]]
                        /\ v \in [Nat -> Values] /\ lo \in Nat /\ hi \in Nat /\ lo <= hi
  <1>2. Law
    BY ContentsNumbered
  <1>3. ASSUME QueueInv, [Next]_vars, Law, Law', Intact' PROVE [Fifo!Next]_Contents
    <2>0. Intact
      BY <1>3, IntactBefore DEF QueueInv, Owned, Typed
    <2>1. PICK f, v, r, lo, hi, t : QInv(f, v, r, lo, hi, t)
      BY <1>3, <2>0 DEF QueueInv
    <2>2. PICK g, w, s, l, h, u : QInv(g, w, s, l, h, u)' /\ Grown(v, lo, hi, w, l, h)
      BY <1>3, <2>1, QueueNext
    <2>3. /\ Contents = [i \in 1..(hi - lo) |-> v[lo + i]]
          /\ v \in [Nat -> Values] /\ lo \in Nat /\ hi \in Nat /\ lo <= hi
      BY <1>3, <2>1
    <2>4. /\ Contents' = [i \in 1..(h - l) |-> w[l + i]]
          /\ w \in [Nat -> Values] /\ l \in Nat /\ h \in Nat /\ l <= h
      BY <1>3, <2>2
    <2> QED BY <2>2, <2>3, <2>4, ItemsStep
  <1> DEFINE Lawful == Intact' => Fifo!Next \/ UNCHANGED Contents
  <1>4. ASSUME QueueInv, [Next]_vars, Law, Law' PROVE Lawful
    BY <1>3, <1>4
  <1>6. Spec => []QueueInv
    BY QueueInvariant
  <1> HIDE DEF Law
  <1> QED BY <1>1, <1>2, <1>4, <1>6, PTL DEF Spec, ImplementsFifo, Lawful

=============================================================================
