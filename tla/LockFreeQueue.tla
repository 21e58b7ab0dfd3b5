--------------------------- MODULE LockFreeQueue ---------------------------
(***************************************************************************)
(* Common/LockFreeQueue.h, one shared-memory access a step.  RecvPakets    *)
(* has several producers (the workers, and the response handler when it    *)
(* removes a client), SendPackets one (the database thread); each has one  *)
(* consumer.  Nodes are deleted by the consumer with no regard to a        *)
(* producer that still holds a pointer to one.                             *)
(*                                                                         *)
(* An access to a deleted node is undefined: the model notes it (misused)  *)
(* and the behaviour ends.  Where Reuse allows it, new may return the      *)
(* address of a deleted node, even one that a producer still holds: its    *)
(* compare-and-swap then takes the new node for the old one.  The model    *)
(* follows this, and notes that it can happen from now on (recycled).      *)
(***************************************************************************)
EXTENDS Naturals, Sequences, FiniteSets

CONSTANTS
    Producers,
    MaxItems,       \* bound of the model: items that one producer enqueues
    Nodes,          \* addresses of nodes
    Null,
    Reuse,          \* new may return an address that was deleted
    Spurious        \* machines other than x86 are considered too

ASSUME QueueAssumption ==
    /\ MaxItems \in Nat \ {0}
    /\ Null \notin Nodes \cup (Producers \X (1..MaxItems))
    /\ IsFiniteSet(Nodes)
    /\ Reuse \in BOOLEAN /\ Spurious \in BOOLEAN

VARIABLES
    head, tail,     \* head_, tail_
    next, data,     \* the fields of each node
    allocated,      \* nodes that are new and not deleted
    used,           \* nodes that were new once
    callers,        \* the producers this queue has
    weak,           \* the machine is one where compare_exchange_weak fails for no reason
    recycled,       \* a new node got an address that a producer still held
    prod,           \* per producer: pc, its node, last, next and items enqueued
    cons,           \* the consumer: pc, first, last, next, data
    deleted,        \* how often the object of each value was deleted
    misused,        \* a deleted node was accessed
    destroyed       \* the destructor has run

memory == <<next, data, allocated, used, deleted, misused>>
aside == <<callers, weak, recycled>>
vars == <<head, tail, memory, aside, prod, cons, destroyed>>

Values == Producers \X (1..MaxItems)

\* SendPackets, on the machines the program is built for
SoleProducer == ~weak /\ \E p \in Producers : callers = {p}

\* No deleted node was accessed, and no address in the hands of a producer was used again.
Intact == ~misused /\ ~recycled

\* the next access of a thread, while there is a next one
At(p, pc) == ~misused /\ prod[p].pc = pc
ConsumerAt(pc) == ~misused /\ cons.pc = pc

\* ->next and ->data of a node
Access(n) == misused' = (misused \/ n \notin allocated)

\* compare_exchange_weak(expected, new): success makes Then true
Fails(unequal) == unequal \/ weak

-----------------------------------------------------------------------------
(* enqueue                                                                 *)

Goto(p, pc) == prod' = [prod EXCEPT ![p].pc = pc]

Fresh == IF Reuse THEN Nodes \ allocated ELSE Nodes \ used

\* the producer has n as the tail it has read, to be accessed or compared with tail_
Holds(p, n) ==
    prod[p].pc \in {"next", "check", "link", "help", "swing"} /\ prod[p].last = n

\* the new node with its object
EnqueueStart(p) ==
    /\ At(p, "idle")
    /\ ~destroyed
    /\ p \in callers
    /\ prod[p].count < MaxItems
    /\ \E n \in Fresh :
          /\ allocated' = allocated \cup {n}
          /\ used' = used \cup {n}
          /\ next' = [next EXCEPT ![n] = Null]
          /\ data' = [data EXCEPT ![n] = <<p, prod[p].count + 1>>]
          /\ prod' = [prod EXCEPT ![p].pc = "tail", ![p].node = n, ![p].count = @ + 1]
          /\ recycled' = (recycled \/ \E q \in Producers : Holds(q, n))
    /\ UNCHANGED <<head, tail, cons, deleted, misused, callers, weak, destroyed>>

LoadTail(p) ==
    /\ At(p, "tail")
    /\ prod' = [prod EXCEPT ![p].pc = "next", ![p].last = tail]
    /\ UNCHANGED <<head, tail, memory, cons, aside, destroyed>>

LoadNext(p) ==
    /\ At(p, "next")
    /\ Access(prod[p].last)
    /\ prod' = [prod EXCEPT ![p].pc = "check", ![p].next = next[prod[p].last]]
    /\ UNCHANGED <<head, tail, next, data, allocated, used, deleted, cons, aside, destroyed>>

CheckTail(p) ==
    /\ At(p, "check")
    /\ Goto(p, IF prod[p].last # tail THEN "tail"
               ELSE IF prod[p].next = Null THEN "link" ELSE "help")
    /\ UNCHANGED <<head, tail, memory, cons, aside, destroyed>>

\* Mutant: the node is linked by a store, over a node linked meanwhile.
LinkByStore(p) ==
    /\ At(p, "link")
    /\ Access(prod[p].last)
    /\ next' = [next EXCEPT ![prod[p].last] = prod[p].node]
    /\ Goto(p, "swing")
    /\ UNCHANGED <<head, tail, data, allocated, used, deleted, cons, aside, destroyed>>

\* last->next.compare_exchange_weak(next, new_node)
Link(p) ==
    LET last == prod[p].last IN
    /\ At(p, "link")
    /\ Access(last)
    /\ \/ /\ next[last] = Null
          /\ next' = [next EXCEPT ![last] = prod[p].node]
          /\ Goto(p, "swing")
       \/ /\ Fails(next[last] # Null)
          /\ UNCHANGED next
          /\ Goto(p, "tail")
    /\ UNCHANGED <<head, tail, data, allocated, used, deleted, cons, aside, destroyed>>

\* tail_.compare_exchange_weak(last, new); in "swing" new is the node, in "help" last's next
MoveTail(p, pc, new, then) ==
    /\ At(p, pc)
    /\ \/ tail = prod[p].last /\ tail' = new
       \/ Fails(tail # prod[p].last) /\ UNCHANGED tail
    /\ Goto(p, then)
    /\ UNCHANGED <<head, memory, cons, aside, destroyed>>

Swing(p) == MoveTail(p, "swing", prod[p].node, "idle")
Help(p) == MoveTail(p, "help", prod[p].next, "tail")

enqueue(p) == \/ EnqueueStart(p) \/ LoadTail(p) \/ LoadNext(p) \/ CheckTail(p)
              \/ Link(p) \/ Swing(p) \/ Help(p)

-----------------------------------------------------------------------------
(* dequeue                                                                 *)

DequeueStart ==
    /\ ConsumerAt("idle")
    /\ ~destroyed
    /\ cons' = [cons EXCEPT !.pc = "tail", !.first = head]
    /\ UNCHANGED <<head, tail, memory, prod, aside, destroyed>>

DequeueLoadTail ==
    /\ ConsumerAt("tail")
    /\ cons' = [cons EXCEPT !.pc = "next", !.last = tail]
    /\ UNCHANGED <<head, tail, memory, prod, aside, destroyed>>

DequeueLoadNext ==
    /\ ConsumerAt("next")
    /\ Access(cons.first)
    /\ cons' = [cons EXCEPT !.pc = "check", !.next = next[cons.first]]
    /\ UNCHANGED <<head, tail, next, data, allocated, used, deleted, prod, aside, destroyed>>

\* Mutant: the consumer does not help a tail that lags, and overtakes it.
CheckHeadOnly ==
    /\ ConsumerAt("check")
    /\ cons' = [cons EXCEPT !.pc = IF cons.next = Null THEN "idle" ELSE "data"]
    /\ UNCHANGED <<head, tail, memory, prod, aside, destroyed>>

\* one consumer: head_ is still first
CheckHead ==
    /\ ConsumerAt("check")
    /\ cons' = [cons EXCEPT !.pc =
          IF cons.first = cons.last THEN IF cons.next = Null THEN "idle" ELSE "help"
          ELSE IF cons.next = Null THEN "idle" ELSE "data"]
    /\ UNCHANGED <<head, tail, memory, prod, aside, destroyed>>

HelpTail ==
    /\ ConsumerAt("help")
    /\ \/ tail = cons.last /\ tail' = cons.next
       \/ Fails(tail # cons.last) /\ UNCHANGED tail
    /\ cons' = [cons EXCEPT !.pc = "idle"]
    /\ UNCHANGED <<head, memory, prod, aside, destroyed>>

LoadData ==
    /\ ConsumerAt("data")
    /\ Access(cons.next)
    /\ cons' = IF data[cons.next] = Null THEN [cons EXCEPT !.pc = "idle"]
               ELSE [cons EXCEPT !.pc = "head", !.data = data[cons.next]]
    /\ UNCHANGED <<head, tail, next, data, allocated, used, deleted, prod, aside, destroyed>>

\* Mutant: the result of the compare-and-swap of the head is not looked at.
MoveHeadUnchecked ==
    /\ ConsumerAt("head")
    /\ \/ head' = cons.next
       \/ Fails(FALSE) /\ UNCHANGED head
    /\ cons' = [cons EXCEPT !.pc = "delete"]
    /\ UNCHANGED <<tail, memory, prod, aside, destroyed>>

MoveHead ==
    /\ ConsumerAt("head")
    /\ \/ head' = cons.next /\ cons' = [cons EXCEPT !.pc = "delete"]
       \/ Fails(FALSE) /\ UNCHANGED head /\ cons' = [cons EXCEPT !.pc = "idle"]
    /\ UNCHANGED <<tail, memory, prod, aside, destroyed>>

\* Mutant: the new first node is deleted instead of the old one.
DeleteNext ==
    /\ ConsumerAt("delete")
    /\ deleted' = [deleted EXCEPT ![cons.data] = @ + 1]
    /\ allocated' = allocated \ {cons.next}
    /\ cons' = [cons EXCEPT !.pc = "idle"]
    /\ UNCHANGED <<head, tail, next, data, used, misused, prod, aside, destroyed>>

\* Mutant: only the node is deleted, not the object of the item.
DeleteNodeOnly ==
    /\ ConsumerAt("delete")
    /\ allocated' = allocated \ {cons.first}
    /\ cons' = [cons EXCEPT !.pc = "idle"]
    /\ UNCHANGED <<head, tail, next, data, used, deleted, misused, prod, aside, destroyed>>

\* delete data; delete first.  The new first node keeps its pointer to the object.
Delete ==
    /\ ConsumerAt("delete")
    /\ deleted' = [deleted EXCEPT ![cons.data] = @ + 1]
    /\ allocated' = allocated \ {cons.first}
    /\ cons' = [cons EXCEPT !.pc = "idle"]
    /\ UNCHANGED <<head, tail, next, data, used, misused, prod, aside, destroyed>>

dequeue == \/ DequeueStart \/ DequeueLoadTail \/ DequeueLoadNext \/ CheckHead
           \/ HelpTail \/ LoadData \/ MoveHead \/ Delete

-----------------------------------------------------------------------------
(* The destructor: no thread is inside the queue.                          *)

\* what is behind a node: the nodes linked after it
After[n \in Nodes] == IF next[n] = Null THEN <<>> ELSE <<next[n]>> \o After[next[n]]

\* the nodes in reach of head
Remaining ==
    {n \in Nodes : \A S \in SUBSET Nodes :
        head \in S /\ (\A m \in S : next[m] = Null \/ next[m] \in S) => n \in S}

\* every node left, the first one with the object it may still point to; a deleted node in
\* reach, or a list that leads back into itself, makes it access a deleted node
Destroy ==
    /\ ~destroyed
    /\ ConsumerAt("idle") /\ \A p \in Producers : At(p, "idle")
    /\ deleted' = [v \in Values |->
          IF \E n \in Remaining : data[n] = v THEN deleted[v] + 1 ELSE deleted[v]]
    /\ allocated' = allocated \ Remaining
    /\ misused' = (misused \/ ~(Remaining \subseteq allocated)
                           \/ \A n \in Remaining : next[n] # Null)
    /\ destroyed' = TRUE
    /\ UNCHANGED <<head, tail, next, data, used, aside, prod, cons>>

-----------------------------------------------------------------------------
Init ==
    \E dummy \in Nodes :
        /\ head = dummy /\ tail = dummy
        /\ next = [n \in Nodes |-> Null]
        /\ data = [n \in Nodes |-> Null]
        /\ allocated = {dummy} /\ used = {dummy}
        /\ callers \in (SUBSET Producers) \ {{}}
        /\ weak \in {FALSE, Spurious}
        /\ recycled = FALSE
        /\ prod = [p \in Producers |-> [pc |-> "idle", node |-> Null, last |-> Null,
                                        next |-> Null, count |-> 0]]
        /\ cons = [pc |-> "idle", first |-> Null, last |-> Null, next |-> Null,
                    data |-> Null]
        /\ deleted = [v \in Values |-> 0]
        /\ misused = FALSE
        /\ destroyed = FALSE

Next == (\E p \in Producers : enqueue(p)) \/ dequeue \/ Destroy

Spec == Init /\ [][Next]_vars
-----------------------------------------------------------------------------
\* Pointers point to nodes, and the ends of the list are not deleted, the tail unless an address
\* that a producer held was used again (LockFreeQueue.h:38, 92): a delayed compare-and-swap
\* may then take the tail to the node behind one that is gone.
TypeOK ==
    /\ allocated \subseteq used /\ used \subseteq Nodes
    /\ next \in [Nodes -> Nodes \cup {Null}]
    /\ data \in [Nodes -> Values \cup {Null}]
    /\ recycled \in BOOLEAN
    /\ ~destroyed => head \in allocated /\ (Intact => tail \in allocated)

\* No thread follows a pointer to a node that the consumer has deleted
\* (LockFreeQueue.h:44-46).
NoUseAfterFree == ~misused

\* With one producer none does: the tail it has read stays the tail as long as it has not
\* moved it itself, which on x86 it does at once.
SafeWithOneProducer == SoleProducer => NoUseAfterFree

\* An object is deleted once, by the dequeue that returns it or by the destructor that
\* finds it (LockFreeQueue.h:26), except the one dequeued last: the node that became the
\* first one still points to it, and the destructor deletes it again.
OnlyLastDeletedTwice ==
    \A v \in Values : deleted[v] > 1 => deleted[v] = 2 /\ destroyed /\ data[head] = v

\* Once the destructor has run no node and no object is left, unless an address that a
\* producer held was used again.
NothingLeaks ==
    Intact /\ destroyed =>
        /\ allocated = {}
        /\ \A p \in Producers, i \in 1..MaxItems :
              i <= prod[p].count => deleted[<<p, i>>] >= 1

Contents == [i \in DOMAIN After[head] |-> data[After[head][i]]]
Fifo == INSTANCE FifoQueue WITH items <- Contents

\* Items leave in the order in which their nodes were linked, none lost or twice, as long as
\* no address that a producer holds is used again.
ImplementsFifo == Fifo!Init /\ [][Intact' => Fifo!Next \/ UNCHANGED Contents]_vars
=============================================================================
