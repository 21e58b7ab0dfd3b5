-------------------------- MODULE ClientListProofs --------------------------
(***************************************************************************)
(* Proofs about ClientList, for any number of clients.                     *)
(*                                                                         *)
(* Pointers says that nobody knows a node that is not on the list yet,     *)
(* Counts how _client_count follows what happens to the nodes.  Both hold  *)
(* whatever overlaps.  While removals exclude each other, some set of live *)
(* nodes holds the list (Sound); while additions and removals exclude each *)
(* other, the list is a known chain of nodes at every point of an addition *)
(* or removal (Tracked).                                                   *)
(***************************************************************************)
EXTENDS ClientList, FiniteSetTheorems, WellFoundedInduction, TLAPS

AcceptPcs == {"idle", "load", "head", "tail", "one", "next", "check", "link", "help", "swing",
              "more"}
AcceptRecord == [pc : AcceptPcs, client : Links, last : Links, next : Links]
ThreadRecord == [pc : Pcs, target : Links, prev : Links, current : Links, next : Links]

\* AddClient has a node that is not on the list yet
Preparing == accept.pc \in {"load", "head", "next", "check", "link", "help"}
\* the nodes that are on no list yet
Unlinked == {c \in Clients : state[c] = "new" \/ (Preparing /\ c = accept.client)}

Fields ==
    /\ head \in Links /\ tail \in Links /\ count \in Int
    /\ next \in [Clients -> Links]
    /\ state \in [Clients -> {"new", "live", "gone"}]
    /\ accept \in AcceptRecord
    /\ thread \in [Threads -> ThreadRecord]
    /\ found \subseteq Clients /\ misused \in BOOLEAN

Types == Fields /\ clash \subseteq Kinds /\ Overlaps \subseteq clash

\* No pointer leads to an unlinked node, or from it.
Untouched ==
    /\ head \notin Unlinked /\ tail \notin Unlinked
    /\ \A n \in Clients : next[n] \notin Unlinked
    /\ \A n \in Unlinked : next[n] = NoClient
    /\ accept.last \notin Unlinked /\ accept.next \notin Unlinked
    /\ \A t \in Threads : /\ thread[t].prev \notin Unlinked
                          /\ thread[t].current \notin Unlinked
                          /\ thread[t].next \notin Unlinked

AcceptKnows ==
    /\ accept.pc # "idle" => accept.client \in Clients /\ state[accept.client] # "new"
    /\ Preparing => state[accept.client] = "live"
    /\ accept.pc \in {"next", "check", "link", "help", "swing"} => accept.last \in Clients
    /\ accept.pc = "help" => accept.next \in Clients

ThreadKnows(t) ==
    /\ thread[t].pc \in {"unlink", "empty", "end", "retract", "delete", "less"} =>
          thread[t].current \in Clients
    /\ thread[t].pc \in {"end", "retract"} => thread[t].prev \in Clients

Pointers == Types /\ Untouched /\ AcceptKnows /\ \A t \in Threads : ThreadKnows(t)

-----------------------------------------------------------------------------
(* Types.                                                                  *)

\* Each step of the accept thread keeps the types.
LEMMA AcceptFields == ASSUME Fields, AcceptKnows, Accept PROVE Fields'
  <1>0. /\ head \in Links /\ tail \in Links /\ count \in Int
        /\ next \in [Clients -> Links]
        /\ state \in [Clients -> {"new", "live", "gone"}]
        /\ accept \in AcceptRecord
        /\ thread \in [Threads -> ThreadRecord]
        /\ found \subseteq Clients /\ misused \in BOOLEAN
    BY DEF Fields
  <1>1. ASSUME NEW c \in Clients, AddStart(c) PROVE Fields'
    BY <1>0, <1>1 DEF AddStart, Fields, AcceptRecord, AcceptPcs, Links
  <1>2. ASSUME LoadTail PROVE Fields'
    BY <1>0, <1>2 DEF LoadTail, memory, Fields, AcceptRecord, AcceptPcs
  <1>3. ASSUME StoreHead PROVE Fields'
    BY <1>0, <1>3 DEF StoreHead, Fields, AcceptRecord, AcceptPcs
  <1>4. ASSUME StoreTail PROVE Fields'
    BY <1>0, <1>4 DEF StoreTail, Fields, AcceptRecord, AcceptPcs
  <1>5. ASSUME StoreCount PROVE Fields'
    BY <1>0, <1>5 DEF StoreCount, Fields, NoAddition, AcceptRecord, AcceptPcs, Links
  <1>6. ASSUME LoadNext PROVE Fields'
    BY <1>0, <1>6 DEF LoadNext, Fields, Access, AcceptKnows, AcceptRecord, AcceptPcs
  <1>7. ASSUME CheckTail PROVE Fields'
    BY <1>0, <1>7 DEF CheckTail, memory, Fields, AcceptRecord, AcceptPcs
  <1>8. ASSUME Link PROVE Fields'
    BY <1>0, <1>8 DEF Link, Fields, Access, AcceptRecord, AcceptPcs
  <1>9. ASSUME Swing PROVE Fields'
    BY <1>0, <1>9 DEF Swing, MoveTail, Fields, AcceptRecord, AcceptPcs
  <1>10. ASSUME Help PROVE Fields'
    BY <1>0, <1>10 DEF Help, MoveTail, Fields, AcceptRecord, AcceptPcs
  <1>11. ASSUME AddToCount PROVE Fields'
    BY <1>0, <1>11 DEF AddToCount, Fields, NoAddition, AcceptRecord, AcceptPcs, Links
  <1> QED
    BY <1>1, <1>2, <1>3, <1>4, <1>5, <1>6, <1>7, <1>8, <1>9, <1>10, <1>11
       DEF Accept, AddClient

\* Each step of a removal keeps the types.
LEMMA RemovalFields ==
    ASSUME Fields, NEW t \in Threads, ThreadKnows(t), RemoveSocketFromList(t) PROVE Fields'
  <1>0. /\ head \in Links /\ tail \in Links /\ count \in Int
        /\ next \in [Clients -> Links]
        /\ state \in [Clients -> {"new", "live", "gone"}]
        /\ accept \in AcceptRecord
        /\ thread \in [Threads -> ThreadRecord]
        /\ found \subseteq Clients /\ misused \in BOOLEAN
        /\ NoClient \in Links
    BY DEF Fields, Links
  <1>r. thread[t] \in ThreadRecord
    BY <1>0
  <1>1. ASSUME Look(t) PROVE Fields'
    <2>1. CASE thread[t].current = NoClient
      BY <1>0, <1>1, <2>1 DEF Look, Return, Resting, Fields, ThreadRecord, Pcs
    <2>2. CASE thread[t].current # NoClient
      <3>1. /\ thread[t].current \in Clients
            /\ next[thread[t].current] \in Links /\ misused' \in BOOLEAN
            /\ UNCHANGED <<head, tail, count, next, state, accept, found>>
        BY <1>0, <1>1, <1>r, <2>2 DEF Look, Access, ThreadRecord, Links
      <3>2. CASE thread[t].current = thread[t].target
        <4>1. thread' = [thread EXCEPT ![t] = [thread[t] EXCEPT !.pc = "unlink",
                                                  !.next = next[thread[t].current]]]
          BY <1>0, <1>1, <2>2, <3>2 DEF Look
        <4> QED BY <1>0, <1>r, <3>1, <4>1 DEF Fields, ThreadRecord, Pcs
      <3>3. CASE thread[t].current # thread[t].target
        <4>1. thread' = [thread EXCEPT ![t] = [thread[t] EXCEPT !.prev = thread[t].current,
                                                  !.current = next[thread[t].current]]]
          BY <1>0, <1>1, <2>2, <3>3 DEF Look
        <4> QED BY <1>0, <1>r, <3>1, <4>1 DEF Fields, ThreadRecord
      <3> QED BY <3>2, <3>3
    <2> QED BY <2>1, <2>2
  <1>2. ASSUME UnlinkFirst(t) PROVE Fields'
    BY <1>0, <1>r, <1>2 DEF UnlinkFirst, Goto, Fields, ThreadRecord, Pcs
  <1>3. ASSUME UnlinkLater(t) PROVE Fields'
    BY <1>0, <1>r, <1>3 DEF UnlinkLater, Access, Goto, Fields, ThreadRecord, Pcs, Links
  <1>4. ASSUME StepOn(t) PROVE Fields'
    <2> DEFINE r == [thread[t] EXCEPT !.pc = "look", !.prev = thread[t].current,
                                      !.current = NextOf(thread[t].current)]
    <2>1. misused' \in BOOLEAN /\ UNCHANGED <<head, tail, count, next, state, accept, found>>
      BY <1>0, <1>4 DEF StepOn, Access
    <2>2. thread' = [thread EXCEPT ![t] = r]
      BY <1>0, <1>4 DEF StepOn
    <2>3. NextOf(thread[t].current) \in Links
      BY <1>0, <1>r DEF NextOf, Links, ThreadRecord
    <2>4. r \in ThreadRecord
      BY <1>r, <2>3 DEF ThreadRecord, Pcs
    <2> HIDE DEF r
    <2> QED BY <1>0, <2>1, <2>2, <2>4 DEF Fields
  <1>5. ASSUME ClearTail(t) PROVE Fields'
    BY <1>0, <1>r, <1>5 DEF ClearTail, Goto, Fields, ThreadRecord, Pcs
  <1>6. ASSUME TestTail(t) PROVE Fields'
    BY <1>0, <1>r, <1>6 DEF TestTail, memory, Goto, Fields, ThreadRecord, Pcs
  <1>7. ASSUME RetractTail(t) PROVE Fields'
    BY <1>0, <1>r, <1>7 DEF RetractTail, Goto, Fields, ThreadRecord, Pcs
  <1>8. ASSUME DeleteNode(t) PROVE Fields'
    BY <1>0, <1>r, <1>8 DEF DeleteNode, Access, Goto, Fields, ThreadRecord, Pcs
  <1>9. ASSUME SubFromCount(t) PROVE Fields'
    BY <1>0, <1>r, <1>9 DEF SubFromCount, Return, Resting, Fields, ThreadRecord, Pcs
  <1> QED
    BY <1>1, <1>2, <1>3, <1>4, <1>5, <1>6, <1>7, <1>8, <1>9 DEF RemoveSocketFromList

-----------------------------------------------------------------------------
(* What a step does to the place and the pointers of the thread that takes *)
(* it.                                                                     *)

\* thread t goes to pc with these pointers; the other one stays where it is
Goes(t, pc, prev, current, then) ==
    /\ thread'[t].pc = pc /\ thread'[t].prev = prev
    /\ thread'[t].current = current /\ thread'[t].next = then
    /\ \A u \in Threads : u # t => thread'[u] = thread[u]

\* thread t goes to pc and keeps its pointers
Only(t, pc) == Goes(t, pc, thread[t].prev, thread[t].current, thread[t].next)

\* A new place of one thread.
LEMMA NewPlace ==
    ASSUME NEW t \in Threads, thread \in [Threads -> ThreadRecord], NEW pc \in Pcs, Goto(t, pc)
    PROVE  Only(t, pc)
  <1>1. thread[t] \in ThreadRecord
    OBVIOUS
  <1> QED BY <1>1 DEF Only, Goes, Goto, ThreadRecord

\* Where a removal returns to.
Home(t) == IF t = Worker THEN "turn" ELSE "idle"

\* A removal that ends.
LEMMA Returns ==
    ASSUME NEW t \in Threads, thread \in [Threads -> ThreadRecord], Return(t)
    PROVE  Goes(t, Home(t), NoClient, NoClient, NoClient)
  BY DEF Return, Resting, Goes, Home

\* A removal that begins.
LEMMA Starts ==
    ASSUME NEW t \in Threads, NEW c, thread \in [Threads -> ThreadRecord], StartRemoval(t, c)
    PROVE  Goes(t, "look", NoClient, head, NoClient)
  BY DEF StartRemoval, Goes

\* A node of the list is looked at: none is left, it is the one, or it is passed.
LEMMA LookForms ==
    ASSUME Fields, NEW t \in Threads, Look(t)
    PROVE  LET n == thread[t].current IN
           /\ thread[t].pc = "look"
           /\ UNCHANGED <<head, tail, count, next, state, accept, found>>
           /\ \/ /\ n = NoClient /\ misused' = misused
                 /\ Goes(t, Home(t), NoClient, NoClient, NoClient)
              \/ /\ n \in Clients /\ Access(n)
                 /\ Goes(t, "unlink", thread[t].prev, n, next[n])
              \/ /\ n \in Clients /\ Access(n)
                 /\ Goes(t, "look", n, next[n], thread[t].next)
  <1>0. /\ thread \in [Threads -> ThreadRecord] /\ thread[t] \in ThreadRecord
        /\ thread[t].pc = "look"
        /\ UNCHANGED <<head, tail, count, next, state, accept, found>>
    BY DEF Fields, Look
  <1>1. CASE thread[t].current = NoClient
    <2>1. Return(t) /\ misused' = misused
      BY <1>1 DEF Look
    <2> QED BY <1>0, <1>1, <2>1, Returns
  <1>2. CASE thread[t].current # NoClient
    <2>1. thread[t].current \in Clients /\ Access(thread[t].current)
      BY <1>0, <1>2 DEF Look, ThreadRecord, Links
    <2>2. CASE thread[t].current = thread[t].target
      <3>1. thread' = [thread EXCEPT ![t] = [thread[t] EXCEPT !.pc = "unlink",
                                                !.next = next[thread[t].current]]]
        BY <1>0, <1>2, <2>2 DEF Look
      <3>2. Goes(t, "unlink", thread[t].prev, thread[t].current, next[thread[t].current])
        BY <1>0, <3>1 DEF Goes, ThreadRecord
      <3> QED BY <1>0, <2>1, <3>2
    <2>3. CASE thread[t].current # thread[t].target
      <3>1. thread' = [thread EXCEPT ![t] = [thread[t] EXCEPT !.prev = thread[t].current,
                                                !.current = next[thread[t].current]]]
        BY <1>0, <1>2, <2>3 DEF Look
      <3>2. Goes(t, "look", thread[t].current, next[thread[t].current], thread[t].next)
        BY <1>0, <3>1 DEF Goes, ThreadRecord
      <3> QED BY <1>0, <2>1, <3>2
    <2> QED BY <2>2, <2>3
  <1> QED BY <1>1, <1>2

\* The compare-and-swap on the head succeeds or not.
LEMMA UnlinkFirstForms ==
    ASSUME Fields, NEW t \in Threads, UnlinkFirst(t)
    PROVE  LET n == thread[t].current
               then == thread[t].next
           IN
           /\ thread[t].pc = "unlink" /\ thread[t].prev = NoClient
           /\ UNCHANGED <<tail, count, next, state, misused, accept, found>>
           /\ \/ /\ head = n /\ head' = then
                 /\ Only(t, IF then = NoClient THEN "empty" ELSE "delete")
              \/ /\ head # n /\ head' = head
                 /\ Goes(t, "step", NoClient, head, then)
  <1>0. /\ thread \in [Threads -> ThreadRecord] /\ thread[t] \in ThreadRecord
        /\ thread[t].pc = "unlink" /\ thread[t].prev = NoClient
        /\ UNCHANGED <<tail, count, next, state, misused, accept, found>>
    BY DEF Fields, UnlinkFirst
  <1>1. CASE head = thread[t].current
    <2>1. head' = thread[t].next
          /\ Goto(t, IF thread[t].next = NoClient THEN "empty" ELSE "delete")
      BY <1>1 DEF UnlinkFirst
    <2>2. (IF thread[t].next = NoClient THEN "empty" ELSE "delete") \in Pcs
      BY DEF Pcs
    <2>3. Only(t, IF thread[t].next = NoClient THEN "empty" ELSE "delete")
      BY <1>0, <2>1, <2>2, NewPlace
    <2> QED BY <1>0, <1>1, <2>1, <2>3
  <1>2. CASE head # thread[t].current
    <2>1. head' = head
          /\ thread' = [thread EXCEPT ![t].pc = "step", ![t].current = head]
      BY <1>2 DEF UnlinkFirst
    <2>2. Goes(t, "step", NoClient, head, thread[t].next)
      BY <1>0, <2>1 DEF Goes, ThreadRecord
    <2> QED BY <1>0, <1>2, <2>1, <2>2
  <1> QED BY <1>1, <1>2

\* So does that on the node before.
LEMMA UnlinkLaterForms ==
    ASSUME Fields, NEW t \in Threads, UnlinkLater(t)
    PROVE  LET n == thread[t].current
               prev == thread[t].prev
               then == thread[t].next
           IN
           /\ thread[t].pc = "unlink" /\ prev \in Clients /\ Access(prev)
           /\ UNCHANGED <<head, tail, count, state, accept, found>>
           /\ \/ /\ next[prev] = n /\ next' = [next EXCEPT ![prev] = then]
                 /\ Only(t, "end")
              \/ /\ next[prev] # n /\ next' = next
                 /\ Goes(t, "step", prev, next[prev], then)
  <1>0. /\ thread \in [Threads -> ThreadRecord] /\ thread[t] \in ThreadRecord
        /\ thread[t].pc = "unlink" /\ thread[t].prev # NoClient /\ Access(thread[t].prev)
        /\ UNCHANGED <<head, tail, count, state, accept, found>>
    BY DEF Fields, UnlinkLater
  <1>p. thread[t].prev \in Clients
    BY <1>0 DEF ThreadRecord, Links
  <1>1. CASE next[thread[t].prev] = thread[t].current
    <2>1. next' = [next EXCEPT ![thread[t].prev] = thread[t].next] /\ Goto(t, "end")
      BY <1>1 DEF UnlinkLater
    <2>3. Only(t, "end")
      BY <1>0, <2>1, NewPlace DEF Pcs
    <2> QED BY <1>0, <1>p, <1>1, <2>1, <2>3
  <1>2. CASE next[thread[t].prev] # thread[t].current
    <2>1. next' = next
          /\ thread' = [thread EXCEPT ![t].pc = "step", ![t].current = next[thread[t].prev]]
      BY <1>2 DEF UnlinkLater
    <2>2. Goes(t, "step", thread[t].prev, next[thread[t].prev], thread[t].next)
      BY <1>0, <2>1 DEF Goes, ThreadRecord
    <2> QED BY <1>0, <1>p, <1>2, <2>1, <2>2
  <1> QED BY <1>1, <1>2

\* The rest of a removal, from the unlinked node to the counter.
LEMMA RemovalForms ==
    ASSUME Fields, NEW t \in Threads
    PROVE  LET n == thread[t].current IN
           /\ StepOn(t) => /\ thread[t].pc = "step" /\ Access(n)
                           /\ UNCHANGED <<head, tail, count, next, state, accept, found>>
                           /\ Goes(t, "look", n, NextOf(n), thread[t].next)
           /\ ClearTail(t) => /\ thread[t].pc = "empty" /\ tail' = NoClient
                              /\ Only(t, "delete")
           /\ TestTail(t) => /\ thread[t].pc = "end"
                             /\ UNCHANGED <<memory, accept, found>>
                             /\ Only(t, IF tail = n THEN "retract" ELSE "delete")
           /\ RetractTail(t) => /\ thread[t].pc = "retract" /\ tail' = thread[t].prev
                                /\ Only(t, "delete")
           /\ DeleteNode(t) => /\ thread[t].pc = "delete" /\ Access(n)
                               /\ state' = [state EXCEPT ![n] = "gone"]
                               /\ Only(t, "less")
           /\ SubFromCount(t) => /\ thread[t].pc = "less" /\ count' = count - 1
                                 /\ Goes(t, Home(t), NoClient, NoClient, NoClient)
  <1>0. /\ thread \in [Threads -> ThreadRecord] /\ thread[t] \in ThreadRecord
        /\ {"delete", "retract", "less"} \subseteq Pcs
    BY DEF Fields, Pcs
  <1>1. ASSUME StepOn(t)
        PROVE  Goes(t, "look", thread[t].current, NextOf(thread[t].current), thread[t].next)
    <2>1. thread' = [thread EXCEPT ![t].pc = "look", ![t].prev = thread[t].current,
                                   ![t].current = NextOf(thread[t].current)]
      BY <1>1 DEF StepOn
    <2> QED BY <1>0, <2>1 DEF Goes, ThreadRecord
  <1>2. ClearTail(t) => Only(t, "delete")
    BY <1>0, NewPlace DEF ClearTail
  <1>3. TestTail(t) => Only(t, IF tail = thread[t].current THEN "retract" ELSE "delete")
    BY <1>0, NewPlace DEF TestTail
  <1>4. RetractTail(t) => Only(t, "delete")
    BY <1>0, NewPlace DEF RetractTail
  <1>5. DeleteNode(t) => Only(t, "less")
    BY <1>0, NewPlace DEF DeleteNode
  <1>6. SubFromCount(t) => Goes(t, Home(t), NoClient, NoClient, NoClient)
    BY <1>0, Returns DEF SubFromCount
  <1> QED
    BY <1>1, <1>2, <1>3, <1>4, <1>5, <1>6
       DEF StepOn, ClearTail, TestTail, RetractTail, DeleteNode, SubFromCount

\* What a thread does that removes nothing: it goes to a place where it looks at no node, or
\* begins to look from the head, or goes on to the next node of its walk.
Stroll(t) ==
    LET here == thread[t]
        then == thread'[t]
    IN
    /\ UNCHANGED <<head, tail, count, next, state, accept>>
    /\ ~Removing(t)
    /\ \A u \in Threads : u # t => thread'[u] = thread[u]
    /\ then.pc \in {"idle", "turn", "copy", "has", "send", "look"}
    /\ then.prev \in {NoClient, here.prev} /\ then.next \in {NoClient, here.next}
    /\ \/ then.pc \in {"copy", "has"} /\ misused' = misused /\ then.current = head
       \/ then.pc = "look" /\ misused' = misused /\ then.prev = NoClient /\ then.current = head
       \/ /\ Walking(t) /\ here.current \in Clients /\ Access(here.current)
          /\ then.pc \in {"copy", "has"} /\ then.current = next[here.current]
       \/ /\ Walking(t) /\ here.current \in Clients /\ Access(here.current)
          /\ then.pc = "send" /\ then.current = here.current
       \/ /\ then.pc \in {"idle", "turn"} /\ misused' = misused
          /\ then.current \in {NoClient, here.current}

StrollAction ==
    \/ CopyStart \/ Copy \/ Select \/ TurnEnds
    \/ \E c \in Clients : DropClient(c) \/ HasStart(c)
    \/ HasClient \/ Send \/ SendFails

\* The actions of the worker and the handler outside removals are of this kind.
LEMMA Strolls ==
    ASSUME Fields, StrollAction
    PROVE  Fields' /\ \E t \in Threads : Stroll(t)
  <1>0. /\ head \in Links /\ next \in [Clients -> Links]
        /\ thread \in [Threads -> ThreadRecord]
        /\ Worker \in Threads /\ Handler \in Threads /\ Worker # Handler
        /\ thread[Worker] \in ThreadRecord /\ thread[Handler] \in ThreadRecord
        /\ NoClient \in Links /\ Clients \subseteq Links
        /\ {"idle", "turn", "copy", "has", "send", "look"} \subseteq Pcs
        /\ found \subseteq Clients /\ misused \in BOOLEAN
    BY ListAssumption DEF Fields, Threads, Links, Pcs
  <1>1. ASSUME CopyStart PROVE Fields' /\ Stroll(Worker)
    <2>1. thread' = [thread EXCEPT ![Worker].pc = "copy", ![Worker].current = head]
          /\ UNCHANGED <<memory, accept, found>> /\ thread[Worker].pc = "idle"
      BY <1>1 DEF CopyStart
    <2>2. Goes(Worker, "copy", thread[Worker].prev, head, thread[Worker].next)
          /\ thread' \in [Threads -> ThreadRecord]
      BY <1>0, <2>1 DEF Goes, ThreadRecord
    <2> QED BY <2>1, <2>2 DEF Stroll, Goes, Removing, memory, Fields
  <1>2. ASSUME Copy PROVE Fields' /\ Stroll(Worker)
    <2>1. /\ thread' = [thread EXCEPT ![Worker].current = next[thread[Worker].current]]
          /\ UNCHANGED <<head, tail, count, next, state, accept>>
          /\ thread[Worker].pc = "copy" /\ thread[Worker].current \in Clients
          /\ Access(thread[Worker].current)
          /\ found' = found \cup {thread[Worker].current}
      BY <1>0, <1>2 DEF Copy, ThreadRecord, Links
    <2>2. /\ Goes(Worker, "copy", thread[Worker].prev, next[thread[Worker].current],
                  thread[Worker].next)
          /\ thread' \in [Threads -> ThreadRecord]
      BY <1>0, <2>1 DEF Goes, ThreadRecord
    <2>3. misused' \in BOOLEAN
      BY <1>0, <2>1 DEF Access
    <2> QED BY <2>1, <2>2, <2>3 DEF Stroll, Goes, Removing, Walking, Fields
  <1>3. ASSUME NEW t \in Threads, NEW pc \in {"idle", "turn"}, Goto(t, pc), ~Removing(t),
               UNCHANGED <<memory, accept>>, found' \subseteq Clients
        PROVE  Fields' /\ Stroll(t)
    <2>1. Only(t, pc)
      BY <1>0, <1>3, NewPlace
    <2>2. thread' \in [Threads -> ThreadRecord]
      BY <1>0, <1>3 DEF Goto, ThreadRecord
    <2> QED BY <1>3, <2>1, <2>2 DEF Stroll, Only, Goes, memory, Fields
  <1>4. ASSUME Select PROVE Fields' /\ Stroll(Worker)
    <2>1. CASE Goto(Worker, "turn") /\ UNCHANGED found
      BY <1>0, <1>3, <1>4, <2>1 DEF Select, Removing
    <2>2. CASE Goto(Worker, "idle") /\ found' = {}
      BY <1>0, <1>3, <1>4, <2>2 DEF Select, Removing
    <2> QED BY <1>4, <2>1, <2>2 DEF Select
  <1>5. ASSUME TurnEnds PROVE Fields' /\ Stroll(Worker)
    BY <1>0, <1>3, <1>5 DEF TurnEnds, Removing
  <1>6. ASSUME NEW t \in Threads, NEW c \in Links, StartRemoval(t, c), ~Removing(t),
               UNCHANGED <<memory, accept>>, found' \subseteq Clients
        PROVE  Fields' /\ Stroll(t)
    <2>1. Goes(t, "look", NoClient, head, NoClient)
      BY <1>0, <1>6, Starts
    <2>2. thread' \in [Threads -> ThreadRecord]
      BY <1>0, <1>6 DEF StartRemoval, ThreadRecord
    <2> QED BY <1>6, <2>1, <2>2 DEF Stroll, Goes, memory, Fields
  <1>7. ASSUME NEW c \in Clients, DropClient(c) PROVE Fields' /\ Stroll(Worker)
    BY <1>0, <1>6, <1>7 DEF DropClient, Removing
  <1>8. ASSUME NEW c \in Clients, HasStart(c) PROVE Fields' /\ Stroll(Handler)
    <2>1. /\ thread' = [thread EXCEPT ![Handler] = [pc |-> "has", target |-> c,
                           prev |-> NoClient, current |-> head, next |-> NoClient]]
          /\ UNCHANGED <<memory, accept, found>> /\ thread[Handler].pc = "idle"
      BY <1>8 DEF HasStart
    <2>2. Goes(Handler, "has", NoClient, head, NoClient)
          /\ thread' \in [Threads -> ThreadRecord]
      BY <1>0, <2>1 DEF Goes, ThreadRecord
    <2> QED BY <2>1, <2>2 DEF Stroll, Goes, Removing, memory, Fields
  <1>9. ASSUME NEW t \in Threads, Return(t), ~Removing(t),
               UNCHANGED <<memory, accept, found>>
        PROVE  Fields' /\ Stroll(t)
    <2>1. Goes(t, Home(t), NoClient, NoClient, NoClient)
      BY <1>0, <1>9, Returns
    <2>2. thread' \in [Threads -> ThreadRecord]
      BY <1>0, <1>9 DEF Return, Resting, ThreadRecord
    <2> QED BY <1>9, <2>1, <2>2 DEF Stroll, Goes, Home, memory, Fields
  <1>10. ASSUME HasClient PROVE Fields' /\ Stroll(Handler)
    <2>0. /\ UNCHANGED <<head, tail, count, next, state, accept, found>>
          /\ thread[Handler].pc = "has" /\ ~Removing(Handler) /\ Walking(Handler)
      BY <1>10 DEF HasClient, Removing, Walking
    <2>1. CASE thread[Handler].current = NoClient
      BY <1>0, <1>9, <1>10, <2>0, <2>1 DEF HasClient, memory
    <2>2. CASE thread[Handler].current # NoClient
      <3>1. thread[Handler].current \in Clients /\ Access(thread[Handler].current)
            /\ misused' \in BOOLEAN
        BY <1>0, <1>10, <2>2 DEF HasClient, Access, ThreadRecord, Links
      <3>2. CASE thread[Handler].current = thread[Handler].target
        <4>1. thread' = [thread EXCEPT ![Handler] = [thread[Handler] EXCEPT !.pc = "send"]]
          BY <1>0, <1>10, <2>2, <3>2 DEF HasClient
        <4>2. Only(Handler, "send") /\ thread' \in [Threads -> ThreadRecord]
          BY <1>0, <4>1 DEF Only, Goes, ThreadRecord
        <4> QED BY <2>0, <3>1, <4>2 DEF Stroll, Only, Goes, Fields
      <3>3. CASE thread[Handler].current # thread[Handler].target
        <4>1. thread' = [thread EXCEPT ![Handler] =
                           [thread[Handler] EXCEPT !.current = next[thread[Handler].current]]]
          BY <1>0, <1>10, <2>2, <3>3 DEF HasClient
        <4>2. /\ Goes(Handler, "has", thread[Handler].prev, next[thread[Handler].current],
                      thread[Handler].next)
              /\ thread' \in [Threads -> ThreadRecord]
          BY <1>0, <2>0, <3>1, <4>1 DEF Goes, ThreadRecord
        <4> QED BY <2>0, <3>1, <4>2 DEF Stroll, Goes, Fields
      <3> QED BY <3>2, <3>3
    <2> QED BY <2>1, <2>2
  <1>11. ASSUME Send PROVE Fields' /\ Stroll(Handler)
    BY <1>0, <1>9, <1>11 DEF Send, Removing
  <1>12. ASSUME SendFails PROVE Fields' /\ Stroll(Handler)
    <2>1. thread[Handler].target \in Links
      BY <1>0 DEF ThreadRecord
    <2> QED BY <1>0, <1>6, <1>12, <2>1 DEF SendFails, Removing
  <1> QED
    BY <1>0, <1>1, <1>2, <1>4, <1>5, <1>7, <1>8, <1>10, <1>11, <1>12 DEF StrollAction

-----------------------------------------------------------------------------
(* Pointers.                                                               *)

\* The nodes on no list are the same as long as no node is begun, put on the list or deleted.
LEMMA SameUnlinked ==
    ASSUME Pointers, Preparing' <=> Preparing, accept'.client = accept.client,
           \A c \in Clients : state'[c] = "new" <=> state[c] = "new"
    PROVE  Unlinked' = Unlinked
  BY DEF Unlinked, Preparing

\* No node at all is among them.
LEMMA NothingUnlinked == NoClient \notin Unlinked
  BY ListAssumption DEF Unlinked

\* The accept thread takes a new node, or puts one on the list.
LEMMA AcceptPointers == ASSUME Pointers, Accept, Fields' PROVE
        Untouched' /\ AcceptKnows' /\ \A t \in Threads : ThreadKnows(t)'
  <1>0. /\ head \in Links /\ tail \in Links
        /\ next \in [Clients -> Links]
        /\ state \in [Clients -> {"new", "live", "gone"}]
        /\ accept \in AcceptRecord
        /\ thread \in [Threads -> ThreadRecord]
        /\ NoClient \notin Clients /\ NoClient \notin Unlinked /\ NoClient \in Links
        /\ Untouched /\ AcceptKnows /\ \A t \in Threads : ThreadKnows(t)
        /\ Unlinked \subseteq Clients
    BY ListAssumption, NothingUnlinked DEF Pointers, Types, Fields, Links, Unlinked
  <1>t. UNCHANGED thread
    BY DEF Accept, AddStart, AddClient, LoadTail, StoreHead, StoreTail, StoreCount, LoadNext,
           CheckTail, Link, Swing, Help, AddToCount
  <1>k. \A t \in Threads : ThreadKnows(t)'
    BY <1>0, <1>t DEF ThreadKnows
  <1>u. ASSUME Unlinked' \subseteq Unlinked, UNCHANGED next,
               head' \in {head, tail} \cup (Clients \ Unlinked'),
               tail' \in {head, tail} \cup (Clients \ Unlinked'),
               accept'.last \notin Unlinked', accept'.next \notin Unlinked'
        PROVE  Untouched'
    BY <1>0, <1>t, <1>u DEF Untouched
  <1>1. ASSUME NEW c \in Clients, AddStart(c) PROVE Untouched' /\ AcceptKnows'
    <2>1. /\ ~Preparing /\ accept'.client = c /\ accept'.pc = "load"
          /\ accept'.last = accept.last /\ accept'.next = accept.next
          /\ state' = [state EXCEPT ![c] = "live"] /\ state[c] = "new"
          /\ UNCHANGED <<head, tail, next>>
      BY <1>0, <1>1 DEF AddStart, Preparing, AcceptRecord
    <2>2. Unlinked' = Unlinked
      BY <1>0, <2>1 DEF Unlinked, Preparing
    <2>3. Untouched'
      BY <1>0, <1>t, <2>1, <2>2 DEF Untouched
    <2> QED BY <1>0, <2>1, <2>3 DEF AcceptKnows, Preparing
  <1>2. ASSUME LoadTail PROVE Untouched' /\ AcceptKnows'
    <2>1. /\ accept.pc = "load" /\ accept'.client = accept.client
          /\ accept'.pc = IF tail = NoClient THEN "head" ELSE "next"
          /\ accept'.last = tail /\ accept'.next = accept.next
          /\ UNCHANGED <<head, tail, next, state>>
      BY <1>0, <1>2 DEF LoadTail, memory, AcceptRecord
    <2>2. Unlinked' = Unlinked /\ Preparing
      BY <1>0, <2>1, SameUnlinked DEF Preparing
    <2>3. Untouched'
      BY <1>0, <1>t, <2>1, <2>2 DEF Untouched
    <2> QED BY <1>0, <2>1, <2>2, <2>3 DEF AcceptKnows, Preparing, Links
  <1>3. ASSUME StoreHead PROVE Untouched' /\ AcceptKnows'
    <2>1. /\ accept.pc = "head" /\ accept'.client = accept.client /\ accept'.pc = "tail"
          /\ accept'.last = accept.last /\ accept'.next = accept.next
          /\ head' = accept.client /\ UNCHANGED <<tail, next, state>>
      BY <1>0, <1>3 DEF StoreHead, AcceptRecord
    <2>2. /\ Preparing /\ ~Preparing' /\ accept.client \in Clients
          /\ state[accept.client] = "live"
      BY <1>0, <2>1 DEF Preparing, AcceptKnows
    <2>3. Unlinked' = Unlinked \ {accept.client}
      BY <1>0, <2>1, <2>2 DEF Unlinked
    <2>4. Untouched'
      BY <1>0, <1>u, <2>1, <2>2, <2>3 DEF Untouched
    <2> QED BY <1>0, <2>1, <2>2, <2>4 DEF AcceptKnows
  <1>4. ASSUME StoreTail PROVE Untouched' /\ AcceptKnows'
    <2>1. /\ accept.pc = "tail" /\ accept'.client = accept.client /\ accept'.pc = "one"
          /\ accept'.last = accept.last /\ accept'.next = accept.next
          /\ tail' = accept.client /\ UNCHANGED <<head, next, state>>
      BY <1>0, <1>4 DEF StoreTail, AcceptRecord
    <2>2. /\ ~Preparing /\ ~Preparing' /\ accept.client \in Clients
          /\ state[accept.client] # "new"
      BY <1>0, <2>1 DEF Preparing, AcceptKnows
    <2>3. Unlinked' = Unlinked /\ accept.client \notin Unlinked
      BY <1>0, <2>1, <2>2, SameUnlinked DEF Unlinked
    <2>4. Untouched'
      BY <1>0, <1>u, <2>1, <2>2, <2>3 DEF Untouched
    <2> QED BY <1>0, <2>1, <2>2, <2>4 DEF AcceptKnows
  <1>5. ASSUME StoreCount \/ AddToCount PROVE Untouched' /\ AcceptKnows'
    <2>1. /\ accept.pc \in {"one", "more"} /\ accept' = NoAddition
          /\ UNCHANGED <<head, tail, next, state>>
      BY <1>5 DEF StoreCount, AddToCount
    <2>2. Unlinked' = Unlinked /\ ~Preparing'
      BY <1>0, <2>1 DEF Unlinked, Preparing, NoAddition
    <2>4. Untouched'
      BY <1>0, <1>u, <2>1, <2>2 DEF Untouched, NoAddition
    <2> QED BY <1>0, <2>1, <2>2, <2>4 DEF AcceptKnows, NoAddition
  <1>6. ASSUME LoadNext PROVE Untouched' /\ AcceptKnows'
    <2>1. /\ accept.pc = "next" /\ accept'.client = accept.client /\ accept'.pc = "check"
          /\ accept'.last = accept.last /\ accept'.next = next[accept.last]
          /\ accept.last \in Clients
          /\ UNCHANGED <<head, tail, next, state>>
      BY <1>0, <1>6 DEF LoadNext, AcceptRecord, AcceptKnows
    <2>2. Unlinked' = Unlinked /\ Preparing
      BY <1>0, <2>1, SameUnlinked DEF Preparing
    <2>3. Untouched'
      BY <1>0, <1>u, <2>1, <2>2 DEF Untouched
    <2> QED BY <1>0, <2>1, <2>2, <2>3 DEF AcceptKnows, Preparing
  <1>7. ASSUME CheckTail PROVE Untouched' /\ AcceptKnows'
    <2>1. /\ accept.pc = "check" /\ accept'.client = accept.client
          /\ accept'.pc \in {"load", "link", "help"}
          /\ accept'.pc = "help" => accept.next # NoClient
          /\ accept'.last = accept.last /\ accept'.next = accept.next
          /\ UNCHANGED <<head, tail, next, state>>
      BY <1>0, <1>7 DEF CheckTail, memory, AcceptRecord
    <2>2. Unlinked' = Unlinked /\ Preparing
      BY <1>0, <2>1, SameUnlinked DEF Preparing
    <2>3. Untouched'
      BY <1>0, <1>u, <2>1, <2>2 DEF Untouched
    <2> QED BY <1>0, <2>1, <2>2, <2>3 DEF AcceptKnows, Preparing, AcceptRecord, Links
  <1>8. ASSUME Link PROVE Untouched' /\ AcceptKnows'
    <2>1. /\ accept.pc = "link" /\ accept'.client = accept.client /\ accept'.pc = "swing"
          /\ accept'.last = accept.last /\ accept'.next = accept.next
          /\ next' = [next EXCEPT ![accept.last] = accept.client]
          /\ UNCHANGED <<head, tail, state>>
      BY <1>0, <1>8 DEF Link, AcceptRecord
    <2>2. /\ Preparing /\ ~Preparing' /\ accept.client \in Clients
          /\ state[accept.client] = "live" /\ accept.last \in Clients \ Unlinked
      BY <1>0, <2>1 DEF Preparing, AcceptKnows, Untouched
    <2>3. Unlinked' = Unlinked \ {accept.client}
      BY <1>0, <2>1, <2>2 DEF Unlinked
    <2>4. Untouched'
      BY <1>0, <1>t, <2>1, <2>2, <2>3 DEF Untouched
    <2> QED BY <1>0, <2>1, <2>2, <2>4 DEF AcceptKnows
  <1>9. ASSUME Swing PROVE Untouched' /\ AcceptKnows'
    <2>1. /\ accept.pc = "swing" /\ accept'.client = accept.client /\ accept'.pc = "more"
          /\ accept'.last = accept.last /\ accept'.next = accept.next
          /\ tail' \in {tail, accept.client} /\ UNCHANGED <<head, next, state>>
      BY <1>0, <1>9 DEF Swing, MoveTail, AcceptRecord
    <2>2. /\ ~Preparing /\ ~Preparing' /\ accept.client \in Clients
          /\ state[accept.client] # "new"
      BY <1>0, <2>1 DEF Preparing, AcceptKnows
    <2>3. Unlinked' = Unlinked /\ accept.client \notin Unlinked
      BY <1>0, <2>1, <2>2, SameUnlinked DEF Unlinked
    <2>4. Untouched'
      BY <1>0, <1>u, <2>1, <2>2, <2>3 DEF Untouched
    <2> QED BY <1>0, <2>1, <2>2, <2>4 DEF AcceptKnows
  <1>10. ASSUME Help PROVE Untouched' /\ AcceptKnows'
    <2>1. /\ accept.pc = "help" /\ accept'.client = accept.client /\ accept'.pc = "load"
          /\ accept'.last = accept.last /\ accept'.next = accept.next
          /\ tail' \in {tail, accept.next} /\ UNCHANGED <<head, next, state>>
      BY <1>0, <1>10 DEF Help, MoveTail, AcceptRecord
    <2>2. Unlinked' = Unlinked /\ Preparing /\ accept.next \in Clients
      BY <1>0, <2>1, SameUnlinked DEF Preparing, AcceptKnows
    <2>3. Untouched'
      BY <1>0, <1>u, <2>1, <2>2 DEF Untouched
    <2> QED BY <1>0, <2>1, <2>2, <2>3 DEF AcceptKnows, Preparing
  <1> QED
    BY <1>k, <1>1, <1>2, <1>3, <1>4, <1>5, <1>6, <1>7, <1>8, <1>9, <1>10
       DEF Accept, AddClient

\* A thread gets to know only nodes that somebody knew.
LEMMA ThreadPointers ==
    ASSUME Pointers, NEW t \in Threads, UNCHANGED accept,
           \A c \in Clients : state'[c] = "new" <=> state[c] = "new",
           \A c \in Clients : Preparing /\ c = accept.client => state'[c] = state[c],
           \A u \in Threads : u # t => thread'[u] = thread[u],
           thread'[t].prev \notin Unlinked, thread'[t].current \notin Unlinked,
           thread'[t].next \notin Unlinked, head' \notin Unlinked, tail' \notin Unlinked,
           \A n \in Clients : next'[n] = next[n] \/ (n \notin Unlinked /\ next'[n] \notin Unlinked),
           ThreadKnows(t)'
    PROVE  Untouched' /\ AcceptKnows' /\ \A u \in Threads : ThreadKnows(u)'
  <1>0. Untouched /\ AcceptKnows /\ \A u \in Threads : ThreadKnows(u)
    BY DEF Pointers
  <1>1. Unlinked' = Unlinked /\ (Preparing' <=> Preparing)
    BY SameUnlinked DEF Preparing
  <1>2. Untouched'
    <2>1. \A n \in Unlinked : next'[n] = NoClient
      BY <1>0 DEF Untouched, Unlinked
    <2>2. \A n \in Clients : next'[n] \notin Unlinked
      BY <1>0 DEF Untouched
    <2>3. \A u \in Threads : /\ thread'[u].prev \notin Unlinked
                             /\ thread'[u].current \notin Unlinked
                             /\ thread'[u].next \notin Unlinked
      BY <1>0 DEF Untouched
    <2> QED BY <1>0, <1>1, <2>1, <2>2, <2>3 DEF Untouched
  <1>3. AcceptKnows'
    BY <1>0, <1>1 DEF AcceptKnows, Preparing
  <1>4. \A u \in Threads : ThreadKnows(u)'
    BY <1>0 DEF ThreadKnows
  <1> QED BY <1>2, <1>3, <1>4

\* So it is for the worker and the handler, in and outside removals.
LEMMA MovePointers ==
    ASSUME Pointers, NEW t \in Threads, Stroll(t) \/ RemoveSocketFromList(t)
    PROVE  Untouched' /\ AcceptKnows' /\ \A u \in Threads : ThreadKnows(u)'
  <1> DEFINE here == thread[t]
             Goal == Untouched' /\ AcceptKnows' /\ \A u \in Threads : ThreadKnows(u)'
  <1>0. /\ Fields /\ Untouched /\ AcceptKnows /\ ThreadKnows(t)
        /\ next \in [Clients -> Links] /\ head \in Links /\ tail \in Links
        /\ state \in [Clients -> {"new", "live", "gone"}]
        /\ here \in ThreadRecord
        /\ NoClient \notin Unlinked /\ Unlinked \subseteq Clients
    BY NothingUnlinked DEF Pointers, Types, Fields, Unlinked
  <1>1. /\ here.prev \notin Unlinked /\ here.current \notin Unlinked /\ here.next \notin Unlinked
        /\ head \notin Unlinked /\ tail \notin Unlinked
        /\ \A n \in Clients : next[n] \notin Unlinked
        /\ here.prev \in Links /\ here.current \in Links /\ here.next \in Links
    BY <1>0 DEF Untouched, ThreadRecord
  <1>2. CASE Stroll(t)
    <2>1. ThreadKnows(t)'
      BY <1>2 DEF Stroll, ThreadKnows
    <2>2. thread'[t].current \notin Unlinked
      BY <1>1, <1>2, <1>0 DEF Stroll
    <2> QED BY <1>0, <1>1, <1>2, <2>1, <2>2, ThreadPointers DEF Stroll
  <1>3. ASSUME NEW pc, NEW prev \in {NoClient, here.prev, here.current},
               NEW current, NEW then, Goes(t, pc, prev, current, then),
               current \in {NoClient, head, here.current} \/ \E n \in Clients : current = next[n],
               then \in {NoClient, here.next} \/ \E n \in Clients : then = next[n],
               UNCHANGED <<accept, next, state>>,
               head' \in {head, here.next}, tail' \in {tail, NoClient, here.prev},
               pc \in {"unlink", "empty", "end", "retract", "delete", "less"} => current # NoClient,
               pc \in {"end", "retract"} => prev # NoClient
        PROVE  Goal
    <2>1. /\ current \notin Unlinked /\ then \notin Unlinked /\ prev \notin Unlinked
          /\ current \in Links /\ prev \in Links
      BY <1>0, <1>1, <1>3 DEF Links
    <2>2. ThreadKnows(t)'
      BY <1>3, <2>1 DEF Goes, ThreadKnows, Links
    <2> QED BY <1>0, <1>1, <1>3, <2>1, <2>2, ThreadPointers DEF Goes
  <1>4. ASSUME Look(t) PROVE Goal
    <2>1. UNCHANGED <<accept, next, state, head, tail>>
      BY <1>4 DEF Look
    <2>2. CASE Goes(t, Home(t), NoClient, NoClient, NoClient)
      BY <1>3, <2>1, <2>2 DEF Home
    <2>3. CASE here.current \in Clients
               /\ Goes(t, "unlink", here.prev, here.current, next[here.current])
      <3>1. here.current # NoClient
        BY <2>3, ListAssumption
      <3>2. \E n \in Clients : next[here.current] = next[n]
        BY <2>3
      <3> HIDE DEF here, Goal
      <3> QED BY <1>3, <2>1, <2>3, <3>1, <3>2
    <2>4. CASE here.current \in Clients
               /\ Goes(t, "look", here.current, next[here.current], here.next)
      BY <1>0, <1>3, <2>1, <2>4
    <2> QED BY <1>0, <1>4, <2>2, <2>3, <2>4, LookForms
  <1>5. ASSUME UnlinkFirst(t) PROVE Goal
    <2>1. UNCHANGED <<accept, next, state, tail>> /\ here.pc = "unlink" /\ here.prev = NoClient
      BY <1>5 DEF UnlinkFirst
    <2>2. here.current \in Clients
      BY <1>0, <2>1 DEF ThreadKnows
    <2>3. CASE head' = here.next
               /\ Only(t, IF here.next = NoClient THEN "empty" ELSE "delete")
      BY <1>3, <2>1, <2>2, <2>3, ListAssumption DEF Only
    <2>4. CASE head' = head /\ Goes(t, "step", NoClient, head, here.next)
      BY <1>3, <2>1, <2>4
    <2> QED BY <1>0, <1>5, <2>3, <2>4, UnlinkFirstForms
  <1>6. ASSUME UnlinkLater(t) PROVE Goal
    <2>1. /\ UNCHANGED <<accept, head, state, tail>>
          /\ here.pc = "unlink" /\ here.prev \in Clients
      BY <1>0, <1>6, UnlinkLaterForms
    <2>2. here.current \in Clients
      BY <1>0, <2>1 DEF ThreadKnows
    <2>3. CASE next' = [next EXCEPT ![here.prev] = here.next] /\ Only(t, "end")
      <3>1. ThreadKnows(t)'
        BY <2>1, <2>2, <2>3 DEF Only, Goes, ThreadKnows
      <3>2. \A n \in Clients :
               next'[n] = next[n] \/ (n \notin Unlinked /\ next'[n] \notin Unlinked)
        BY <1>0, <1>1, <2>1, <2>3
      <3> QED BY <1>0, <1>1, <2>1, <2>3, <3>1, <3>2, ThreadPointers DEF Only, Goes
    <2>4. CASE next' = next /\ Goes(t, "step", here.prev, next[here.prev], here.next)
      BY <1>3, <2>1, <2>4
    <2> QED BY <1>0, <1>6, <2>3, <2>4, UnlinkLaterForms
  <1>7. ASSUME StepOn(t) PROVE Goal
    <2>1. /\ UNCHANGED <<accept, next, head, state, tail>>
          /\ Goes(t, "look", here.current, NextOf(here.current), here.next)
      BY <1>0, <1>7, RemovalForms
    <2>2. NextOf(here.current) = NoClient \/ \E n \in Clients : NextOf(here.current) = next[n]
      BY <1>1 DEF NextOf, Links
    <2> HIDE DEF here, Goal
    <2> QED BY <1>3, <2>1, <2>2 
  <1>8. ASSUME ClearTail(t) \/ TestTail(t) \/ RetractTail(t) PROVE Goal
    <2>1. /\ UNCHANGED <<accept, next, head, state>>
          /\ tail' \in {tail, NoClient, here.prev}
          /\ here.pc \in {"empty", "end", "retract"}
      BY <1>8 DEF ClearTail, TestTail, RetractTail, memory
    <2>2. here.current \in Clients
      BY <1>0, <2>1 DEF ThreadKnows
    <2>3. Only(t, "delete") \/ (here.pc = "end" /\ Only(t, "retract"))
      BY <1>0, <1>8, RemovalForms
    <2>4. here.pc = "end" => here.prev \in Clients
      BY <1>0 DEF ThreadKnows
    <2> QED BY <1>3, <2>1, <2>2, <2>3, <2>4, ListAssumption DEF Only
  <1>9. ASSUME DeleteNode(t) PROVE Goal
    <2>1. /\ UNCHANGED <<accept, next, head, tail>> /\ here.pc = "delete"
          /\ state' = [state EXCEPT ![here.current] = "gone"]
          /\ Only(t, "less")
      BY <1>0, <1>9, RemovalForms DEF DeleteNode
    <2>2. here.current \in Clients
      BY <1>0, <2>1 DEF ThreadKnows
    <2>3. ThreadKnows(t)'
      BY <2>1, <2>2 DEF Only, Goes, ThreadKnows
    <2>4. /\ \A c \in Clients : state'[c] = "new" <=> state[c] = "new"
          /\ \A c \in Clients : Preparing /\ c = accept.client => state'[c] = state[c]
      BY <1>0, <1>1, <2>1, <2>2 DEF Unlinked
    <2> QED BY <1>0, <1>1, <2>1, <2>3, <2>4, ThreadPointers DEF Only, Goes
  <1>10. ASSUME SubFromCount(t) PROVE Goal
    <2>1. UNCHANGED <<accept, next, state, head, tail>>
          /\ Goes(t, Home(t), NoClient, NoClient, NoClient)
      BY <1>0, <1>10, RemovalForms DEF SubFromCount
    <2> QED BY <1>3, <2>1 DEF Home
  <1> QED
    BY <1>2, <1>4, <1>5, <1>6, <1>7, <1>8, <1>9, <1>10 DEF RemoveSocketFromList

\* A step is one of the accept thread, a removal's, or another one of worker and handler.
LEMMA Steps ==
    ASSUME Fields, Step
    PROVE  Accept \/ \E t \in Threads : Stroll(t) \/ RemoveSocketFromList(t)
  <1>1. Worker \in Threads /\ Handler \in Threads
    BY DEF Threads
  <1>2. StrollAction => \E t \in Threads : Stroll(t)
    BY Strolls
  <1> QED BY <1>1, <1>2 DEF Step, WorkerStep, HandlerStep, StrollAction

\* What has overlapped is noted.
LEMMA Noted ==
    ASSUME clash \subseteq Kinds, Next PROVE clash' \subseteq Kinds /\ Overlaps' \subseteq clash'
  <1>1. clash' = clash \cup Overlaps'
    BY DEF Next
  <1>2. Overlaps' \subseteq Kinds
    BY DEF Overlaps, Kinds
  <1> QED BY <1>1, <1>2

\* Pointers holds in every state.
LEMMA PointersNext == ASSUME Pointers, [Next]_vars PROVE Pointers'
  <1>1. CASE UNCHANGED vars
    <2>0. /\ UNCHANGED <<next, state, head, tail, count, accept, thread, found>>
          /\ clash' = clash /\ misused' = misused
      BY <1>1 DEF vars, memory
    <2>1. Overlaps' = Overlaps
      BY <2>0 DEF Overlaps, Overlap, Adding, Removing, Walking
    <2>2. Types'
      BY <2>0, <2>1 DEF Pointers, Types, Fields
    <2>3. Untouched' /\ AcceptKnows'
      BY <2>0 DEF Pointers, Untouched, AcceptKnows, Unlinked, Preparing
    <2>4. \A t \in Threads : ThreadKnows(t)'
      BY <2>0 DEF Pointers, ThreadKnows, Unlinked
    <2> QED BY <2>2, <2>3, <2>4 DEF Pointers
  <1>2. CASE Next
    <2>0. Fields /\ AcceptKnows /\ \A t \in Threads : ThreadKnows(t)
      BY DEF Pointers, Types
    <2>1. clash' \subseteq Kinds /\ Overlaps' \subseteq clash'
      BY <1>2, Noted DEF Pointers, Types
    <2>2. Step
      BY <1>2 DEF Next
    <2>3. Worker \in Threads /\ Handler \in Threads
      BY DEF Threads
    <2>4. Accept \/ StrollAction \/ \E t \in Threads : RemoveSocketFromList(t)
      BY <2>2, <2>3 DEF Step, WorkerStep, HandlerStep, StrollAction
    <2>5. Fields'
      BY <2>0, <2>4, AcceptFields, Strolls, RemovalFields
    <2>6. Untouched' /\ AcceptKnows' /\ \A t \in Threads : ThreadKnows(t)'
      BY <2>0, <2>2, <2>5, Steps, AcceptPointers, MovePointers
    <2> QED BY <2>1, <2>5, <2>6 DEF Pointers, Types
  <1> QED BY <1>1, <1>2

LEMMA PointersInit == ASSUME Init PROVE Pointers
  <1>1. PICK c \in Clients :
            /\ head = c /\ tail = c /\ count = 1
            /\ next = [n \in Clients |-> NoClient]
            /\ state = [n \in Clients |-> IF n = c THEN "live" ELSE "new"]
            /\ accept = NoAddition
            /\ thread = [t \in Threads |-> Resting]
            /\ found = {} /\ clash = {} /\ misused = FALSE
    BY DEF Init
  <1>2. NoAddition \in AcceptRecord /\ Resting \in ThreadRecord
    BY DEF NoAddition, AcceptRecord, AcceptPcs, Resting, ThreadRecord, Links, Pcs
  <1>3. Fields
    <2>1. /\ next \in [Clients -> Links]
          /\ state \in [Clients -> {"new", "live", "gone"}]
          /\ thread \in [Threads -> ThreadRecord]
      BY <1>1, <1>2 DEF Links
    <2>2. head \in Links /\ tail \in Links /\ count \in Int
      BY <1>1 DEF Links
    <2>3. found \subseteq Clients /\ accept \in AcceptRecord
      BY <1>1, <1>2
    <2>4. misused \in BOOLEAN
      BY <1>1
    <2> QED BY <2>1, <2>2, <2>3, <2>4 DEF Fields
  <1>4. Unlinked = Clients \ {c} /\ NoClient \notin Clients
    BY <1>1, ListAssumption DEF Unlinked, Preparing, NoAddition
  <1>5. Untouched /\ AcceptKnows /\ \A t \in Threads : ThreadKnows(t)
    BY <1>1, <1>4 DEF Untouched, AcceptKnows, ThreadKnows, Preparing, NoAddition, Resting
  <1>6. Overlaps = {}
    <2>1. ~Adding /\ \A t \in Threads : ~Removing(t) /\ ~Walking(t)
      BY <1>1 DEF Adding, Removing, Walking, NoAddition, Resting
    <2>2. Worker \in Threads
      BY DEF Threads
    <2> QED BY <2>1, <2>2 DEF Overlaps, Overlap, Kinds
  <1> QED BY <1>1, <1>3, <1>5, <1>6 DEF Pointers, Types

-----------------------------------------------------------------------------
(* The counter.                                                            *)

Used == {c \in Clients : state[c] # "new"}
Gone == {c \in Clients : state[c] = "gone"}
\* removals that have deleted a node and have still to count it
Leaving == {t \in Threads : thread[t].pc = "less"}

\* The count is at most the number of clients there have been, and at least minus the number
\* of those deleted and counted, as long as no node was deleted twice.
Counts ==
    /\ count \in -Cardinality(Clients)..Cardinality(Clients)
    /\ count + (IF Adding THEN 1 ELSE 0) <= Cardinality(Used)
    /\ ~misused => /\ Cardinality(Leaving) - count <= Cardinality(Gone)
                   /\ Cardinality(Leaving) <= Cardinality(Gone)

\* The sets are finite.
LEMMA Sizes ==
    /\ Cardinality(Clients) \in Nat
    /\ IsFiniteSet(Used) /\ Cardinality(Used) \in Nat /\ Cardinality(Used) <= Cardinality(Clients)
    /\ IsFiniteSet(Gone) /\ Cardinality(Gone) \in Nat /\ Cardinality(Gone) <= Cardinality(Clients)
    /\ IsFiniteSet(Leaving) /\ Cardinality(Leaving) \in Nat
  <1>1. IsFiniteSet(Clients)
    BY ListAssumption
  <1>2. Used \in SUBSET Clients /\ Gone \in SUBSET Clients /\ Leaving \in SUBSET Threads
    BY DEF Used, Gone, Leaving
  <1>3. IsFiniteSet(Threads)
    <2>1. IsFiniteSet({Worker}) /\ Threads = {Worker} \cup {Handler}
      BY FS_Singleton DEF Threads
    <2> QED BY <2>1, FS_AddElement
  <1>4. IsFiniteSet(Leaving)
    BY <1>2, <1>3, FS_Subset
  <1>5. /\ IsFiniteSet(Used) /\ Cardinality(Used) <= Cardinality(Clients)
        /\ IsFiniteSet(Gone) /\ Cardinality(Gone) <= Cardinality(Clients)
    BY <1>1, <1>2, FS_Subset
  <1> QED BY <1>1, <1>4, <1>5, FS_CardinalityType

\* The bounds of the count follow from what the sets say.
LEMMA CountIn ==
    ASSUME NEW k \in Int, NEW n \in Nat, NEW g \in Nat, NEW l \in Nat, NEW a \in {0, 1},
           NEW u \in Nat, u <= n, g <= n, k + a <= u, l - k <= g
    PROVE  k \in -n..n
  <1>1. k <= n
    OBVIOUS
  <1>2. -n <= k
    OBVIOUS
  <1> QED BY <1>1, <1>2

\* Where neither the count nor the sets change.
LEMMA CountsSame ==
    ASSUME Counts, count' = count, Adding' <=> Adding,
           Used' = Used, Gone' = Gone, Leaving' = Leaving, ~misused
    PROVE  Counts'
  BY DEF Counts

\* The counter of a list follows its additions and removals.
LEMMA CountsNext == ASSUME Pointers, Counts, [Next]_vars PROVE Counts'
  <1> DEFINE C == Cardinality(Clients)
             U == Cardinality(Used)
             G == Cardinality(Gone)
             L == Cardinality(Leaving)
  <1>1. CASE UNCHANGED vars
    BY <1>1 DEF vars, memory, Counts, Adding, Used, Gone, Leaving
  <1>2. CASE Next
    <2>0. /\ Fields /\ AcceptKnows /\ (\A t \in Threads : ThreadKnows(t)) /\ ~misused
          /\ state \in [Clients -> {"new", "live", "gone"}] /\ count \in Int
          /\ accept \in AcceptRecord
      BY <1>2 DEF Pointers, Types, Fields, Next
    <2>1. C \in Nat /\ U \in Nat /\ G \in Nat /\ L \in Nat /\ U <= C /\ G <= C
      BY Sizes
    <2>2. /\ count \in -C..C /\ count + (IF Adding THEN 1 ELSE 0) <= U
          /\ L - count <= G /\ L <= G
      BY <2>0 DEF Counts
    <2>3. ASSUME UNCHANGED <<state, thread, count>>, accept.pc # "idle", accept'.pc # "idle"
          PROVE  Counts'
      BY <2>0, <2>3, CountsSame DEF Adding, Used, Gone, Leaving
    <2>4. ASSUME Accept PROVE Counts'
      <3>1. ASSUME NEW c \in Clients, AddStart(c) PROVE Counts'
        <4>1. /\ accept.pc = "idle" /\ accept'.pc = "load" /\ state[c] = "new"
              /\ state' = [state EXCEPT ![c] = "live"] /\ UNCHANGED <<count, thread, misused>>
          BY <2>0, <3>1 DEF AddStart, AcceptRecord
        <4>2. Used' = Used \cup {c} /\ c \notin Used /\ Gone' = Gone /\ Leaving' = Leaving
          BY <2>0, <4>1 DEF Used, Gone, Leaving
        <4>3. Cardinality(Used') = U + 1
          BY <4>2, Sizes, FS_AddElement
        <4>4. ~Adding /\ Adding'
          BY <4>1 DEF Adding
        <4> QED BY <2>1, <2>2, <4>1, <4>2, <4>3, <4>4 DEF Counts
      <3>2. ASSUME StoreCount PROVE Counts'
        <4>1. /\ accept.pc = "one" /\ accept' = NoAddition /\ count' = 1
              /\ UNCHANGED <<state, thread, misused>>
          BY <3>2 DEF StoreCount
        <4>2. Used' = Used /\ Gone' = Gone /\ Leaving' = Leaving /\ ~Adding'
          BY <4>1 DEF Used, Gone, Leaving, Adding, NoAddition
        <4>3. accept.client \in Used
          BY <2>0, <4>1 DEF AcceptKnows, Used
        <4>4. U >= 1
          <5>1. U # 0
            BY <4>3, Sizes, FS_EmptySet
          <5> QED BY <2>1, <5>1
        <4>5. 1 \in -C..C
          BY <2>1, <4>4
        <4>6. L - 1 <= G
          BY <2>1, <2>2
        <4> QED BY <2>1, <2>2, <4>1, <4>2, <4>4, <4>5, <4>6 DEF Counts
      <3>3. ASSUME AddToCount PROVE Counts'
        <4>1. /\ accept.pc = "more" /\ accept' = NoAddition /\ count' = count + 1
              /\ UNCHANGED <<state, thread, misused>>
          BY <3>3 DEF AddToCount
        <4>2. Used' = Used /\ Gone' = Gone /\ Leaving' = Leaving /\ ~Adding' /\ Adding
          BY <4>1 DEF Used, Gone, Leaving, Adding, NoAddition
        <4>3. count + 1 <= U /\ L - (count + 1) <= G /\ count + 1 \in Int
          BY <2>0, <2>1, <2>2, <4>2
        <4>4. count + 1 \in -C..C
          <5>1. (count + 1) + 0 <= U
            BY <2>0, <4>3
          <5> HIDE DEF C, U, G, L
          <5> QED BY <2>1, <4>3, <5>1, CountIn
        <4> QED BY <2>0, <2>1, <2>2, <4>1, <4>2, <4>3, <4>4 DEF Counts
      <3>4. ASSUME LoadTail \/ StoreHead \/ StoreTail \/ LoadNext \/ CheckTail \/ Link \/ Swing
                   \/ Help
            PROVE  Counts'
        BY <2>0, <2>3, <3>4 DEF LoadTail, StoreHead, StoreTail, LoadNext, CheckTail, Link, Swing,
                                Help, memory, AcceptRecord
      <3> QED BY <2>4, <3>1, <3>2, <3>3, <3>4 DEF Accept, AddClient
    <2>5. ASSUME NEW t \in Threads, thread[t].pc # "less", thread'[t].pc # "less",
                 \A u \in Threads : u # t => thread'[u] = thread[u],
                 UNCHANGED <<state, accept, count>>
          PROVE  Counts'
      <3>1. Leaving' = Leaving
        BY <2>5 DEF Leaving
      <3> QED BY <2>0, <2>5, <3>1, CountsSame DEF Adding, Used, Gone
    <2>6. ASSUME NEW t \in Threads, Stroll(t) PROVE Counts'
      BY <2>5, <2>6 DEF Stroll, Removing
    <2>7. ASSUME NEW t \in Threads, RemoveSocketFromList(t) PROVE Counts'
      <3>1. ASSUME Look(t) PROVE Counts'
        <4>1. UNCHANGED <<state, accept, count>> /\ thread[t].pc = "look"
          BY <3>1 DEF Look
        <4> QED BY <2>0, <2>5, <3>1, <4>1, LookForms DEF Goes, Home
      <3>2. ASSUME UnlinkFirst(t) PROVE Counts'
        BY <2>0, <2>5, <3>2, UnlinkFirstForms DEF Only, Goes
      <3>3. ASSUME UnlinkLater(t) PROVE Counts'
        BY <2>0, <2>5, <3>3, UnlinkLaterForms DEF Only, Goes
      <3>4. ASSUME StepOn(t) PROVE Counts'
        BY <2>0, <2>5, <3>4, RemovalForms DEF Goes
      <3>5. ASSUME ClearTail(t) \/ TestTail(t) \/ RetractTail(t) PROVE Counts'
        <4>1. UNCHANGED <<state, accept, count>>
          BY <3>5 DEF ClearTail, TestTail, RetractTail, memory
        <4> QED BY <2>0, <2>5, <3>5, <4>1, RemovalForms DEF Only, Goes
      <3>6. ASSUME DeleteNode(t) PROVE Counts'
        <4>1. /\ thread[t].pc = "delete" /\ Access(thread[t].current) /\ Only(t, "less")
              /\ state' = [state EXCEPT ![thread[t].current] = "gone"]
              /\ UNCHANGED <<accept, count>> /\ thread[t].current \in Clients
          BY <2>0, <3>6, RemovalForms DEF DeleteNode, ThreadKnows
        <4>2. Leaving' = Leaving \cup {t} /\ t \notin Leaving
          BY <4>1 DEF Leaving, Only, Goes
        <4>3. Cardinality(Leaving') = L + 1
          BY <4>2, Sizes, FS_AddElement
        <4>4. Adding' <=> Adding
          BY <4>1 DEF Adding
        <4>5. CASE misused'
          <5>1. Used \in SUBSET Clients /\ Used' \in SUBSET Clients /\ Used \in SUBSET Used'
            BY <2>0, <4>1 DEF Used
          <5>2. IsFiniteSet(Used') /\ Cardinality(Used') \in Nat
            BY <5>1, ListAssumption, FS_Subset, FS_CardinalityType
          <5>3. U <= Cardinality(Used')
            BY <5>1, <5>2, FS_Subset
          <5>4. count' = count /\ (IF Adding THEN 1 ELSE 0) \in {0, 1}
            BY <4>1
          <5>5. count + (IF Adding THEN 1 ELSE 0) <= Cardinality(Used')
            BY <2>0, <2>1, <2>2, <5>2, <5>3, <5>4
          <5> QED BY <2>2, <4>4, <4>5, <5>4, <5>5 DEF Counts
        <4>6. CASE ~misused'
          <5>1. state[thread[t].current] = "live"
            BY <4>1, <4>6 DEF Access
          <5>2. Used' = Used /\ Gone' = Gone \cup {thread[t].current}
                /\ thread[t].current \notin Gone
            BY <2>0, <4>1, <5>1 DEF Used, Gone
          <5>3. Cardinality(Gone') = G + 1
            BY <5>2, Sizes, FS_AddElement
          <5>4. (L + 1) - count <= G + 1 /\ L + 1 <= G + 1
            BY <2>0, <2>1, <2>2
          <5> QED BY <2>2, <4>1, <4>3, <4>4, <5>2, <5>3, <5>4 DEF Counts
        <4> QED BY <4>5, <4>6
      <3>7. ASSUME SubFromCount(t) PROVE Counts'
        <4>1. /\ thread[t].pc = "less" /\ count' = count - 1 /\ UNCHANGED <<accept, state>>
              /\ Goes(t, Home(t), NoClient, NoClient, NoClient)
          BY <2>0, <3>7, RemovalForms DEF SubFromCount
        <4>2. Leaving' = Leaving \ {t} /\ t \in Leaving
          BY <4>1 DEF Leaving, Goes, Home
        <4>3. Cardinality(Leaving') = L - 1
          BY <4>2, Sizes, FS_RemoveElement
        <4>4. (Adding' <=> Adding) /\ Used' = Used /\ Gone' = Gone
          BY <4>1 DEF Adding, Used, Gone
        <4>5. /\ (count - 1) + (IF Adding THEN 1 ELSE 0) <= U
              /\ (L - 1) - (count - 1) <= G /\ L - 1 <= G /\ L - 1 \in Nat
          <5>1. L - 1 \in Nat
            <6>1. L # 0
              BY <4>2, Sizes, FS_EmptySet
            <6> QED BY <2>1, <6>1
          <5> QED BY <2>0, <2>1, <2>2, <5>1
        <4>6. count - 1 \in -C..C
          <5>1. (IF Adding THEN 1 ELSE 0) \in {0, 1} /\ count - 1 \in Int
            BY <2>0
          <5> HIDE DEF C, U, G, L
          <5> QED BY <2>1, <4>5, <5>1, CountIn
        <4> QED BY <4>1, <4>3, <4>4, <4>5, <4>6 DEF Counts
      <3> QED
        BY <2>7, <3>1, <3>2, <3>3, <3>4, <3>5, <3>6, <3>7 DEF RemoveSocketFromList
    <2>8. Step
      BY <1>2 DEF Next
    <2> QED BY <2>0, <2>4, <2>6, <2>7, <2>8, Steps
  <1> QED BY <1>1, <1>2

LEMMA CountsInit == ASSUME Init PROVE Counts
  <1>1. PICK c \in Clients :
            /\ count = 1 /\ state = [n \in Clients |-> IF n = c THEN "live" ELSE "new"]
            /\ accept = NoAddition /\ thread = [t \in Threads |-> Resting]
    BY DEF Init
  <1>2. c \in Used /\ Leaving = {} /\ ~Adding
    BY <1>1 DEF Used, Leaving, Resting, Adding, NoAddition
  <1>3. Cardinality(Used) # 0 /\ Cardinality(Leaving) = 0
    BY <1>2, Sizes, FS_EmptySet
  <1>4. 1 <= Cardinality(Used) /\ 1 \in -Cardinality(Clients)..Cardinality(Clients)
    BY <1>3, Sizes
  <1>5. 0 - 1 <= Cardinality(Gone) /\ 0 <= Cardinality(Gone)
    BY Sizes
  <1> QED BY <1>1, <1>2, <1>3, <1>4, <1>5 DEF Counts

LEMMA PointersAndCounts == Spec => [](Pointers /\ Counts)
  <1>1. Init => Pointers /\ Counts
    BY PointersInit, CountsInit
  <1>2. Pointers /\ Counts /\ [Next]_vars => (Pointers /\ Counts)'
    BY PointersNext, CountsNext
  <1> QED BY <1>1, <1>2, PTL DEF Spec

\* Pointers are null or point to nodes, and the counter stays within the number of clients,
\* however additions and removals overlap.
THEOREM TypeCorrect == Spec => []TypeOK
  <1>1. Pointers /\ Counts => TypeOK
    BY DEF Pointers, Types, Fields, Counts, TypeOK, AcceptRecord, AcceptPcs, ThreadRecord
  <1> QED BY <1>1, PointersAndCounts, PTL

-----------------------------------------------------------------------------
(* The list while removals exclude each other.                             *)

\* S holds the list: from the head only nodes of S are reached, each over one way, and all
\* of them are alive.
Holds(S) ==
    /\ S \subseteq Clients \ Unlinked
    /\ \A n \in S : state[n] = "live" /\ next[n] \in S \cup {NoClient}
    /\ head \in S \cup {NoClient}
    /\ head = NoClient => S = {}
    /\ \A n \in S : next[n] # head \/ next[n] = NoClient
    /\ \A m, n \in S : next[m] = next[n] /\ next[m] # NoClient => m = n

\* where the tail is cleared, the head is
Ends ==
    /\ tail = NoClient => head = NoClient \/ accept.pc = "tail"
    /\ accept.pc = "head" => tail = NoClient /\ head = NoClient

\* prev leads to current
Before(t, S) ==
    /\ thread[t].current \in S
    /\ IF thread[t].prev = NoClient
       THEN head = thread[t].current
       ELSE thread[t].prev \in S /\ next[thread[t].prev] = thread[t].current

Removes(t, S) ==
    LET here == thread[t] IN
    /\ here.pc # "step"
    /\ here.pc = "look" => here.current = NoClient \/ Before(t, S)
    /\ here.pc = "unlink" => Before(t, S) /\ here.next \in {NoClient, next[here.current]}
    /\ here.pc = "empty" => head = NoClient /\ (tail = NoClient => accept.pc = "tail")
    /\ here.pc \in {"end", "retract"} => head # NoClient
    /\ here.pc \in {"empty", "end", "retract", "delete"} => here.current \notin S

SoundWith(S) == Holds(S) /\ Ends /\ \A t \in Threads : Removes(t, S)

Sound == "remove-remove" \notin clash => \E S \in SUBSET Clients : SoundWith(S)

\* An addition while S holds the list: the new node joins the set, if it gets onto the list.
LEMMA SoundAccept ==
    ASSUME Pointers, Pointers', NEW S \in SUBSET Clients, SoundWith(S), Accept
    PROVE  \E R \in SUBSET Clients : SoundWith(R)'
  <1> DEFINE Goal == \E R \in SUBSET Clients : SoundWith(R)'
  <1>n. PICK new : new = accept.client
    OBVIOUS
  <1>0. /\ Holds(S) /\ Ends /\ \A t \in Threads : Removes(t, S)
        /\ next \in [Clients -> Links] /\ state \in [Clients -> {"new", "live", "gone"}]
        /\ accept \in AcceptRecord /\ thread \in [Threads -> ThreadRecord]
        /\ Untouched /\ AcceptKnows /\ Untouched'
        /\ NoClient \notin Clients /\ NoClient \notin Unlinked
    BY ListAssumption, NothingUnlinked DEF SoundWith, Pointers, Types, Fields
  <1>t. UNCHANGED thread
    BY DEF Accept, AddStart, AddClient, LoadTail, StoreHead, StoreTail, StoreCount, LoadNext,
           CheckTail, Link, Swing, Help, AddToCount
  <1>1. ASSUME UNCHANGED <<head, next>>, \A c \in Clients : state'[c] = state[c] \/ c \in Unlinked,
               Unlinked' \subseteq Unlinked, Ends',
               tail' = NoClient => tail = NoClient, accept.pc = "tail" => accept'.pc # "load",
               tail' = NoClient /\ accept.pc = "tail" => accept'.pc = "tail"
        PROVE  Goal
    <2>1. Holds(S)'
      BY <1>0, <1>1 DEF Holds
    <2>2. ASSUME NEW t \in Threads PROVE Removes(t, S)'
      BY <1>0, <1>t, <1>1 DEF Removes, Before
    <2> QED BY <1>1, <2>1, <2>2 DEF SoundWith
  <1>2. ASSUME NEW c \in Clients, AddStart(c) PROVE Goal
    <2>1. /\ accept.pc = "idle" /\ state[c] = "new" /\ state' = [state EXCEPT ![c] = "live"]
          /\ accept'.pc = "load" /\ accept'.client = c /\ UNCHANGED <<head, tail, next>>
      BY <1>0, <1>2 DEF AddStart, AcceptRecord
    <2>2. c \in Unlinked /\ Unlinked' \subseteq Unlinked
      BY <1>0, <2>1 DEF Unlinked, Preparing
    <2>3. Ends'
      BY <1>0, <2>1 DEF Ends
    <2> QED BY <1>0, <1>1, <2>1, <2>2, <2>3
  <1>3. ASSUME LoadTail PROVE Goal
    <2>1. /\ accept.pc = "load" /\ UNCHANGED <<head, tail, next, state>>
          /\ accept'.client = accept.client
          /\ accept'.pc = IF tail = NoClient THEN "head" ELSE "next"
      BY <1>0, <1>3 DEF LoadTail, memory, AcceptRecord
    <2>2. Unlinked' \subseteq Unlinked
      BY <2>1 DEF Unlinked, Preparing
    <2>3. Ends'
      BY <1>0, <2>1 DEF Ends
    <2> QED BY <1>1, <2>1, <2>2, <2>3
  <1>4. ASSUME StoreHead PROVE Goal
    <2>1. /\ accept.pc = "head" /\ accept'.client = new /\ accept'.pc = "tail"
          /\ head' = new /\ UNCHANGED <<tail, next, state>>
      BY <1>0, <1>n, <1>4 DEF StoreHead, AcceptRecord
    <2>2. /\ new \in Clients /\ state[new] = "live" /\ Preparing /\ new \in Unlinked
      BY <1>0, <1>n, <2>1 DEF AcceptKnows, Preparing, Unlinked
    <2>3. next[new] = NoClient /\ new \notin Unlinked' /\ head = NoClient /\ tail = NoClient
          /\ S = {}
      BY <1>0, <1>n, <2>1, <2>2 DEF Untouched, Unlinked, Preparing, Ends, Holds
    <2>4. Holds({new})'
      BY <1>0, <2>1, <2>2, <2>3 DEF Holds
    <2>5. Ends'
      BY <2>1 DEF Ends
    <2>6. ASSUME NEW t \in Threads PROVE Removes(t, {new})'
      <3>1. /\ thread[t].current \notin Unlinked
            /\ Removes(t, S)
        BY <1>0 DEF Untouched
      <3>2. thread[t].pc \notin {"step", "unlink", "empty", "end", "retract"}
            /\ (thread[t].pc = "look" => thread[t].current = NoClient)
        BY <2>1, <2>3, <3>1 DEF Removes, Before
      <3>3. thread[t].current # new
        BY <2>2, <3>1
      <3> QED BY <1>t, <3>2, <3>3 DEF Removes
    <2> QED BY <2>2, <2>4, <2>5, <2>6 DEF SoundWith
  <1>5. ASSUME StoreTail PROVE Goal
    <2>1. /\ accept.pc = "tail" /\ accept'.client = new /\ accept'.pc = "one"
          /\ tail' = new /\ new \in Clients /\ UNCHANGED <<head, next, state>>
      BY <1>0, <1>n, <1>5 DEF StoreTail, AcceptRecord, AcceptKnows
    <2>2. Unlinked' \subseteq Unlinked /\ Ends'
      BY <1>0, <2>1 DEF Unlinked, Preparing, Ends
    <2> QED BY <1>0, <1>1, <2>1, <2>2
  <1>6. ASSUME StoreCount \/ AddToCount PROVE Goal
    <2>1. /\ accept.pc \in {"one", "more"} /\ accept'.pc = "idle"
          /\ UNCHANGED <<head, tail, next, state>>
      BY <1>0, <1>6 DEF StoreCount, AddToCount, NoAddition
    <2>2. Unlinked' \subseteq Unlinked /\ Ends'
      BY <1>0, <2>1 DEF Unlinked, Preparing, Ends
    <2> QED BY <1>1, <2>1, <2>2
  <1>7. ASSUME LoadNext \/ CheckTail PROVE Goal
    <2>1. /\ accept.pc \notin {"tail", "head", "idle"} /\ accept'.pc \notin {"head"}
          /\ UNCHANGED <<head, tail, next, state>>
          /\ Preparing' => Preparing /\ accept'.client = accept.client
      BY <1>0, <1>7 DEF LoadNext, CheckTail, memory, AcceptRecord, Preparing
    <2>2. Unlinked' \subseteq Unlinked /\ Ends'
      BY <1>0, <2>1 DEF Unlinked, Ends
    <2> QED BY <1>1, <2>1, <2>2
  <1>8. ASSUME Link PROVE Goal
    <2>1. /\ accept.pc = "link" /\ accept'.client = new /\ accept'.pc = "swing"
          /\ next[accept.last] = NoClient
          /\ next' = [next EXCEPT ![accept.last] = new] /\ UNCHANGED <<head, tail, state>>
      BY <1>0, <1>n, <1>8 DEF Link, AcceptRecord
    <2>2. /\ new \in Clients /\ state[new] = "live" /\ new \in Unlinked
          /\ accept.last \in Clients \ Unlinked
      BY <1>0, <1>n, <2>1 DEF AcceptKnows, Preparing, Unlinked, Untouched
    <2>3. Unlinked' \subseteq Unlinked /\ new \notin Unlinked' /\ next[new] = NoClient
          /\ new \notin S /\ head # new /\ Ends'
          /\ \A n \in Clients : next[n] # new
      BY <1>0, <1>n, <2>1, <2>2 DEF Unlinked, Preparing, Untouched, Holds, Ends
    <2>4. PICK R \in SUBSET Clients : R = IF accept.last \in S THEN S \cup {new} ELSE S
      BY <2>2
    <2>5. Holds(R)'
      <3>1. CASE accept.last \in S
        <4>1. \A n \in S : next'[n] = IF n = accept.last THEN new ELSE next[n]
          BY <1>0, <2>1 DEF Holds
        <4>2. next'[new] = NoClient
          BY <1>0, <2>1, <2>2, <2>3
        <4>3. \A n \in S : n \notin Unlinked' /\ n # new
          BY <1>0, <2>3 DEF Holds
        <4>4. head # NoClient
          BY <1>0, <3>1 DEF Holds
        <4>5. \A n \in S : next[n] # new
          BY <2>3
        <4>6. \A m, n \in S \cup {new} : next'[m] = next'[n] /\ next'[m] # NoClient => m = n
          BY <1>0, <2>1, <4>1, <4>2, <4>5 DEF Holds
        <4>7. \A n \in S \cup {new} : next'[n] # head' \/ next'[n] = NoClient
          BY <1>0, <2>1, <2>3, <4>1, <4>2 DEF Holds
        <4>8. \A n \in S \cup {new} : next'[n] \in S \cup {new, NoClient}
          BY <1>0, <4>1, <4>2 DEF Holds
        <4> QED BY <1>0, <2>1, <2>2, <2>3, <2>4, <3>1, <4>3, <4>6, <4>7, <4>8 DEF Holds
      <3>2. CASE accept.last \notin S
        <4>1. \A n \in S : next'[n] = next[n]
          BY <1>0, <2>1, <3>2 DEF Holds
        <4> QED BY <1>0, <2>1, <2>3, <2>4, <3>2, <4>1 DEF Holds
      <3> QED BY <3>1, <3>2
    <2>6. ASSUME NEW t \in Threads PROVE Removes(t, R)'
      <3>1. /\ thread[t].current \notin Unlinked /\ thread[t].prev \notin Unlinked
            /\ Removes(t, S) /\ S \subseteq R /\ R \subseteq S \cup {new}
        BY <1>0, <2>4 DEF Untouched
      <3>2. thread[t].current # new
        BY <2>2, <3>1
      <3>3. Before(t, S) => Before(t, R)'
        BY <1>0, <1>t, <2>1, <3>1 DEF Before, Holds
      <3>4. Before(t, S) => next'[thread[t].current] = next[thread[t].current]
                            \/ next[thread[t].current] = NoClient
        BY <1>0, <2>1 DEF Before, Holds
      <3> QED BY <1>t, <2>1, <3>1, <3>2, <3>3, <3>4 DEF Removes
    <2> QED BY <2>3, <2>4, <2>5, <2>6 DEF SoundWith
  <1>9. ASSUME Swing \/ Help PROVE Goal
    <2>1. /\ accept.pc \in {"swing", "help"} /\ accept'.pc \in {"more", "load"}
          /\ tail' \in {tail, accept.client, accept.next}
          /\ tail' = NoClient => tail = NoClient
          /\ UNCHANGED <<head, next, state>>
          /\ Preparing' => Preparing /\ accept'.client = accept.client
      BY <1>0, <1>9 DEF Swing, Help, MoveTail, AcceptRecord, Preparing, AcceptKnows
    <2>2. Unlinked' \subseteq Unlinked /\ Ends'
      BY <1>0, <2>1 DEF Unlinked, Ends
    <2> QED BY <1>0, <1>1, <2>1, <2>2
  <1> HIDE DEF Goal
  <1>10. Goal
    BY <1>2, <1>3, <1>4, <1>5, <1>6, <1>8, <1>9, <1>7 DEF Accept, AddClient
  <1> QED BY <1>10 DEF Goal

\* A step of the worker or the handler, while the other one removes nothing: the set loses the
\* node that is unlinked.
LEMMA SoundMove ==
    ASSUME Pointers, NEW S \in SUBSET Clients, SoundWith(S), NEW t \in Threads,
           \/ Stroll(t)
           \/ RemoveSocketFromList(t) /\ \A u \in Threads : u # t => ~Removing(u)
    PROVE  \E R \in SUBSET Clients : SoundWith(R)'
  <1> DEFINE Goal == \E R \in SUBSET Clients : SoundWith(R)'
  <1>a. PICK here : here = thread[t]
    OBVIOUS
  <1>0. /\ Fields /\ Holds(S) /\ Ends /\ \A u \in Threads : Removes(u, S)
        /\ next \in [Clients -> Links] /\ state \in [Clients -> {"new", "live", "gone"}]
        /\ thread \in [Threads -> ThreadRecord] /\ here \in ThreadRecord
        /\ Untouched /\ AcceptKnows /\ ThreadKnows(t)
        /\ NoClient \notin Clients /\ NoClient \notin Unlinked
        /\ Removes(t, S)
    BY <1>a, ListAssumption, NothingUnlinked DEF SoundWith, Pointers, Types, Fields
  <1>1. ASSUME Stroll(t) PROVE Goal
    <2>1. Unlinked' = Unlinked /\ UNCHANGED <<head, tail, next, state, accept>>
      BY <1>1, SameUnlinked DEF Stroll, Preparing
    <2>2. Holds(S)' /\ Ends'
      BY <1>0, <2>1 DEF Holds, Ends
    <2>3. ASSUME NEW u \in Threads PROVE Removes(u, S)'
      <3>1. CASE u = t
        <4>1. thread'[t].pc = "look" => thread'[t].prev = NoClient /\ thread'[t].current = head
          BY <1>1 DEF Stroll
        <4>2. thread'[t].pc \in {"idle", "turn", "copy", "has", "send", "look"}
          BY <1>1 DEF Stroll
        <4>3. thread'[t].pc = "look" => thread'[t].current = NoClient \/ Before(t, S)'
          BY <1>0, <2>1, <4>1 DEF Before, Holds
        <4> QED BY <3>1, <4>2, <4>3 DEF Removes
      <3>2. CASE u # t
        <4>1. thread'[u] = thread[u] /\ Removes(u, S)
          BY <1>0, <1>1, <3>2 DEF Stroll
        <4> QED BY <2>1, <4>1 DEF Removes, Before
      <3> QED BY <3>1, <3>2
    <2> QED BY <2>2, <2>3 DEF SoundWith
  <1>2. ASSUME \A u \in Threads : u # t => ~Removing(u), NEW pc, NEW prev, NEW current, NEW then,
               Goes(t, pc, prev, current, then), NEW R \in SUBSET Clients, Removes(t, R)',
               Holds(R)', Ends'
        PROVE  Goal
    <2>1. ASSUME NEW u \in Threads, u # t PROVE Removes(u, R)'
      <3>1. ~Removing(u)' 
        BY <1>2, <2>1 DEF Goes, Removing
      <3> QED BY <3>1 DEF Removing, Removes
    <2> QED BY <1>2, <2>1 DEF SoundWith
  <1>3. ASSUME RemoveSocketFromList(t), \A u \in Threads : u # t => ~Removing(u) PROVE Goal
    <2> DEFINE n == here.current
    <2>1. ASSUME UNCHANGED <<head, next, accept>>,
                 \A c \in Clients : state'[c] = state[c] \/ (c \notin S /\ state'[c] # "new"
                                                             /\ state[c] # "new"),
                 tail' \in {tail, NoClient} \/ head # NoClient,
                 tail' = NoClient => tail = NoClient \/ head = NoClient
          PROVE  Holds(S)' /\ Ends'
      <3>1. Unlinked' = Unlinked
        BY <2>1, SameUnlinked DEF Preparing
      <3> QED BY <1>0, <2>1, <3>1 DEF Holds, Ends
    <2>2. ASSUME Look(t) PROVE Goal
      <3>1. here.pc = "look" /\ UNCHANGED <<head, tail, next, state, accept>>
        BY <1>a, <2>2 DEF Look
      <3>2. Holds(S)' /\ Ends'
        BY <2>1, <3>1
      <3>3. CASE n = NoClient /\ Goes(t, Home(t), NoClient, NoClient, NoClient)
        <4>1. Removes(t, S)'
          BY <3>3 DEF Goes, Home, Removes
        <4> QED BY <1>2, <1>3, <3>2, <3>3, <4>1
      <3>4. CASE n \in Clients /\ Goes(t, "unlink", here.prev, n, next[n])
        <4>1. Before(t, S)
          BY <1>a, <1>0, <3>1, <3>4 DEF Removes
        <4>2. Removes(t, S)'
          BY <1>a, <3>1, <3>4, <4>1 DEF Goes, Removes, Before
        <4> QED BY <1>2, <1>3, <3>2, <3>4, <4>2
      <3>5. CASE n \in Clients /\ Goes(t, "look", n, next[n], here.next)
        <4>1. n \in S /\ next[n] \in S \cup {NoClient}
          BY <1>a, <1>0, <3>1, <3>5 DEF Removes, Before, Holds
        <4>2. Removes(t, S)'
          BY <1>0, <3>1, <3>5, <4>1 DEF Goes, Removes, Before
        <4> QED BY <1>2, <1>3, <3>2, <3>5, <4>2
      <3> QED BY <1>a, <1>0, <2>2, <3>3, <3>4, <3>5, LookForms
    <2>3. ASSUME UnlinkFirst(t) PROVE Goal
      <3>1. /\ here.pc = "unlink" /\ here.prev = NoClient
            /\ UNCHANGED <<tail, next, state, accept>>
        BY <1>a, <2>3 DEF UnlinkFirst
      <3>2. n \in S /\ head = n /\ here.next \in {NoClient, next[n]}
        BY <1>a, <1>0, <3>1 DEF Removes, Before
      <3>3. head' = here.next /\ Only(t, IF here.next = NoClient THEN "empty" ELSE "delete")
        BY <1>a, <1>0, <2>3, <3>2, UnlinkFirstForms
      <3>4. Unlinked' = Unlinked
        BY <3>1, SameUnlinked DEF Preparing
      <3>5. tail = NoClient => accept.pc = "tail"
        BY <1>0, <3>2 DEF Ends
      <3>6. Ends'
        BY <1>0, <3>1, <3>2, <3>5 DEF Ends
      <3>7. CASE here.next = NoClient
        <4>1. Holds({})'
          BY <3>3, <3>7 DEF Holds
        <4>2. Removes(t, {})'
          BY <3>1, <3>3, <3>5, <3>7 DEF Removes, Only, Goes
        <4> QED BY <1>2, <1>3, <3>3, <3>6, <4>1, <4>2 DEF Only
      <3>8. CASE here.next # NoClient
        <4>1. PICK R \in SUBSET Clients : R = S \ {n}
          OBVIOUS
        <4>2. next[n] = here.next /\ next[n] \in R
          BY <1>0, <3>2, <3>8, <4>1 DEF Holds
        <4>3. Holds(R)'
          BY <1>0, <3>1, <3>2, <3>3, <3>4, <4>1, <4>2 DEF Holds
        <4>4. Removes(t, R)'
          BY <1>a, <3>3, <3>8, <4>1 DEF Removes, Only, Goes
        <4> QED BY <1>2, <1>3, <3>3, <3>6, <4>3, <4>4 DEF Only
      <3> QED BY <3>7, <3>8
    <2>4. ASSUME UnlinkLater(t) PROVE Goal
      <3>1. /\ here.pc = "unlink" /\ here.prev \in Clients
            /\ UNCHANGED <<head, tail, state, accept>>
        BY <1>a, <1>0, <2>4, UnlinkLaterForms
      <3>2. n \in S /\ here.prev \in S /\ next[here.prev] = n /\ here.next \in {NoClient, next[n]}
        BY <1>a, <1>0, <3>1 DEF Removes, Before
      <3>3. next' = [next EXCEPT ![here.prev] = here.next] /\ Only(t, "end")
        BY <1>a, <1>0, <2>4, <3>2, UnlinkLaterForms
      <3>4. Unlinked' = Unlinked
        BY <3>1, SameUnlinked DEF Preparing
      <3>5. PICK R \in SUBSET Clients : R = S \ {n}
        OBVIOUS
      <3>6. \A m \in R : next[m] # n \/ m = here.prev
        BY <1>0, <3>2, <3>5 DEF Holds
      <3>7. head \in R
        BY <1>0, <3>2, <3>5 DEF Holds
      <3>8. \A m \in R : next'[m] \in R \cup {NoClient}
        BY <1>0, <3>1, <3>2, <3>3, <3>5, <3>6 DEF Holds
      <3>9. \A m \in R : next'[m] # head \/ next'[m] = NoClient
        BY <1>0, <3>1, <3>2, <3>3, <3>5, <3>6 DEF Holds
      <3>10. \A l, m \in R : next'[l] = next'[m] /\ next'[l] # NoClient => l = m
        BY <1>0, <3>1, <3>2, <3>3, <3>5, <3>6 DEF Holds
      <3>11. Holds(R)'
        BY <1>0, <3>1, <3>4, <3>5, <3>7, <3>8, <3>9, <3>10 DEF Holds
      <3>12. Removes(t, R)'
        BY <1>a, <1>0, <3>1, <3>3, <3>5, <3>7 DEF Removes, Only, Goes
      <3>13. Ends'
        BY <1>0, <3>1 DEF Ends
      <3> QED BY <1>2, <1>3, <3>3, <3>11, <3>12, <3>13 DEF Only
    <2>5. ASSUME StepOn(t) PROVE Goal
      BY <1>a, <1>0, <2>5 DEF StepOn, Removes
    <2>6. ASSUME ClearTail(t) \/ RetractTail(t) \/ TestTail(t) PROVE Goal
      <3>1. /\ here.pc \in {"empty", "retract", "end"} /\ UNCHANGED <<head, next, state, accept>>
            /\ tail' \in {tail, NoClient} \/ head # NoClient
            /\ tail' = NoClient => tail = NoClient \/ head = NoClient
        BY <1>a, <1>0, <2>6 DEF ClearTail, RetractTail, TestTail, memory, Removes, ThreadKnows
      <3>2. Holds(S)' /\ Ends'
        BY <2>1, <3>1
      <3>3. Only(t, "delete") \/ (here.pc = "end" /\ Only(t, "retract"))
        BY <1>a, <1>0, <2>6, RemovalForms
      <3>4. Removes(t, S)'
        BY <1>a, <1>0, <3>1, <3>3 DEF Removes, Only, Goes
      <3> QED BY <1>2, <1>3, <3>2, <3>3, <3>4 DEF Only
    <2>7. ASSUME DeleteNode(t) PROVE Goal
      <3>1. /\ here.pc = "delete" /\ UNCHANGED <<head, tail, next, accept>>
            /\ state' = [state EXCEPT ![n] = "gone"] /\ Only(t, "less")
        BY <1>a, <1>0, <2>7, RemovalForms DEF DeleteNode
      <3>2. n \in Clients /\ n \notin S /\ n \notin Unlinked
        BY <1>a, <1>0, <3>1 DEF Removes, ThreadKnows, Untouched
      <3>3. \A c \in Clients : state'[c] = state[c] \/ (c \notin S /\ state'[c] # "new"
                                                        /\ state[c] # "new")
        BY <1>0, <3>1, <3>2 DEF Unlinked
      <3>4. Holds(S)' /\ Ends'
        BY <2>1, <3>1, <3>3
      <3>5. Removes(t, S)'
        BY <3>1 DEF Removes, Only, Goes
      <3> QED BY <1>2, <1>3, <3>1, <3>4, <3>5 DEF Only
    <2>8. ASSUME SubFromCount(t) PROVE Goal
      <3>1. UNCHANGED <<head, tail, next, state, accept>>
            /\ Goes(t, Home(t), NoClient, NoClient, NoClient)
        BY <1>0, <2>8, RemovalForms DEF SubFromCount
      <3>2. Holds(S)' /\ Ends' /\ Removes(t, S)'
        BY <2>1, <3>1 DEF Goes, Home, Removes
      <3> QED BY <1>2, <1>3, <3>1, <3>2
    <2> HIDE DEF Goal
    <2> QED
      BY <1>3, <2>2, <2>3, <2>4, <2>5, <2>6, <2>7, <2>8 DEF RemoveSocketFromList
  <1> QED BY <1>1, <1>3

\* Sound holds in every state.
LEMMA SoundNext == ASSUME Pointers, Sound, [Next]_vars PROVE Sound'
  <1>1. CASE UNCHANGED vars
    BY <1>1 DEF vars, memory, Sound, SoundWith, Holds, Ends, Removes, Before, Unlinked, Preparing
  <1>2. CASE Next
    <2> SUFFICES ASSUME "remove-remove" \notin clash' PROVE \E R \in SUBSET Clients : SoundWith(R)'
      BY DEF Sound
    <2>1. Pointers' /\ Fields /\ Step /\ clash \subseteq clash'
      BY <1>2, PointersNext DEF Pointers, Types, Next
    <2>2. PICK S \in SUBSET Clients : SoundWith(S)
      BY <2>1 DEF Sound
    <2>3. ~(\A u \in Threads : Removing(u))
      <3>1. "remove-remove" \notin Overlaps
        BY <2>1 DEF Pointers, Types
      <3> QED BY <3>1 DEF Overlaps, Overlap, Kinds
    <2>4. ASSUME NEW t \in Threads, RemoveSocketFromList(t), NEW u \in Threads, u # t
          PROVE  ~Removing(u)
      <3>1. Removing(t)
        BY <2>4 DEF RemoveSocketFromList, Removing, Look, UnlinkFirst, UnlinkLater, StepOn,
                    ClearTail, TestTail, RetractTail, DeleteNode, SubFromCount
      <3> QED BY <2>3, <2>4, <3>1 DEF Threads
    <2>5. Accept \/ \E t \in Threads : Stroll(t) \/ RemoveSocketFromList(t)
      BY <2>1, Steps
    <2> QED BY <2>1, <2>2, <2>4, <2>5, SoundAccept, SoundMove
  <1> QED BY <1>1, <1>2

LEMMA SoundInit == ASSUME Init PROVE Sound
  <1>1. PICK c \in Clients :
            /\ head = c /\ tail = c
            /\ next = [n \in Clients |-> NoClient]
            /\ state = [n \in Clients |-> IF n = c THEN "live" ELSE "new"]
            /\ accept = NoAddition /\ thread = [t \in Threads |-> Resting]
    BY DEF Init
  <1>2. Holds({c})
    BY <1>1, ListAssumption DEF Holds, Unlinked, Preparing, NoAddition
  <1>3. Ends /\ \A t \in Threads : Removes(t, {c})
    BY <1>1, ListAssumption DEF Ends, Removes, NoAddition, Resting
  <1> QED BY <1>2, <1>3 DEF Sound, SoundWith

LEMMA SoundHolds == Spec => []Sound
  <1>1. Init => Sound
    BY SoundInit
  <1>2. Pointers /\ Sound /\ [Next]_vars => Sound'
    BY SoundNext
  <1> QED BY <1>1, <1>2, PointersAndCounts, PTL DEF Spec

-----------------------------------------------------------------------------
(* The recursive function Seen: that there is one with its equation, and   *)
(* its values, by induction.  Induction comes from the well-founded order  *)
(* of finite sets.                                                         *)

\* Of some numbers one is the smallest.
LEMMA Least ==
    ASSUME NEW A \in SUBSET Nat, A # {}
    PROVE  \E m \in A : \A k \in A : m <= k
  <1> DEFINE F == {0..n : n \in A}
  <1>1. F \subseteq FiniteSubsetsOf(Nat) /\ F # {}
    <2>1. \A n \in A : 0..n \in SUBSET Nat /\ IsFiniteSet(0..n)
      BY FS_Interval
    <2> QED BY <2>1 DEF FiniteSubsetsOf
  <1>2. IsWellFoundedOn(StrictSubsetOrdering(Nat), FiniteSubsetsOf(Nat))
    BY FS_StrictSubsetOrderingWellFounded
  <1>3. \E x \in F : \A y \in F : ~ (<<y, x>> \in StrictSubsetOrdering(Nat))
    <2> HIDE DEF F
    <2> QED BY <1>1, <1>2, WFMin
  <1>4. PICK m \in A : \A y \in F : ~ (<<y, 0..m>> \in StrictSubsetOrdering(Nat))
    BY <1>3
  <1>5. ASSUME NEW k \in A, k < m PROVE FALSE
    <2>1. 0..k \in F /\ 0..k \subseteq 0..m /\ m \in 0..m /\ m \notin 0..k
      BY <1>5
    <2>2. 0..k \in SUBSET Nat /\ 0..m \in SUBSET Nat
      BY <1>5
    <2>3. <<0..k, 0..m>> \in StrictSubsetOrdering(Nat)
      BY <2>1, <2>2 DEF StrictSubsetOrdering
    <2> QED BY <2>1, <2>3, <1>4
  <1> QED BY <1>5

\* What holds of 0, and of the successor of each number of which it holds, holds of all.
LEMMA Induction ==
    ASSUME NEW A, 0 \in A, \A n \in Nat : n \in A => n + 1 \in A
    PROVE  \A n \in Nat : n \in A
  <1> DEFINE B == {n \in Nat : n \notin A}
  <1>1. SUFFICES ASSUME B # {} PROVE FALSE
    OBVIOUS
  <1>2. B \in SUBSET Nat
    OBVIOUS
  <1> HIDE DEF B
  <1>3. PICK m \in B : \A k \in B : m <= k
    BY <1>1, <1>2, Least
  <1>4. m \in Nat /\ m \notin A /\ m # 0
    BY <1>3 DEF B
  <1>5. m - 1 \in Nat /\ ~(m <= m - 1)
    BY <1>4
  <1>6. m - 1 \in A
    BY <1>3, <1>5 DEF B
  <1>7. (m - 1) + 1 = m
    BY <1>4
  <1>8. (m - 1) + 1 \in A
    BY <1>5, <1>6
  <1> QED BY <1>4, <1>7, <1>8

\* the right-hand side of Seen's definition
Further(g, k) == IF k = 0 THEN {head} ELSE g[k - 1] \cup {next[n] : n \in g[k - 1] \ {NoClient}}

\* Seen satisfies its equation.
LEMMA SeenIs == \A k \in 0..Cardinality(Clients) : Seen[k] = Further(Seen, k)
  <1> DEFINE C == Cardinality(Clients)
             Depths == 0..C
             Upto(g, j) == \A k \in Depths : k < j => g[k] = Further(g, k)
             A == {j \in Nat : \E g : Upto(g, j)}
  <1>0. C \in Nat
    BY Sizes
  <1> HIDE DEF C
  <1>1. 0 \in A
    <2>1. \A k \in Depths : ~(k < 0)
      BY <1>0
    <2> QED BY <2>1
  <1>2. ASSUME NEW j \in Nat, j \in A PROVE j + 1 \in A
    <2>1. PICK g : Upto(g, j)
      BY <1>2
    <2> DEFINE g2 == [k \in Depths |-> Further(g, k)]
    <2>2. ASSUME NEW k \in Depths, k < j + 1 PROVE g2[k] = Further(g2, k)
      <3>1. CASE k = 0
        BY <3>1 DEF Further
      <3>2. CASE k # 0
        <4>1. k - 1 \in Depths /\ k - 1 < j
          BY <1>0, <2>2, <3>2
        <4>2. g2[k - 1] = g[k - 1]
          BY <2>1, <4>1
        <4> QED BY <3>2, <4>2 DEF Further
      <3> QED BY <3>1, <3>2
    <2> HIDE DEF g2
    <2>3. Upto(g2, j + 1)
      BY <2>2
    <2> QED BY <2>3
  <1>3. \A j \in Nat : j \in A
    <2> HIDE DEF A
    <2> QED BY <1>1, <1>2, Induction
  <1>4. PICK g : Upto(g, C + 1)
    <2>1. C + 1 \in A
      BY <1>0, <1>3
    <2> QED BY <2>1
  <1>5. \A k \in Depths : k < C + 1
    BY <1>0
  <1> DEFINE h == [k \in Depths |-> g[k]]
  <1>6. h = [k \in Depths |-> Further(h, k)]
    <2>1. ASSUME NEW k \in Depths PROVE h[k] = Further(h, k)
      <3>1. g[k] = Further(g, k)
        BY <1>4, <1>5
      <3>2. k # 0 => k - 1 \in Depths
        BY <1>0
      <3> QED BY <3>1, <3>2 DEF Further
    <2> QED BY <2>1
  <1> HIDE DEF h
  <1>7. Seen = CHOOSE a : a = [k \in Depths |-> Further(a, k)]
    BY DEF Seen, Further, C
  <1>8. Seen = [k \in Depths |-> Further(Seen, k)]
    BY <1>6, <1>7
  <1> QED BY <1>8 DEF C

\* What the list leads to stays in a set that is closed under next.
LEMMA Within ==
    ASSUME NEW S, head \in S \cup {NoClient}, \A n \in S : next[n] \in S \cup {NoClient}
    PROVE  OnList \subseteq S
  <1> DEFINE C == Cardinality(Clients)
             A == {k \in Nat : k <= C => Seen[k] \subseteq S \cup {NoClient}}
  <1>0. C \in Nat
    BY Sizes
  <1>e. \A k \in 0..C : Seen[k] = Further(Seen, k)
    BY SeenIs
  <1> HIDE DEF C
  <1>1. 0 \in A
    <2>1. 0 \in 0..C
      BY <1>0
    <2>2. Seen[0] = {head}
      BY <1>e, <2>1 DEF Further
    <2> QED BY <2>2
  <1>2. ASSUME NEW k \in Nat, k \in A PROVE k + 1 \in A
    <2> SUFFICES ASSUME k + 1 <= C PROVE Seen[k + 1] \subseteq S \cup {NoClient}
      OBVIOUS
    <2>1. k <= C /\ k + 1 \in 0..C /\ k + 1 # 0 /\ (k + 1) - 1 = k
      BY <1>0
    <2>2. Seen[k + 1] = Seen[k] \cup {next[n] : n \in Seen[k] \ {NoClient}}
      BY <1>e, <2>1 DEF Further
    <2>3. Seen[k] \subseteq S \cup {NoClient}
      BY <1>2, <2>1
    <2> QED BY <2>2, <2>3
  <1>3. C \in A
    <2> HIDE DEF A
    <2> QED BY <1>0, <1>1, <1>2, Induction
  <1> QED BY <1>0, <1>3 DEF OnList, C

\* While removals exclude each other, every node on the list is alive and its socket open:
\* select never fails on a closed socket, even though clients are added meanwhile.
THEOREM ListIsAlive == Spec => []ListSound
  <1>1. Pointers /\ Sound => ListSound
    <2> SUFFICES ASSUME Pointers, Sound, "remove-remove" \notin clash
                 PROVE  \A c \in OnList : state[c] = "live"
      BY DEF ListSound
    <2>1. PICK S \in SUBSET Clients : Holds(S)
      BY DEF Sound, SoundWith
    <2>2. OnList \subseteq S
      BY <2>1, Within DEF Holds, Pointers, Types, Fields
    <2> QED BY <2>1, <2>2 DEF Holds
  <1> QED BY <1>1, PointersAndCounts, SoundHolds, PTL

-----------------------------------------------------------------------------
(* The list while additions and removals exclude each other: the nodes     *)
(* f[1] to f[m].                                                           *)

Last(f, m) == IF m = 0 THEN NoClient ELSE f[m]
OnChain(f, m, c) == \E i \in 1..m : c = f[i]

Chain(f, m) ==
    /\ \A i, j \in 1..m : f[i] = f[j] => i = j
    /\ \A i \in 1..m : next[f[i]] = IF i = m THEN NoClient ELSE f[i + 1]
    /\ \A i \in 1..m : f[i] \notin Unlinked
    /\ head = IF m = 0 THEN NoClient ELSE f[1]

\* a removal has taken its node from the list and not deleted it yet
Cut(t) == thread[t].pc \in {"empty", "end", "retract", "delete"}

\* Alive are the nodes on the list, the one to be put on it and the one taken from it.
Live(f, m) ==
    \A c \in Clients :
        state[c] = "live" <=> \/ OnChain(f, m, c)
                              \/ Preparing /\ c = accept.client
                              \/ \E t \in Threads : Cut(t) /\ c = thread[t].current

\* an addition, from the empty list or after the last node
AddsTo(f, m) ==
    /\ accept.pc # "help"
    /\ accept.pc = "head" => m = 0
    /\ accept.pc \in {"next", "check", "link"} => m # 0 /\ accept.last = f[m]
    /\ accept.pc = "check" => accept.next = NoClient
    /\ accept.pc = "swing" => m > 1 /\ accept.last = f[m - 1] /\ tail = accept.last
    /\ accept.pc = "tail" => tail = NoClient
    /\ accept.pc \in {"tail", "one"} => m = 1
    /\ accept.pc \in {"tail", "one", "swing", "more"} => m # 0 /\ accept.client = f[m]
    /\ accept.pc \notin {"swing", "tail"} => tail = Last(f, m)
    /\ count = IF Preparing THEN m ELSE m - 1

\* a removal, from the search for the node to the counter
RemovesFrom(t, f, m) ==
    LET here == thread[t] IN
    /\ here.pc # "step"
    /\ here.pc = "unlink" \/ (here.pc = "look" /\ here.current # NoClient) =>
          \E i \in 1..m : /\ here.current = f[i]
                          /\ here.prev = IF i = 1 THEN NoClient ELSE f[i - 1]
    /\ here.pc = "unlink" => here.next = next[here.current]
    /\ Cut(t) => ~OnChain(f, m, here.current)
    /\ here.pc = "empty" => m = 0
    /\ here.pc \in {"end", "retract"} => m # 0
    /\ here.pc = "end" => tail \in {here.current, f[m]}
    /\ here.pc \in {"empty", "retract"} => tail = here.current
    /\ here.pc \in {"end", "retract"} /\ tail = here.current => here.prev = f[m]
    /\ here.pc \notin {"empty", "end", "retract"} => tail = Last(f, m)
    /\ count = IF Cut(t) \/ here.pc = "less" THEN m + 1 ELSE m

Quiet == ~Adding /\ \A t \in Threads : ~Removing(t)

\* a walk that has overlapped no removal is on the list
Walks(f, m) ==
    clash = {} => \A t \in Threads : Walking(t) =>
                      thread[t].current = NoClient \/ OnChain(f, m, thread[t].current)

Exact(f, m) ==
    /\ Chain(f, m) /\ Live(f, m) /\ Walks(f, m)
    /\ Adding => AddsTo(f, m)
    /\ \A t \in Threads : Removing(t) => RemovesFrom(t, f, m)
    /\ Quiet => tail = Last(f, m) /\ count = m

Apart == clash \subseteq {"walk-remove"}

Tracked == Apart => \E f \in [Nat -> Clients], m \in Nat : Exact(f, m)

\* A chain with a node more at its end.
LEMMA Longer ==
    ASSUME NEW f \in [Nat -> Clients], NEW m \in Nat, NEW new \in Clients,
           \A i, j \in 1..m : f[i] = f[j] => i = j, ~OnChain(f, m, new)
    PROVE  \E g \in [Nat -> Clients] :
              /\ \A i \in 1..m : g[i] = f[i]
              /\ g[m + 1] = new
              /\ \A i, j \in 1..(m + 1) : g[i] = g[j] => i = j
              /\ \A c \in Clients : OnChain(g, m + 1, c) <=> OnChain(f, m, c) \/ c = new
  <1> DEFINE g == [f EXCEPT ![m + 1] = new]
  <1>0. g \in [Nat -> Clients] /\ g[m + 1] = new
    OBVIOUS
  <1>1. \A i \in 1..m : g[i] = f[i]
    OBVIOUS
  <1> HIDE DEF g
  <1>2. \A i \in 1..(m + 1) : i \in 1..m \/ i = m + 1
    OBVIOUS
  <1>3. \A i \in 1..m : i \in 1..(m + 1) /\ m + 1 \in 1..(m + 1)
    OBVIOUS
  <1>4. m + 1 \in 1..(m + 1)
    OBVIOUS
  <1>5. \A i, j \in 1..(m + 1) : g[i] = g[j] => i = j
    <2>1. \A i \in 1..m : g[i] # new
      BY <1>1 DEF OnChain
    <2> QED BY <1>0, <1>1, <1>2, <2>1
  <1>6. \A c \in Clients : OnChain(g, m + 1, c) <=> OnChain(f, m, c) \/ c = new
    BY <1>0, <1>1, <1>2, <1>3, <1>4 DEF OnChain
  <1> QED BY <1>0, <1>1, <1>5, <1>6

\* A chain with the i-th node left out.
LEMMA Shorter ==
    ASSUME NEW f \in [Nat -> Clients], NEW m \in Nat, NEW i \in 1..m,
           \A j, k \in 1..m : f[j] = f[k] => j = k
    PROVE  \E g \in [Nat -> Clients] :
              /\ \A j \in 1..(m - 1) : g[j] = IF j < i THEN f[j] ELSE f[j + 1]
              /\ \A j, k \in 1..(m - 1) : g[j] = g[k] => j = k
              /\ \A c \in Clients : OnChain(g, m - 1, c) <=> OnChain(f, m, c) /\ c # f[i]
  <1> DEFINE g == [j \in Nat |-> IF j < i THEN f[j] ELSE f[j + 1]]
  <1>0. g \in [Nat -> Clients]
    OBVIOUS
  <1>1. \A j \in 1..(m - 1) : g[j] = IF j < i THEN f[j] ELSE f[j + 1]
    OBVIOUS
  <1> HIDE DEF g
  <1>2. \A j \in 1..(m - 1) : j \in 1..m /\ j + 1 \in 1..m /\ (j < i => j # i)
                              /\ (~(j < i) => j + 1 # i)
    OBVIOUS
  <1>3. \A j \in 1..m : \/ j = i
                        \/ j \in 1..(m - 1) /\ j < i
                        \/ j - 1 \in 1..(m - 1) /\ ~(j - 1 < i) /\ (j - 1) + 1 = j
    OBVIOUS
  <1>4. \A j, k \in 1..(m - 1) : g[j] = g[k] => j = k
    <2> SUFFICES ASSUME NEW j \in 1..(m - 1), NEW k \in 1..(m - 1), g[j] = g[k] PROVE j = k
      OBVIOUS
    <2>1. CASE j < i /\ k < i
      BY <1>1, <1>2, <2>1
    <2>2. CASE j < i /\ ~(k < i)
      <3>1. f[j] = f[k + 1] /\ j # k + 1
        BY <1>1, <2>2
      <3> QED BY <1>2, <3>1
    <2>3. CASE ~(j < i) /\ k < i
      <3>1. f[j + 1] = f[k] /\ j + 1 # k
        BY <1>1, <2>3
      <3> QED BY <1>2, <3>1
    <2>4. CASE ~(j < i) /\ ~(k < i)
      <3>1. f[j + 1] = f[k + 1]
        BY <1>1, <2>4
      <3>2. j + 1 = k + 1
        BY <1>2, <3>1
      <3> QED BY <3>2
    <2> QED BY <2>1, <2>2, <2>3, <2>4
  <1>5. ASSUME NEW c \in Clients PROVE OnChain(g, m - 1, c) <=> OnChain(f, m, c) /\ c # f[i]
    <2>1. ASSUME NEW j \in 1..(m - 1), c = g[j] PROVE OnChain(f, m, c) /\ c # f[i]
      BY <1>1, <1>2, <2>1 DEF OnChain
    <2>2. ASSUME NEW j \in 1..m, c = f[j], c # f[i] PROVE OnChain(g, m - 1, c)
      BY <1>1, <1>3, <2>2 DEF OnChain
    <2> QED BY <2>1, <2>2 DEF OnChain
  <1> QED BY <1>0, <1>1, <1>4, <1>5

\* The nodes on the list are alive.
LEMMA ChainNodes ==
    ASSUME NEW f \in [Nat -> Clients], NEW m \in Nat, Exact(f, m)
    PROVE  /\ \A i \in 1..m : f[i] \in Clients /\ state[f[i]] = "live" /\ OnChain(f, m, f[i])
           /\ m # 0 => m \in 1..m /\ 1 \in 1..m
           /\ Last(f, m) \in Clients \cup {NoClient}
           /\ m # 0 => Last(f, m) = f[m] /\ f[m] \in Clients
  BY DEF Exact, Live, OnChain, Last

\* An addition, while nothing is removed: the chain grows by the new node at its end.
LEMMA TrackedAccept ==
    ASSUME Pointers, Pointers', NEW f \in [Nat -> Clients], NEW m \in Nat, Exact(f, m), Accept,
           \A t \in Threads : ~Removing(t), ~misused, clash \subseteq clash'
    PROVE  ~misused' /\ \E g \in [Nat -> Clients], k \in Nat : Exact(g, k)'
  <1> DEFINE Goal == ~misused' /\ \E g \in [Nat -> Clients], k \in Nat : Exact(g, k)'
  <1>n. PICK new : new = accept.client
    OBVIOUS
  <1>0. /\ next \in [Clients -> Links] /\ state \in [Clients -> {"new", "live", "gone"}]
        /\ accept \in AcceptRecord /\ thread \in [Threads -> ThreadRecord]
        /\ Untouched /\ AcceptKnows
        /\ NoClient \notin Clients /\ NoClient \notin Unlinked
        /\ Chain(f, m) /\ Live(f, m) /\ Walks(f, m)
        /\ Adding => AddsTo(f, m)
        /\ ~Adding => tail = Last(f, m) /\ count = m
    BY ListAssumption, NothingUnlinked DEF Exact, Quiet, Pointers, Types, Fields
  <1>t. /\ UNCHANGED thread
        /\ \A t \in Threads : ~Removing(t)' /\ ~Cut(t) /\ ~Cut(t)'
    <2>1. UNCHANGED thread
      BY DEF Accept, AddStart, AddClient, LoadTail, StoreHead, StoreTail, StoreCount, LoadNext,
             CheckTail, Link, Swing, Help, AddToCount
    <2> QED BY <2>1 DEF Removing, Cut
  <1>1. ASSUME NEW g \in [Nat -> Clients], NEW k \in Nat, ~misused',
               Chain(g, k)', Live(g, k)', \A c \in Clients : OnChain(f, m, c) => OnChain(g, k, c),
               Adding' => AddsTo(g, k)', ~Adding' => tail' = Last(g, k) /\ count' = k
        PROVE  Goal
    <2>1. Walks(g, k)'
      <3> SUFFICES ASSUME clash' = {}, NEW t \in Threads, Walking(t)'
                   PROVE  thread'[t].current = NoClient \/ OnChain(g, k, thread'[t].current)
        BY DEF Walks, OnChain
      <3>1. thread[t].current = NoClient \/ OnChain(f, m, thread[t].current)
        BY <1>0, <1>t DEF Walks, Walking
      <3>2. thread[t].current \in Links
        BY <1>0 DEF ThreadRecord
      <3> QED BY <1>1, <1>t, <3>1, <3>2 DEF Links
    <2>2. Exact(g, k)'
      BY <1>t, <1>1, <2>1 DEF Exact, Quiet, Last
    <2> QED BY <1>1, <2>2
  <1>2. ASSUME UNCHANGED <<head, next, state>>, Preparing' <=> Preparing,
               accept'.client = accept.client
        PROVE  Chain(f, m)' /\ Live(f, m)'
    <2>1. Unlinked' = Unlinked
      BY <1>2, SameUnlinked
    <2> QED BY <1>0, <1>t, <1>2, <2>1 DEF Chain, Live, OnChain
  <1>3. ASSUME NEW c \in Clients, AddStart(c) PROVE Goal
    <2>1. /\ accept.pc = "idle" /\ state[c] = "new" /\ state' = [state EXCEPT ![c] = "live"]
          /\ accept'.pc = "load" /\ accept'.client = c
          /\ UNCHANGED <<head, tail, count, next, misused>>
      BY <1>0, <1>3 DEF AddStart, AcceptRecord
    <2>2. Unlinked' = Unlinked /\ Preparing' /\ ~Preparing
      BY <1>0, <2>1 DEF Unlinked, Preparing
    <2>3. Chain(f, m)'
      BY <1>0, <2>1, <2>2 DEF Chain
    <2>4. Live(f, m)'
      BY <1>0, <1>t, <2>1, <2>2 DEF Live, OnChain
    <2>5. tail = Last(f, m) /\ count = m
      BY <1>0, <2>1 DEF Adding
    <2>6. AddsTo(f, m)'
      BY <2>1, <2>2, <2>5 DEF AddsTo, Last
    <2>7. Adding'
      BY <2>1 DEF Adding
    <2> QED BY <1>1, <2>1, <2>3, <2>4, <2>6, <2>7
  <1>4. ASSUME LoadTail PROVE Goal
    <2>1. /\ accept.pc = "load" /\ UNCHANGED <<head, tail, count, next, state, misused>>
          /\ accept'.client = accept.client /\ accept'.last = tail
          /\ accept'.pc = IF tail = NoClient THEN "head" ELSE "next"
      BY <1>0, <1>4 DEF LoadTail, memory, AcceptRecord
    <2>2. tail = Last(f, m) /\ count = m /\ Adding' /\ Preparing /\ Preparing'
      BY <1>0, <2>1 DEF Adding, AddsTo, Preparing
    <2>3. tail = NoClient <=> m = 0
      BY <1>0, <2>2, ChainNodes DEF Last
    <2>4. AddsTo(f, m)'
      BY <2>1, <2>2, <2>3 DEF AddsTo, Last
    <2> QED BY <1>1, <1>2, <2>1, <2>2, <2>4
  <1>5. ASSUME StoreHead PROVE Goal
    <2>1. /\ accept.pc = "head" /\ accept'.client = new /\ accept'.pc = "tail"
          /\ head' = new /\ UNCHANGED <<tail, count, next, state, misused>>
      BY <1>0, <1>n, <1>5 DEF StoreHead, AcceptRecord
    <2>2. /\ new \in Clients /\ state[new] = "live" /\ Preparing /\ ~Preparing'
          /\ new \in Unlinked /\ new \notin Unlinked' /\ next[new] = NoClient
      BY <1>0, <1>n, <2>1 DEF AcceptKnows, Preparing, Unlinked, Untouched
    <2>3. m = 0 /\ tail = NoClient /\ count = 0
      BY <1>0, <2>1, <2>2 DEF Adding, AddsTo, Last
    <2>4. PICK g \in [Nat -> Clients] :
              g[1] = new /\ \A c \in Clients : OnChain(g, 1, c) <=> OnChain(f, 0, c) \/ c = new
      <3>1. ~OnChain(f, 0, new)
        BY DEF OnChain
      <3>2. \A i, j \in 1..0 : f[i] = f[j] => i = j
        OBVIOUS
      <3>3. 0 \in Nat /\ 0 + 1 = 1
        OBVIOUS
      <3> QED BY <2>2, <3>1, <3>2, <3>3, Longer
    <2>5. \A c \in Clients : OnChain(g, 1, c) <=> c = new
      BY <2>4 DEF OnChain
    <2>6. Chain(g, 1)'
      <3>1. \A i \in 1..1 : i = 1
        OBVIOUS
      <3> QED BY <2>1, <2>2, <2>4, <3>1 DEF Chain
    <2>7. Live(g, 1)'
      <3>1. \A c \in Clients : state[c] = "live" <=> c = new
        BY <1>0, <1>n, <1>t, <2>2, <2>3 DEF Live, OnChain
      <3> QED BY <1>t, <2>1, <2>2, <2>5, <3>1 DEF Live, OnChain
    <2>8. AddsTo(g, 1)' /\ Adding'
      BY <2>1, <2>2, <2>3, <2>4 DEF AddsTo, Last, Adding
    <2>9. \A c \in Clients : OnChain(f, m, c) => OnChain(g, 1, c)
      BY <2>3, <2>4
    <2> QED BY <1>1, <2>1, <2>6, <2>7, <2>8, <2>9
  <1>6. ASSUME StoreTail PROVE Goal
    <2>1. /\ accept.pc = "tail" /\ accept'.client = accept.client /\ accept'.pc = "one"
          /\ tail' = accept.client /\ UNCHANGED <<head, count, next, state, misused>>
      BY <1>0, <1>6 DEF StoreTail, AcceptRecord
    <2>2. m = 1 /\ accept.client = f[1] /\ count = 0 /\ Adding' /\ ~Preparing /\ ~Preparing'
      BY <1>0, <2>1 DEF Adding, AddsTo, Preparing
    <2>3. AddsTo(f, m)'
      BY <2>1, <2>2 DEF AddsTo, Last
    <2> QED BY <1>1, <1>2, <2>1, <2>2, <2>3
  <1>7. ASSUME StoreCount \/ AddToCount PROVE Goal
    <2>1. /\ accept.pc \in {"one", "more"} /\ accept'.pc = "idle"
          /\ accept.pc = "one" => count' = 1
          /\ accept.pc = "more" => count' = count + 1
          /\ UNCHANGED <<head, tail, next, state, misused>>
      BY <1>7 DEF StoreCount, AddToCount, NoAddition
    <2>2. ~Preparing /\ ~Preparing' /\ Adding /\ ~Adding'
      BY <2>1 DEF Adding, Preparing
    <2>3. tail' = Last(f, m) /\ count' = m
      BY <1>0, <2>1, <2>2 DEF AddsTo
    <2>4. Unlinked' = Unlinked
      BY <2>1, <2>2 DEF Unlinked
    <2>5. Chain(f, m)' /\ Live(f, m)'
      BY <1>0, <1>t, <2>1, <2>2, <2>4 DEF Chain, Live, OnChain
    <2> QED BY <1>1, <2>1, <2>2, <2>3, <2>5
  <1>8. ASSUME LoadNext PROVE Goal
    <2>1. /\ accept.pc = "next" /\ accept'.client = accept.client /\ accept'.pc = "check"
          /\ accept'.last = accept.last /\ accept'.next = next[accept.last]
          /\ Access(accept.last) /\ UNCHANGED <<head, tail, count, next, state>>
      BY <1>0, <1>8 DEF LoadNext, AcceptRecord
    <2>2. /\ m # 0 /\ accept.last = f[m] /\ tail = Last(f, m) /\ count = m
          /\ Preparing /\ Preparing' /\ Adding'
      BY <1>0, <2>1 DEF Adding, AddsTo, Preparing
    <2>3. next[f[m]] = NoClient /\ state[f[m]] = "live" /\ f[m] \in Clients
      BY <1>0, <2>2, ChainNodes DEF Chain
    <2>4. ~misused'
      BY <1>0, <2>1, <2>2, <2>3 DEF Access
    <2>5. AddsTo(f, m)'
      BY <2>1, <2>2, <2>3 DEF AddsTo, Last
    <2> QED BY <1>1, <1>2, <2>1, <2>2, <2>4, <2>5
  <1>9. ASSUME CheckTail PROVE Goal
    <2>1. /\ accept.pc = "check" /\ accept'.client = accept.client
          /\ accept'.last = accept.last /\ accept'.next = accept.next
          /\ accept'.pc = IF accept.last # tail THEN "load"
                          ELSE IF accept.next = NoClient THEN "link" ELSE "help"
          /\ UNCHANGED <<head, tail, count, next, state, misused>>
      BY <1>0, <1>9 DEF CheckTail, memory, AcceptRecord
    <2>2. /\ m # 0 /\ accept.last = f[m] /\ tail = Last(f, m) /\ count = m
          /\ accept.next = NoClient /\ Preparing
      BY <1>0, <2>1 DEF Adding, AddsTo, Preparing
    <2>3. accept'.pc = "link" /\ Preparing' /\ Adding'
      BY <2>1, <2>2 DEF Last, Preparing, Adding
    <2>4. AddsTo(f, m)'
      BY <2>1, <2>2, <2>3 DEF AddsTo, Last
    <2> QED BY <1>1, <1>2, <2>1, <2>2, <2>3, <2>4
  <1>10. ASSUME Link PROVE Goal
    <2>1. /\ accept.pc = "link" /\ accept'.client = new /\ accept'.pc = "swing"
          /\ accept'.last = accept.last /\ Access(accept.last)
          /\ next' = [next EXCEPT ![accept.last] = new]
          /\ UNCHANGED <<head, tail, count, state>>
      BY <1>0, <1>n, <1>10 DEF Link, AcceptRecord
    <2>2. /\ m # 0 /\ accept.last = f[m] /\ tail = f[m] /\ count = m
          /\ Preparing /\ ~Preparing' /\ Adding'
      BY <1>0, <2>1 DEF Adding, AddsTo, Preparing, Last
    <2>3. /\ new \in Clients /\ state[new] = "live" /\ next[new] = NoClient
          /\ new \in Unlinked /\ Unlinked' \subseteq Unlinked /\ new \notin Unlinked'
      BY <1>0, <1>n, <2>1, <2>2 DEF AcceptKnows, Unlinked, Untouched
    <2>4. ~misused'
      <3>1. state[accept.last] = "live" /\ accept.last \in Clients
        BY <2>2, ChainNodes
      <3> QED BY <1>0, <2>1, <3>1 DEF Access
    <2>5. ~OnChain(f, m, new)
      BY <1>0, <2>3 DEF Chain, OnChain
    <2>6. PICK g \in [Nat -> Clients] :
              /\ \A i \in 1..m : g[i] = f[i]
              /\ g[m + 1] = new
              /\ \A i, j \in 1..(m + 1) : g[i] = g[j] => i = j
              /\ \A c \in Clients : OnChain(g, m + 1, c) <=> OnChain(f, m, c) \/ c = new
      BY <1>0, <2>3, <2>5, Longer DEF Chain
    <2>7. Chain(g, m + 1)'
      <3>1. ASSUME NEW i \in 1..(m + 1)
            PROVE  /\ next'[g[i]] = IF i = m + 1 THEN NoClient ELSE g[i + 1]
                   /\ g[i] \notin Unlinked'
        <4>1. CASE i = m + 1
          <5>1. new # f[m]
            BY <2>2, <2>5, ChainNodes
          <5> QED BY <1>0, <2>1, <2>2, <2>3, <2>6, <4>1, <5>1
        <4>2. CASE i = m
          <5>1. i # m + 1 /\ i \in 1..m /\ f[m] \in Clients
            BY <4>2, <2>2, ChainNodes
          <5>2. next'[f[m]] = new
            BY <1>0, <2>1, <2>2, <5>1
          <5> QED BY <1>0, <2>3, <2>6, <4>2, <5>1, <5>2 DEF Chain
        <4>3. CASE i # m /\ i # m + 1
          <5>1. i \in 1..m /\ i + 1 \in 1..m /\ m \in 1..m
            BY <4>3
          <5>2. f[i] # f[m] /\ next[f[i]] = f[i + 1] /\ f[i] \notin Unlinked
            BY <1>0, <4>3, <5>1 DEF Chain
          <5> QED BY <1>0, <2>1, <2>2, <2>3, <2>6, <4>3, <5>1, <5>2
        <4> QED BY <4>1, <4>2, <4>3
      <3>2. m + 1 # 0 /\ 1 \in 1..m
        BY <2>2
      <3>3. head' = g[1]
        BY <1>0, <2>1, <2>2, <2>6, <3>2 DEF Chain
      <3> QED BY <2>6, <3>1, <3>2, <3>3 DEF Chain
    <2>8. Live(g, m + 1)'
      <3>1. \A c \in Clients : state[c] = "live" <=> OnChain(f, m, c) \/ c = new
        BY <1>0, <1>n, <1>t, <2>2 DEF Live
      <3>2. \A c \in Clients : state'[c] = "live" <=> OnChain(g, m + 1, c)
        BY <2>1, <2>6, <3>1
      <3> QED BY <1>t, <2>2, <3>2 DEF Live, OnChain
    <2>9. AddsTo(g, m + 1)'
      <3>1. (m + 1) - 1 = m /\ m + 1 > 1 /\ m + 1 # 0 /\ m \in 1..m
        BY <2>2
      <3> QED BY <2>1, <2>2, <2>6, <3>1 DEF AddsTo
    <2> QED BY <1>1, <2>2, <2>4, <2>6, <2>7, <2>8, <2>9
  <1>11. ASSUME Swing PROVE Goal
    <2>1. /\ accept.pc = "swing" /\ accept'.client = accept.client /\ accept'.pc = "more"
          /\ tail' = IF tail = accept.last THEN accept.client ELSE tail
          /\ UNCHANGED <<head, count, next, state, misused>>
      BY <1>0, <1>11 DEF Swing, MoveTail, AcceptRecord
    <2>2. /\ m # 0 /\ accept.client = f[m] /\ tail = accept.last /\ count = m - 1
          /\ ~Preparing /\ ~Preparing' /\ Adding'
      BY <1>0, <2>1 DEF Adding, AddsTo, Preparing
    <2>3. AddsTo(f, m)'
      BY <2>1, <2>2 DEF AddsTo, Last
    <2> QED BY <1>1, <1>2, <2>1, <2>2, <2>3
  <1>12. ASSUME Help PROVE Goal
    BY <1>0, <1>12 DEF Help, Adding, AddsTo
  <1> HIDE DEF Goal
  <1>13. Goal
    BY <1>3, <1>4, <1>5, <1>6, <1>7, <1>8, <1>9, <1>10, <1>11, <1>12 DEF Accept, AddClient
  <1> QED BY <1>13 DEF Goal

\* A removal while nothing is added and nothing else removed: the chain loses the node, then the
\* tail and the counter follow.
LEMMA TrackedMove ==
    ASSUME Pointers, NEW f \in [Nat -> Clients], NEW m \in Nat, Exact(f, m),
           NEW t \in Threads, RemoveSocketFromList(t), ~Adding,
           \A u \in Threads : u # t => ~Removing(u), ~misused, clash \subseteq clash'
    PROVE  ~misused' /\ \E g \in [Nat -> Clients], k \in Nat : Exact(g, k)'
  <1> DEFINE Goal == ~misused' /\ \E g \in [Nat -> Clients], k \in Nat : Exact(g, k)'
  <1>a. PICK here : here = thread[t]
    OBVIOUS
  <1>b. PICK n : n = here.current
    OBVIOUS
  <1>r. Removing(t)
    BY DEF RemoveSocketFromList, Removing, Look, UnlinkFirst, UnlinkLater, StepOn,
           ClearTail, TestTail, RetractTail, DeleteNode, SubFromCount
  <1>0. /\ Fields /\ head \in Links /\ tail \in Links /\ count \in Int
        /\ next \in [Clients -> Links] /\ state \in [Clients -> {"new", "live", "gone"}]
        /\ thread \in [Threads -> ThreadRecord] /\ here \in ThreadRecord
        /\ ThreadKnows(t) /\ NoClient \notin Clients
        /\ Chain(f, m) /\ Live(f, m) /\ RemovesFrom(t, f, m)
        /\ ~Preparing /\ accept.pc = "idle"
    BY <1>a, <1>r, ListAssumption DEF Exact, Pointers, Types, Fields, Adding, Preparing
  <1>l. \A c \in Clients : state[c] = "live" <=> OnChain(f, m, c) \/ (Cut(t) /\ c = n)
    <2>1. \A u \in Threads : u # t => ~Cut(u)
      BY DEF Removing, Cut
    <2> QED BY <1>a, <1>b, <1>0, <2>1 DEF Live
  <1>w. clash' = {} => \A u \in Threads : ~Walking(u)
    <2>1. Overlaps \subseteq clash
      BY DEF Pointers, Types
    <2> QED BY <1>r, <2>1 DEF Overlaps, Overlap, Kinds
  <1>1. ASSUME NEW pc, NEW prev, NEW current, NEW then, Goes(t, pc, prev, current, then),
               pc \notin {"copy", "has"}, UNCHANGED accept,
               NEW g \in [Nat -> Clients], NEW k \in Nat, ~misused', Chain(g, k)',
               \A c \in Clients :
                   state'[c] = "live" <=> OnChain(g, k, c) \/ (Cut(t)' /\ c = current),
               Removing(t)' => RemovesFrom(t, g, k)',
               ~Removing(t)' => tail' = Last(g, k) /\ count' = k
        PROVE  Goal
    <2>1. \A u \in Threads : u # t => ~Removing(u)' /\ ~Cut(u)' /\ (Walking(u)' <=> Walking(u))
      BY <1>1 DEF Goes, Removing, Cut, Walking
    <2>2. ~Walking(t)' /\ thread'[t].current = current
      BY <1>1 DEF Goes, Walking
    <2>3. ~Adding' /\ ~Preparing'
      BY <1>0, <1>1 DEF Adding, Preparing
    <2>4. Live(g, k)'
      BY <1>1, <2>1, <2>2, <2>3 DEF Live, OnChain
    <2>5. Walks(g, k)'
      BY <1>w, <2>1, <2>2 DEF Walks
    <2>6. Exact(g, k)'
      BY <1>1, <2>1, <2>3, <2>4, <2>5 DEF Exact, Quiet, Last
    <2> QED BY <1>1, <2>6
  <1>2. ASSUME UNCHANGED <<head, next, accept>>,
               \A c \in Clients : state'[c] = "new" <=> state[c] = "new"
        PROVE  Chain(f, m)'
    <2>1. Unlinked' = Unlinked
      BY <1>2, SameUnlinked DEF Preparing
    <2> QED BY <1>0, <1>2, <2>1 DEF Chain
  <1>3. ASSUME Look(t) PROVE Goal
    <2>1. /\ here.pc = "look" /\ UNCHANGED <<head, tail, count, next, state, accept>>
      BY <1>a, <1>3 DEF Look
    <2>n. PICK then : then = next[n]
      OBVIOUS
    <2>2. tail = Last(f, m) /\ count = m /\ ~Cut(t)
      BY <1>a, <1>0, <2>1 DEF RemovesFrom, Cut
    <2>3. Chain(f, m)' /\ \A c \in Clients : state'[c] = "live" <=> OnChain(f, m, c)
      BY <1>l, <1>2, <2>1, <2>2
    <2>4. CASE n = NoClient /\ misused' = misused /\ Goes(t, Home(t), NoClient, NoClient, NoClient)
      <3>1. ~Removing(t)' /\ ~Cut(t)' /\ Home(t) \notin {"copy", "has"}
        BY <2>4 DEF Goes, Home, Removing, Cut
      <3> QED BY <1>1, <2>1, <2>2, <2>3, <2>4, <3>1
    <2>5. ASSUME n \in Clients
          PROVE  \E i \in 1..m : n = f[i] /\ here.prev = IF i = 1 THEN NoClient ELSE f[i - 1]
      BY <1>a, <1>b, <1>0, <2>1, <2>5 DEF RemovesFrom
    <2>6. ASSUME n \in Clients, Access(n) PROVE ~misused'
      <3>1. state[n] = "live"
        BY <2>5, <2>6, ChainNodes
      <3> QED BY <1>0, <2>6, <3>1 DEF Access
    <2>7. CASE n \in Clients /\ Access(n) /\ Goes(t, "unlink", here.prev, n, then)
      <3>1. ~Cut(t)' /\ Removing(t)'
        BY <2>7 DEF Goes, Cut, Removing
      <3>2. RemovesFrom(t, f, m)'
        BY <2>1, <2>n, <2>2, <2>5, <2>7, <3>1 DEF Goes, RemovesFrom, Last
      <3>3. ~misused' /\ UNCHANGED accept /\ "unlink" \notin {"copy", "has"}
        BY <2>1, <2>6, <2>7
      <3>4. \A c \in Clients : state'[c] = "live" <=> OnChain(f, m, c) \/ (Cut(t)' /\ c = n)
        BY <2>3, <3>1
      <3> HIDE DEF Goal
      <3> QED BY <1>1, <2>3, <2>7, <3>1, <3>2, <3>3, <3>4
    <2>8. CASE n \in Clients /\ Access(n) /\ Goes(t, "look", n, then, here.next)
      <3>1. ~Cut(t)' /\ Removing(t)'
        BY <2>8 DEF Goes, Cut, Removing
      <3>2. PICK i \in 1..m : n = f[i]
        BY <2>5, <2>8
      <3>3. then # NoClient => i + 1 \in 1..m /\ then = f[i + 1] /\ i + 1 # 1
                                  /\ (i + 1) - 1 = i
        BY <1>0, <2>n, <3>2 DEF Chain
      <3>4. then # NoClient =>
                \E j \in 1..m : then = f[j] /\ n = IF j = 1 THEN NoClient ELSE f[j - 1]
        BY <3>2, <3>3
      <3>5. RemovesFrom(t, f, m)'
        BY <2>1, <2>2, <2>8, <3>1, <3>4 DEF Goes, RemovesFrom, Last
      <3>6. ~misused' /\ UNCHANGED accept /\ "look" \notin {"copy", "has"}
        BY <2>1, <2>6, <2>8
      <3>7. \A c \in Clients :
                state'[c] = "live" <=> OnChain(f, m, c) \/ (Cut(t)' /\ c = then)
        BY <2>3, <3>1
      <3> HIDE DEF Goal
      <3> QED BY <1>1, <2>3, <2>8, <3>1, <3>5, <3>6, <3>7
    <2> QED BY <1>a, <1>b, <1>0, <1>3, <2>n, <2>4, <2>7, <2>8, LookForms

  <1>4. ASSUME here.pc = "unlink"
        PROVE  \E i \in 1..m : /\ n = f[i] /\ here.prev = IF i = 1 THEN NoClient ELSE f[i - 1]
                               /\ here.next = IF i = m THEN NoClient ELSE f[i + 1]
                               /\ tail = f[m] /\ count = m /\ ~Cut(t)
    BY <1>a, <1>b, <1>0, <1>4 DEF RemovesFrom, Chain, Last, Cut
  <1>5. ASSUME UnlinkFirst(t) PROVE Goal
    <2>1. /\ here.pc = "unlink" /\ here.prev = NoClient
          /\ UNCHANGED <<tail, count, next, state, misused, accept>>
      BY <1>a, <1>5 DEF UnlinkFirst
    <2>2. /\ m # 0 /\ 1 \in 1..m /\ n = f[1] /\ tail = f[m] /\ count = m /\ ~Cut(t)
          /\ here.next = IF 1 = m THEN NoClient ELSE f[1 + 1]
      <3>1. PICK i \in 1..m : /\ here.prev = IF i = 1 THEN NoClient ELSE f[i - 1]
                              /\ n = f[i] /\ tail = f[m] /\ count = m /\ ~Cut(t)
                              /\ here.next = IF i = m THEN NoClient ELSE f[i + 1]
        BY <1>4, <2>1
      <3>2. i = 1
        <4>1. i - 1 \in Nat
          OBVIOUS
        <4> QED BY <1>0, <2>1, <3>1, <4>1
      <3> QED BY <3>1, <3>2
    <2>3. head' = here.next /\ Only(t, IF here.next = NoClient THEN "empty" ELSE "delete")
      BY <1>a, <1>b, <1>0, <1>5, <2>2, UnlinkFirstForms DEF Chain
    <2>4. PICK g \in [Nat -> Clients] :
              /\ \A j \in 1..(m - 1) : g[j] = IF j < 1 THEN f[j] ELSE f[j + 1]
              /\ \A j, k \in 1..(m - 1) : g[j] = g[k] => j = k
              /\ \A c \in Clients : OnChain(g, m - 1, c) <=> OnChain(f, m, c) /\ c # f[1]
      <3>1. \A j, k \in 1..m : f[j] = f[k] => j = k
        BY <1>0 DEF Chain
      <3> HIDE DEF Goal
      <3>2. PICK i \in 1..m : i = 1
        BY <2>2
      <3>3. \E g \in [Nat -> Clients] :
               /\ \A j \in 1..(m - 1) : g[j] = IF j < i THEN f[j] ELSE f[j + 1]
               /\ \A j, k \in 1..(m - 1) : g[j] = g[k] => j = k
               /\ \A c \in Clients : OnChain(g, m - 1, c) <=> OnChain(f, m, c) /\ c # f[i]
        BY <3>1, Shorter
      <3> QED BY <3>2, <3>3
    <2>5. \A j \in 1..(m - 1) : g[j] = f[j + 1] /\ j + 1 \in 1..m /\ (j = m - 1 <=> j + 1 = m)
      <3>1. \A j \in 1..(m - 1) : ~(j < 1) /\ j + 1 \in 1..m /\ (j = m - 1 <=> j + 1 = m)
        OBVIOUS
      <3> QED BY <2>4, <3>1
    <2>6. Unlinked' = Unlinked
      BY <2>1, SameUnlinked DEF Preparing
    <2>7. Chain(g, m - 1)'
      <3>1. ASSUME NEW j \in 1..(m - 1)
            PROVE  next[g[j]] = IF j = m - 1 THEN NoClient ELSE g[j + 1]
        <4>1. next[f[j + 1]] = IF j + 1 = m THEN NoClient ELSE f[(j + 1) + 1]
          BY <1>0, <2>5 DEF Chain
        <4>2. j # m - 1 => j + 1 \in 1..(m - 1)
          OBVIOUS
        <4> QED BY <2>5, <4>1, <4>2
      <3>2. \A j \in 1..(m - 1) : g[j] \notin Unlinked
        BY <1>0, <2>5 DEF Chain
      <3>3. here.next = IF m - 1 = 0 THEN NoClient ELSE g[1]
        <4>1. m # 1 => 1 \in 1..(m - 1)
          BY <2>2
        <4>2. m = 1 <=> m - 1 = 0
          OBVIOUS
        <4> QED BY <2>2, <2>5, <4>1, <4>2
      <3> QED BY <2>1, <2>3, <2>4, <2>6, <3>1, <3>2, <3>3 DEF Chain
    <2>8. /\ thread'[t].pc = (IF m = 1 THEN "empty" ELSE "delete") /\ thread'[t].current = n
      <3>1. here.next = NoClient <=> m = 1
        BY <1>0, <2>2
      <3> QED BY <1>a, <1>b, <2>3, <3>1 DEF Only, Goes
    <2>9. Cut(t)' /\ \A c \in Clients : state[c] = "live" <=> OnChain(g, m - 1, c) \/ c = n
      <3>1. OnChain(f, m, n)
        BY <2>2, ChainNodes
      <3> QED BY <1>l, <2>2, <2>4, <2>8, <3>1 DEF Cut
    <2>10. RemovesFrom(t, g, m - 1)'
      <3>1. ~OnChain(g, m - 1, n)
        BY <2>2, <2>4
      <3>2. m # 1 => tail = Last(g, m - 1)
        <4>1. m # 1 => m - 1 \in 1..(m - 1) /\ m - 1 # 0 /\ (m - 1) + 1 = m
          BY <2>2
        <4> QED BY <2>2, <2>5, <4>1 DEF Last
      <3>3. m = 1 => m - 1 = 0 /\ tail = n
        BY <2>2
      <3>4. count = (m - 1) + 1
        BY <2>2
      <3> QED BY <2>1, <2>8, <2>9, <3>1, <3>2, <3>3, <3>4 DEF RemovesFrom, OnChain, Last
    <2>11. m - 1 \in Nat
      BY <2>2
    <2> QED BY <1>a, <1>b, <1>0, <1>1, <2>1, <2>3, <2>7, <2>9, <2>10, <2>11
            DEF Only, Removing, Cut
  <1>6. ASSUME UnlinkLater(t) PROVE Goal
    <2>1. /\ here.pc = "unlink" /\ here.prev \in Clients /\ Access(here.prev)
          /\ UNCHANGED <<head, tail, count, state, accept>>
      BY <1>a, <1>0, <1>6, UnlinkLaterForms
    <2>2. PICK i \in 1..m : /\ here.prev = IF i = 1 THEN NoClient ELSE f[i - 1]
                            /\ n = f[i] /\ tail = f[m] /\ count = m /\ ~Cut(t)
                            /\ here.next = IF i = m THEN NoClient ELSE f[i + 1]
      BY <1>4, <2>1
    <2>3. /\ i # 1 /\ i - 1 \in 1..m /\ i - 1 # m /\ (i - 1) + 1 = i /\ m # 0 /\ m - 1 # 0
          /\ m - 1 \in Nat /\ 1 < i /\ 1 \in 1..(m - 1) /\ m - 1 \in 1..(m - 1)
          /\ i - 1 # i
      <3>1. i # 1
        BY <1>0, <2>1, <2>2
      <3> QED BY <3>1
    <2>4. here.prev = f[i - 1] /\ next[here.prev] = n /\ state[here.prev] = "live"
      BY <1>0, <2>2, <2>3, ChainNodes DEF Chain
    <2>5. next' = [next EXCEPT ![here.prev] = here.next] /\ Only(t, "end")
      BY <1>a, <1>b, <1>0, <1>6, <2>4, UnlinkLaterForms
    <2>6. ~misused'
      BY <1>0, <2>1, <2>4 DEF Access
    <2>7. PICK g \in [Nat -> Clients] :
              /\ \A j \in 1..(m - 1) : g[j] = IF j < i THEN f[j] ELSE f[j + 1]
              /\ \A j, k \in 1..(m - 1) : g[j] = g[k] => j = k
              /\ \A c \in Clients : OnChain(g, m - 1, c) <=> OnChain(f, m, c) /\ c # f[i]
      <3>1. \A j, k \in 1..m : f[j] = f[k] => j = k
        BY <1>0 DEF Chain
      <3> HIDE DEF Goal
      <3> QED BY <3>1, Shorter
    <2>8. Unlinked' = Unlinked
      BY <2>1, SameUnlinked DEF Preparing
    <2>9. Chain(g, m - 1)'
      <3>1. \A j \in 1..m : f[j] \in Clients /\ next[f[j]] = (IF j = m THEN NoClient ELSE f[j + 1])
                            /\ f[j] \notin Unlinked
        BY <1>0 DEF Chain
      <3>2. \A j \in 1..m : next'[f[j]] = IF j = i - 1 THEN here.next ELSE next[f[j]]
        <4>1. \A j \in 1..m : f[j] = f[i - 1] <=> j = i - 1
          BY <1>0, <2>3 DEF Chain
        <4> QED BY <1>0, <2>4, <2>5, <3>1, <4>1
      <3>3. ASSUME NEW j \in 1..(m - 1)
            PROVE  /\ next'[g[j]] = IF j = m - 1 THEN NoClient ELSE g[j + 1]
                   /\ g[j] \notin Unlinked
        <4>0. j \in 1..m /\ j + 1 \in 1..m /\ (j # m - 1 => j + 1 \in 1..(m - 1)) /\ j # m
              /\ (j = m - 1 <=> j + 1 = m)
          OBVIOUS
        <4>1. CASE j < i - 1
          <5>1. j < i /\ j + 1 < i /\ j # i - 1 /\ j # m - 1
            BY <4>1
          <5> QED BY <2>7, <3>1, <3>2, <4>0, <5>1
        <4>2. CASE j = i - 1
          <5>1. j < i /\ j + 1 = i /\ ~(j + 1 < i) /\ (j + 1) + 1 = i + 1
            BY <4>2
          <5>2. next'[g[j]] = IF i = m THEN NoClient ELSE f[i + 1]
            BY <2>2, <2>7, <3>2, <4>0, <4>2, <5>1
          <5>3. j # m - 1 => g[j + 1] = f[i + 1]
            BY <2>7, <4>0, <5>1
          <5> QED BY <2>7, <3>1, <4>0, <5>1, <5>2, <5>3
        <4>3. CASE ~(j < i)
          <5>1. ~(j + 1 < i) /\ j + 1 # i - 1
            BY <4>3
          <5>2. g[j] = f[j + 1] /\ (j # m - 1 => g[j + 1] = f[(j + 1) + 1])
            BY <2>7, <4>0, <4>3, <5>1
          <5> QED BY <3>1, <3>2, <4>0, <5>1, <5>2
        <4> QED BY <4>1, <4>2, <4>3
      <3>4. head = g[1]
        BY <1>0, <2>3, <2>7 DEF Chain
      <3> QED BY <2>1, <2>3, <2>7, <2>8, <3>3, <3>4 DEF Chain
    <2>10. thread'[t].pc = "end" /\ thread'[t].current = n /\ thread'[t].prev = here.prev
      BY <1>a, <1>b, <2>5 DEF Only, Goes
    <2>11. Cut(t)' /\ \A c \in Clients : state[c] = "live" <=> OnChain(g, m - 1, c) \/ c = n
      <3>1. OnChain(f, m, n)
        BY <2>2, ChainNodes
      <3> QED BY <1>l, <2>2, <2>7, <2>10, <3>1 DEF Cut
    <2>12. RemovesFrom(t, g, m - 1)'
      <3>1. ~OnChain(g, m - 1, n)
        BY <2>2, <2>7
      <3>2. CASE i = m
        <4>1. m - 1 < i
          BY <3>2
        <4>2. g[m - 1] = here.prev /\ tail = n
          BY <2>2, <2>3, <2>4, <2>7, <3>2, <4>1
        <4> QED BY <2>1, <2>2, <2>3, <2>10, <2>11, <3>1, <4>2 DEF RemovesFrom, OnChain
      <3>3. CASE i # m
        <4>1. ~(m - 1 < i) /\ (m - 1) + 1 = m /\ m \in 1..m
          BY <3>3, <2>3
        <4>2. g[m - 1] = tail /\ tail # n
          BY <1>0, <2>2, <2>3, <2>7, <3>3, <4>1 DEF Chain
        <4> QED BY <2>1, <2>2, <2>3, <2>10, <2>11, <3>1, <4>2 DEF RemovesFrom, OnChain
      <3> QED BY <3>2, <3>3
    <2> QED BY <1>a, <1>b, <1>0, <1>1, <2>1, <2>3, <2>5, <2>6, <2>9, <2>10, <2>11, <2>12
            DEF Only, Removing, Cut
  <1>7. ASSUME StepOn(t) PROVE Goal
    BY <1>a, <1>0, <1>7 DEF StepOn, RemovesFrom
  <1>8. ASSUME ClearTail(t) \/ TestTail(t) \/ RetractTail(t) PROVE Goal
    <2>1. /\ here.pc \in {"empty", "end", "retract"} /\ Cut(t)
          /\ UNCHANGED <<head, count, next, state, misused, accept>>
      BY <1>a, <1>8 DEF ClearTail, TestTail, RetractTail, memory, Cut
    <2>2. Chain(f, m)'
      BY <1>2, <2>1
    <2>3. ~OnChain(f, m, n) /\ count = m + 1
      BY <1>a, <1>b, <1>0, <2>1 DEF RemovesFrom
    <2>4. \/ Only(t, "delete") /\ tail' = Last(f, m)
          \/ Only(t, "retract") /\ tail' = n /\ m # 0 /\ here.prev = f[m]
      <3>1. CASE ClearTail(t)
        BY <1>a, <1>b, <1>0, <3>1, RemovalForms DEF RemovesFrom, Last
      <3>2. CASE TestTail(t)
        <4>1. here.pc = "end" /\ tail' = tail
              /\ Only(t, IF tail = n THEN "retract" ELSE "delete")
          BY <1>a, <1>b, <1>0, <3>2, RemovalForms DEF memory
        <4>2. m # 0 /\ tail \in {n, f[m]} /\ (tail = n => here.prev = f[m])
          BY <1>a, <1>b, <1>0, <4>1 DEF RemovesFrom
        <4> QED BY <4>1, <4>2 DEF Last
      <3>3. CASE RetractTail(t)
        <4>1. here.pc = "retract" /\ tail' = here.prev /\ Only(t, "delete")
          BY <1>a, <1>0, <3>3, RemovalForms
        <4>2. m # 0 /\ here.prev = f[m]
          BY <1>a, <1>0, <4>1 DEF RemovesFrom
        <4> QED BY <4>1, <4>2 DEF Last
      <3> QED BY <1>8, <3>1, <3>2, <3>3
    <2>5. Cut(t)' /\ RemovesFrom(t, f, m)'
      <3>1. CASE Only(t, "delete") /\ tail' = Last(f, m)
        <4>1. thread'[t].pc = "delete" /\ thread'[t].current = n /\ Cut(t)'
          BY <1>a, <1>b, <3>1 DEF Only, Goes, Cut
        <4> QED BY <2>1, <2>3, <3>1, <4>1 DEF RemovesFrom, OnChain, Last
      <3>2. CASE Only(t, "retract") /\ tail' = n /\ m # 0 /\ here.prev = f[m]
        <4>1. /\ thread'[t].pc = "retract" /\ thread'[t].current = n
              /\ thread'[t].prev = f[m] /\ Cut(t)'
          BY <1>a, <1>b, <3>2 DEF Only, Goes, Cut
        <4> QED BY <2>1, <2>3, <3>2, <4>1 DEF RemovesFrom, OnChain
      <3> QED BY <2>4, <3>1, <3>2
    <2>6. ASSUME NEW pc \in {"delete", "retract"}, Only(t, pc) PROVE Goal
      <3>1. Removing(t)' /\ pc \notin {"copy", "has"}
            /\ Goes(t, pc, here.prev, n, here.next)
        BY <1>a, <1>b, <2>6 DEF Only, Goes, Removing
      <3> QED BY <1>0, <1>1, <1>l, <2>1, <2>2, <2>5, <3>1
    <2> QED BY <2>4, <2>6
  <1>9. ASSUME DeleteNode(t) PROVE Goal
    <2>1. /\ here.pc = "delete" /\ Access(n) /\ state' = [state EXCEPT ![n] = "gone"]
          /\ Goes(t, "less", here.prev, n, here.next)
          /\ UNCHANGED <<head, tail, count, next, accept>>
      BY <1>a, <1>b, <1>0, <1>9, RemovalForms DEF DeleteNode, Only
    <2>2. /\ n \in Clients /\ Cut(t) /\ ~OnChain(f, m, n) /\ count = m + 1
          /\ tail = Last(f, m)
      BY <1>a, <1>b, <1>0, <2>1 DEF ThreadKnows, Cut, RemovesFrom
    <2>3. state[n] = "live"
      BY <1>l, <2>2
    <2>4. ~misused'
      BY <1>0, <2>1, <2>2, <2>3 DEF Access
    <2>5. Chain(f, m)'
      <3>1. \A c \in Clients : state'[c] = "new" <=> state[c] = "new"
        BY <1>0, <2>1, <2>2, <2>3
      <3> QED BY <1>2, <2>1, <3>1
    <2>6. \A c \in Clients : state'[c] = "live" <=> OnChain(f, m, c)
      BY <1>0, <1>l, <2>1, <2>2
    <2>7. thread'[t].pc = "less" /\ ~Cut(t)'
      BY <2>1 DEF Goes, Cut
    <2>8. RemovesFrom(t, f, m)'
      BY <2>1, <2>2, <2>7 DEF RemovesFrom, Last
    <2>9. Removing(t)'
      BY <2>7 DEF Removing
    <2> QED BY <1>1, <2>1, <2>4, <2>5, <2>6, <2>7, <2>8, <2>9
  <1>10. ASSUME SubFromCount(t) PROVE Goal
    <2>1. /\ here.pc = "less" /\ count' = count - 1
          /\ Goes(t, Home(t), NoClient, NoClient, NoClient)
          /\ UNCHANGED <<head, tail, next, state, misused, accept>>
      BY <1>a, <1>0, <1>10, RemovalForms DEF SubFromCount
    <2>2. tail = Last(f, m) /\ count = m + 1 /\ ~Cut(t)
      BY <1>a, <1>0, <2>1 DEF RemovesFrom, Cut
    <2>3. ~Removing(t)' /\ ~Cut(t)' /\ Home(t) \notin {"copy", "has"}
      BY <2>1 DEF Goes, Home, Removing, Cut
    <2>4. Chain(f, m)' /\ \A c \in Clients : state'[c] = "live" <=> OnChain(f, m, c)
      BY <1>l, <1>2, <2>1, <2>2
    <2>5. count' = m
      BY <2>1, <2>2
    <2> QED BY <1>1, <2>1, <2>2, <2>3, <2>4, <2>5
  <1> HIDE DEF Goal
  <1>11. Goal
    BY <1>3, <1>5, <1>6, <1>7, <1>8, <1>9, <1>10 DEF RemoveSocketFromList
  <1> QED BY <1>11 DEF Goal

\* A thread that removes nothing walks along the chain, or begins a removal in a quiet state.
LEMMA TrackedStroll ==
    ASSUME Pointers, NEW f \in [Nat -> Clients], NEW m \in Nat, Exact(f, m),
           NEW t \in Threads, Stroll(t), ~misused, clash \subseteq clash',
           Removing(t)' => Quiet
    PROVE  (clash' = {} => ~misused') /\ Exact(f, m)'
  <1>a. PICK here : here = thread[t]
    OBVIOUS
  <1>b. PICK n : n = here.current
    OBVIOUS
  <1>0. /\ UNCHANGED <<head, tail, count, next, state, accept>>
        /\ ~Removing(t) /\ \A u \in Threads : u # t => thread'[u] = thread[u]
        /\ thread'[t].pc \in {"idle", "turn", "copy", "has", "send", "look"}
        /\ head \in Links /\ NoClient \notin Clients
        /\ Chain(f, m) /\ Live(f, m) /\ Walks(f, m)
    BY ListAssumption DEF Stroll, Exact, Pointers, Types, Fields
  <1>1. /\ \A u \in Threads : u # t => /\ Removing(u)' <=> Removing(u)
                                       /\ Cut(u)' <=> Cut(u)
                                       /\ Walking(u)' <=> Walking(u)
        /\ ~Cut(t) /\ ~Cut(t)'
        /\ Removing(t)' => thread'[t].pc = "look"
    BY <1>0 DEF Removing, Cut, Walking
  <1>2. Chain(f, m)'
    <2>1. Unlinked' = Unlinked
      BY <1>0, SameUnlinked DEF Preparing
    <2> QED BY <1>0, <2>1 DEF Chain
  <1>3. Live(f, m)'
    <2>1. Preparing' <=> Preparing
      BY <1>0 DEF Preparing
    <2> QED BY <1>0, <1>1, <2>1 DEF Live, OnChain
  <1>4. head = NoClient \/ OnChain(f, m, head)
    <2>1. m # 0 => 1 \in 1..m
      OBVIOUS
    <2> QED BY <1>0, <2>1 DEF Chain, OnChain
  <1>5. ASSUME OnChain(f, m, n) PROVE next[n] = NoClient \/ OnChain(f, m, next[n])
    <2>1. PICK i \in 1..m : n = f[i]
      BY <1>5 DEF OnChain
    <2>2. i # m => i + 1 \in 1..m
      OBVIOUS
    <2>3. next[n] = IF i = m THEN NoClient ELSE f[i + 1]
      BY <1>0, <2>1 DEF Chain
    <2> QED BY <2>2, <2>3 DEF OnChain
  <1>6. ASSUME clash' = {}, Walking(t), n \in Clients PROVE OnChain(f, m, n) /\ state[n] = "live"
    <2>1. clash = {}
      BY <1>6
    <2>2. OnChain(f, m, n)
      BY <1>a, <1>b, <1>0, <1>6, <2>1 DEF Walks
    <2> QED BY <1>0, <1>6, <2>2 DEF Live
  <1>7. clash' = {} => ~misused'
    <2> SUFFICES ASSUME clash' = {} PROVE ~misused'
      OBVIOUS
    <2>1. misused' = misused \/ (Walking(t) /\ n \in Clients /\ Access(n))
      BY <1>a, <1>b DEF Stroll
    <2>2. CASE Walking(t) /\ n \in Clients /\ Access(n)
      BY <1>0, <1>6, <2>2 DEF Access
    <2> QED BY <2>1, <2>2
  <1>8. Walks(f, m)'
    <2> SUFFICES ASSUME clash' = {}, NEW u \in Threads, Walking(u)'
                 PROVE  thread'[u].current = NoClient \/ OnChain(f, m, thread'[u].current)
      BY DEF Walks, OnChain
    <2>1. CASE u # t
      <3>1. clash = {} /\ Walking(u)
        BY <1>1, <2>1
      <3> QED BY <1>0, <2>1, <3>1 DEF Walks
    <2>2. CASE u = t
      <3>1. thread'[t].current = head
            \/ (Walking(t) /\ n \in Clients /\ thread'[t].current = next[n])
        BY <1>a, <1>b, <2>2 DEF Stroll, Walking
      <3> QED BY <1>4, <1>5, <1>6, <2>2, <3>1
    <2> QED BY <2>1, <2>2
  <1>9. Adding' => AddsTo(f, m)'
    BY <1>0 DEF Exact, Adding, AddsTo, Preparing, Last
  <1>10. ASSUME NEW u \in Threads, Removing(u)' PROVE RemovesFrom(u, f, m)'
    <2>1. CASE u # t
      <3>1. Removing(u) /\ RemovesFrom(u, f, m) /\ thread'[u] = thread[u]
        BY <1>0, <1>1, <1>10, <2>1 DEF Exact
      <3> QED BY <1>0, <3>1 DEF RemovesFrom, Cut, OnChain, Last
    <2>2. CASE u = t
      <3>1. thread'[t].pc = "look" /\ tail = Last(f, m) /\ count = m
        BY <1>1, <1>10, <2>2 DEF Exact
      <3>2. thread'[t].prev = NoClient /\ thread'[t].current = head
        BY <3>1 DEF Stroll
      <3>3. head # NoClient => \E i \in 1..m : head = f[i] /\ i = 1
        <4>1. m # 0 => 1 \in 1..m
          OBVIOUS
        <4> QED BY <1>0, <4>1 DEF Chain
      <3> QED BY <1>0, <1>1, <2>2, <3>1, <3>2, <3>3 DEF RemovesFrom, Last
    <2> QED BY <2>1, <2>2
  <1>11. Quiet' => tail' = Last(f, m) /\ count' = m
    <2>1. Quiet' => Quiet
      BY <1>0, <1>1 DEF Quiet, Adding
    <2> QED BY <1>0, <2>1 DEF Exact
  <1> QED BY <1>2, <1>3, <1>7, <1>8, <1>9, <1>10, <1>11 DEF Exact, Last

\* Every step keeps the chain, while only walks and removals overlap.
LEMMA TrackedNext ==
    ASSUME Pointers, Tracked, SafeAlone, [Next]_vars PROVE Tracked' /\ SafeAlone'
  <1>1. CASE UNCHANGED vars
    BY <1>1 DEF vars, memory, SafeAlone, Tracked, Apart, Exact, Chain, Live, Walks, AddsTo,
                RemovesFrom, Quiet, Adding, Removing, Walking, Cut, Preparing, Unlinked,
                OnChain, Last
  <1>2. CASE Next
    <2>0. {} \subseteq {"walk-remove"}
      OBVIOUS
    <2> SUFFICES ASSUME Apart'
                 PROVE  /\ \E g \in [Nat -> Clients], k \in Nat : Exact(g, k)'
                        /\ clash' = {} => ~misused'
      BY <2>0 DEF Tracked, SafeAlone, Apart
    <2>1. Pointers' /\ Fields /\ Step /\ ~misused /\ clash \subseteq clash' /\ Apart
      BY <1>2, PointersNext DEF Pointers, Types, Next, Apart
    <2>2. PICK f \in [Nat -> Clients], m \in Nat : Exact(f, m)
      BY <2>1 DEF Tracked
    <2>3. /\ Adding => \A u \in Threads : ~Removing(u)
          /\ ~(\A u \in Threads : Removing(u))
      <3>1. "add-remove" \notin Overlaps /\ "remove-remove" \notin Overlaps
        BY <2>1 DEF Pointers, Types, Apart
      <3> QED BY <3>1 DEF Overlaps, Overlap, Kinds
    <2>4. /\ Adding' => \A u \in Threads : ~Removing(u)'
          /\ ~(\A u \in Threads : Removing(u)')
      <3>1. "add-remove" \notin Overlaps' /\ "remove-remove" \notin Overlaps'
        BY <2>1 DEF Pointers, Types, Apart
      <3> QED BY <3>1 DEF Overlaps, Overlap, Kinds
    <2>5. CASE Accept
      <3>1. (Adding \/ Adding') /\ UNCHANGED thread
        BY <2>1, <2>5 DEF Accept, AddStart, AddClient, LoadTail, StoreHead, StoreTail, StoreCount,
               LoadNext, CheckTail, Link, Swing, Help, AddToCount, Adding, Fields, AcceptRecord
      <3>2. \A u \in Threads : ~Removing(u)
        BY <2>3, <2>4, <3>1 DEF Removing
      <3> QED BY <2>1, <2>2, <2>5, <3>2, TrackedAccept
    <2>6. CASE \E t \in Threads : RemoveSocketFromList(t)
      <3>1. PICK t \in Threads : RemoveSocketFromList(t)
        BY <2>6
      <3>2. Removing(t)
        BY <3>1 DEF RemoveSocketFromList, Removing, Look, UnlinkFirst, UnlinkLater, StepOn,
                    ClearTail, TestTail, RetractTail, DeleteNode, SubFromCount
      <3>3. ~Adding /\ \A u \in Threads : u # t => ~Removing(u)
        BY <2>3, <3>2 DEF Threads
      <3> QED BY <2>1, <2>2, <3>1, <3>3, TrackedMove
    <2>7. CASE \E t \in Threads : Stroll(t)
      <3>1. PICK t \in Threads : Stroll(t)
        BY <2>7
      <3>2. Removing(t)' => Quiet
        <4>1. accept' = accept /\ \A u \in Threads : u # t => thread'[u] = thread[u]
          BY <3>1 DEF Stroll
        <4>2. ASSUME Removing(t)', NEW u \in Threads, u # t PROVE ~Removing(u)
          <5>1. ~Removing(u)'
            BY <2>4, <4>2 DEF Threads
          <5> QED BY <4>1, <4>2, <5>1 DEF Removing
        <4> QED BY <2>4, <3>1, <4>1, <4>2 DEF Quiet, Adding, Stroll
      <3> QED BY <2>1, <2>2, <3>1, <3>2, TrackedStroll
    <2> QED BY <2>1, <2>5, <2>6, <2>7, Steps
  <1> QED BY <1>1, <1>2

LEMMA TrackedInit == ASSUME Init PROVE Tracked /\ SafeAlone
  <1>1. PICK c \in Clients :
            /\ head = c /\ tail = c /\ count = 1
            /\ next = [n \in Clients |-> NoClient]
            /\ state = [n \in Clients |-> IF n = c THEN "live" ELSE "new"]
            /\ accept = NoAddition /\ thread = [t \in Threads |-> Resting]
            /\ misused = FALSE
    BY DEF Init
  <1>2. PICK f \in [Nat -> Clients] : \A i \in Nat : f[i] = c
    <2>1. [i \in Nat |-> c] \in [Nat -> Clients]
      OBVIOUS
    <2> QED BY <2>1
  <1>3. \A i \in 1..1 : i = 1 /\ i \in Nat /\ f[i] = c
    BY <1>2
  <1>4. /\ ~Preparing /\ ~Adding
        /\ \A t \in Threads : ~Removing(t) /\ ~Cut(t) /\ ~Walking(t)
    BY <1>1 DEF Preparing, Adding, Removing, Cut, Walking, NoAddition, Resting
  <1>5. 1 \in 1..1 /\ f[1] = c
    BY <1>2
  <1>6. Chain(f, 1)
    BY <1>1, <1>3, <1>4, <1>5 DEF Chain, Unlinked
  <1>7. Live(f, 1)
    BY <1>1, <1>3, <1>4, <1>5 DEF Live, OnChain
  <1>8. Exact(f, 1)
    BY <1>1, <1>4, <1>5, <1>6, <1>7 DEF Exact, Walks, Last
  <1>9. 1 \in Nat
    OBVIOUS
  <1> QED BY <1>1, <1>8, <1>9 DEF Tracked, SafeAlone

LEMMA TrackedHolds == Spec => [](Tracked /\ SafeAlone)
  <1>1. Init => Tracked /\ SafeAlone
    BY TrackedInit
  <1>2. Pointers /\ Tracked /\ SafeAlone /\ [Next]_vars => Tracked' /\ SafeAlone'
    BY TrackedNext
  <1> QED BY <1>1, <1>2, PointersAndCounts, PTL DEF Spec

\* Only a removal that overlaps another operation lets a thread use a deleted node, or follow a
\* null pointer: AddClient, RemoveSocketFromList, HasClient and the worker's copy of the list
\* are safe alone, and a walk beside an addition is.
THEOREM MisusedOnlyInOverlap == Spec => []SafeAlone
  BY TrackedHolds, PTL

-----------------------------------------------------------------------------
(* The chain is what the list is seen to hold.                             *)

\* A chain has as many nodes as its length says, and no more than there are clients.
LEMMA ChainSize ==
    ASSUME NEW f \in [Nat -> Clients], NEW m \in Nat, \A i, j \in 1..m : f[i] = f[j] => i = j
    PROVE  /\ Cardinality({f[i] : i \in 1..m}) = m
           /\ m <= Cardinality(Clients)
  <1> DEFINE S == {f[i] : i \in 1..m}
             h == [i \in 1..m |-> f[i]]
  <1>1. h \in Bijection(1..m, S)
    <2>1. h \in [1..m -> S]
      OBVIOUS
    <2>2. \A i, j \in 1..m : h[i] = h[j] => i = j
      OBVIOUS
    <2>3. \A c \in S : \E i \in 1..m : h[i] = c
      OBVIOUS
    <2>4. DOMAIN h = 1..m
      OBVIOUS
    <2> HIDE DEF S, h
    <2> QED BY <2>1, <2>2, <2>3, <2>4 DEF Bijection, Injection, Surjection, IsInjective
  <1>2. S \subseteq Clients
    OBVIOUS
  <1> HIDE DEF S, h
  <1>3. Cardinality(S) = m
    BY <1>1, FS_CountingElements DEF ExistsBijection
  <1>4. Cardinality(S) <= Cardinality(Clients)
    BY <1>2, ListAssumption, FS_Subset
  <1> QED BY <1>3, <1>4 DEF S

\* A walk from the head sees the chain, and nothing else.
LEMMA ChainIsSeen ==
    ASSUME head \in Links, NEW f \in [Nat -> Clients], NEW m \in Nat, Chain(f, m)
    PROVE  OnList = {f[i] : i \in 1..m}
  <1> DEFINE C == Cardinality(Clients)
             S == {f[i] : i \in 1..m}
             A == {k \in Nat : k <= C => \A i \in 1..m : i <= k + 1 => f[i] \in Seen[k]}
  <1>0. C \in Nat /\ m <= C /\ NoClient \notin Clients
    BY Sizes, ChainSize, ListAssumption DEF Chain
  <1>e. \A k \in 0..C : Seen[k] = Further(Seen, k)
    BY SeenIs
  <1> HIDE DEF C
  <1>1. OnList \subseteq S
    <2>1. head \in S \cup {NoClient}
      <3>1. m # 0 => 1 \in 1..m
        OBVIOUS
      <3> QED BY <3>1 DEF Chain
    <2>2. \A n \in S : next[n] \in S \cup {NoClient}
      <3> SUFFICES ASSUME NEW i \in 1..m PROVE next[f[i]] \in S \cup {NoClient}
        OBVIOUS
      <3>1. i # m => i + 1 \in 1..m
        OBVIOUS
      <3> QED BY <3>1 DEF Chain
    <2> HIDE DEF S
    <2> QED BY <2>1, <2>2, Within
  <1>2. 0 \in A
    <2>1. 0 \in 0..C
      BY <1>0
    <2>2. Seen[0] = {head}
      BY <1>e, <2>1 DEF Further
    <2>3. ASSUME NEW i \in 1..m, i <= 0 + 1 PROVE f[i] = head
      <3>1. i = 1 /\ m # 0
        BY <2>3
      <3> QED BY <3>1 DEF Chain
    <2> QED BY <2>2, <2>3
  <1>3. ASSUME NEW k \in Nat, k \in A PROVE k + 1 \in A
    <2> SUFFICES ASSUME k + 1 <= C, NEW i \in 1..m, i <= (k + 1) + 1 PROVE f[i] \in Seen[k + 1]
      OBVIOUS
    <2>1. k <= C /\ k + 1 \in 0..C /\ k + 1 # 0 /\ (k + 1) - 1 = k
      BY <1>0
    <2>2. Seen[k + 1] = Seen[k] \cup {next[n] : n \in Seen[k] \ {NoClient}}
      BY <1>e, <2>1 DEF Further
    <2>3. \A j \in 1..m : j <= k + 1 => f[j] \in Seen[k]
      BY <1>3, <2>1
    <2>4. CASE i <= k + 1
      BY <2>2, <2>3, <2>4
    <2>5. CASE ~(i <= k + 1)
      <3>1. i - 1 \in 1..m /\ i - 1 <= k + 1 /\ (i - 1) + 1 = i /\ i - 1 # m
        BY <2>5
      <3>2. next[f[i - 1]] = f[i] /\ f[i - 1] \in Clients
        BY <3>1 DEF Chain
      <3> QED BY <1>0, <2>2, <2>3, <3>1, <3>2
    <2> QED BY <2>4, <2>5
  <1>4. C \in A
    <2> HIDE DEF A
    <2> QED BY <1>0, <1>2, <1>3, Induction
  <1>5. \A i \in 1..m : f[i] \in Seen[C] /\ f[i] \in Clients
    <2>1. \A i \in 1..m : i <= C + 1
      BY <1>0
    <2> QED BY <1>0, <1>4, <2>1
  <1>6. S \subseteq OnList
    BY <1>0, <1>5 DEF OnList, C
  <1> QED BY <1>1, <1>6

\* While additions and removals exclude each other, between two of them exactly the connected
\* clients are on the list and _client_count is their number: no client is forgotten, and the
\* worker does not sleep over clients it has.
THEOREM CountIsExact == Spec => []CountTracks
  <1>1. Pointers /\ Tracked => CountTracks
    <2> SUFFICES ASSUME Pointers, Tracked, Apart, Quiet
                 PROVE  /\ OnList = {c \in Clients : state[c] = "live"}
                        /\ count = Cardinality(OnList)
      BY DEF CountTracks, Apart, Quiet
    <2>1. PICK f \in [Nat -> Clients], m \in Nat : Exact(f, m)
      BY DEF Tracked
    <2>2. OnList = {f[i] : i \in 1..m} /\ Cardinality(OnList) = m
      <3>1. head \in Links /\ Chain(f, m)
        BY <2>1 DEF Pointers, Types, Fields, Exact
      <3>2. OnList = {f[i] : i \in 1..m}
        BY <3>1, ChainIsSeen
      <3>3. Cardinality({f[i] : i \in 1..m}) = m
        BY <3>1, ChainSize DEF Chain
      <3> QED BY <3>2, <3>3
    <2>3. \A c \in Clients : state[c] = "live" <=> OnChain(f, m, c)
      <3>1. ~Preparing /\ \A t \in Threads : ~Cut(t)
        BY DEF Quiet, Adding, Preparing, Removing, Cut
      <3> QED BY <2>1, <3>1 DEF Exact, Live
    <2>4. count = m
      BY <2>1 DEF Exact
    <2> QED BY <2>2, <2>3, <2>4 DEF OnChain
  <1> QED BY <1>1, PointersAndCounts, TrackedHolds, PTL

=============================================================================
