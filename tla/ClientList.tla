----------------------------- MODULE ClientList -----------------------------
(***************************************************************************)
(* The list of clients of one WorkerThread, one shared-memory access a     *)
(* step.  The accept thread appends (AddClient); the worker removes what   *)
(* it found closed or broken, the response handler what it could not send  *)
(* to (RemoveSocketFromList); both walk the list as well, the worker to    *)
(* fill its select sets, the handler to find a client (HasClient).  No     *)
(* lock covers any two of them.                                            *)
(*                                                                         *)
(* A node is named by its client: each client is added once, and a deleted *)
(* address is not used again.  A read of a deleted node, or through a null *)
(* pointer, is undefined: the model notes it (misused) and ends there.     *)
(* ->socket never changes and is read in one step with ->next.             *)
(* compare_exchange_weak does not fail for no reason (x86).                *)
(***************************************************************************)
EXTENDS Integers, FiniteSets

CONSTANTS
    Clients,        \* clients, each with its node
    Worker, Handler,
    NoClient,       \* nullptr
    MaxClients      \* MAX_CLIENT_COUNT

ASSUME ListAssumption ==
    /\ IsFiniteSet(Clients) /\ Clients # {}
    /\ NoClient \notin Clients
    /\ Worker # Handler
    /\ MaxClients \in Nat \ {0}

VARIABLES
    head, tail, count,  \* _head, _tail, _client_count
    next,           \* ->next of each node
    state,          \* of each client: "new", "live", or "gone" (closed and deleted)
    accept,         \* AddClient: pc, the client, and its locals
    thread,         \* worker and handler: pc, target, prev, current, next
    found,          \* socketList of the worker: what its walk has seen
    clash,          \* kinds of operations that have overlapped so far
    misused         \* a deleted node was read or written, or null dereferenced

memory == <<head, tail, count, next, state, misused>>
vars == <<memory, accept, thread, found, clash>>

Threads == {Worker, Handler}
Resting == [pc |-> "idle", target |-> NoClient, prev |-> NoClient,
            current |-> NoClient, next |-> NoClient]
NoAddition == [pc |-> "idle", client |-> NoClient, last |-> NoClient, next |-> NoClient]
Links == Clients \cup {NoClient}

\* ->socket and ->next of a node
Access(n) == misused' = (misused \/ n = NoClient \/ state[n] # "live")
NextOf(n) == IF n = NoClient THEN NoClient ELSE next[n]

-----------------------------------------------------------------------------
(* AddClient, by the accept thread.                                        *)

AddStart(c) ==
    /\ accept.pc = "idle"
    /\ state[c] = "new"
    /\ count < MaxClients
    /\ state' = [state EXCEPT ![c] = "live"]
    /\ accept' = [accept EXCEPT !.pc = "load", !.client = c]
    /\ UNCHANGED <<head, tail, count, next, misused, thread, found>>

LoadTail ==
    /\ accept.pc = "load"
    /\ accept' = [accept EXCEPT !.pc = IF tail = NoClient THEN "head" ELSE "next", !.last = tail]
    /\ UNCHANGED <<memory, thread, found>>

\* An empty list.  (The code puts a second node on it and forgets the first.)
StoreHead ==
    /\ accept.pc = "head"
    /\ head' = accept.client
    /\ accept' = [accept EXCEPT !.pc = "tail"]
    /\ UNCHANGED <<tail, count, next, state, misused, thread, found>>

StoreTail ==
    /\ accept.pc = "tail"
    /\ tail' = accept.client
    /\ accept' = [accept EXCEPT !.pc = "one"]
    /\ UNCHANGED <<head, count, next, state, misused, thread, found>>

StoreCount ==
    /\ accept.pc = "one"
    /\ count' = 1
    /\ accept' = NoAddition
    /\ UNCHANGED <<head, tail, next, state, misused, thread, found>>

LoadNext ==
    /\ accept.pc = "next"
    /\ Access(accept.last)
    /\ accept' = [accept EXCEPT !.pc = "check", !.next = next[accept.last]]
    /\ UNCHANGED <<head, tail, count, next, state, thread, found>>

CheckTail ==
    /\ accept.pc = "check"
    /\ accept' = [accept EXCEPT !.pc = IF accept.last # tail THEN "load"
                                       ELSE IF accept.next = NoClient THEN "link" ELSE "help"]
    /\ UNCHANGED <<memory, thread, found>>

\* tail->next.compare_exchange_weak(next, newNode); no one else appends, so it succeeds
Link ==
    /\ accept.pc = "link"
    /\ Access(accept.last)
    /\ next[accept.last] = NoClient
    /\ next' = [next EXCEPT ![accept.last] = accept.client]
    /\ accept' = [accept EXCEPT !.pc = "swing"]
    /\ UNCHANGED <<head, tail, count, state, thread, found>>

\* _tail.compare_exchange_weak(tail, new)
MoveTail(new) == tail' = IF tail = accept.last THEN new ELSE tail

Swing ==
    /\ accept.pc = "swing"
    /\ MoveTail(accept.client)
    /\ accept' = [accept EXCEPT !.pc = "more"]
    /\ UNCHANGED <<head, count, next, state, misused, thread, found>>

Help ==
    /\ accept.pc = "help"
    /\ MoveTail(accept.next)
    /\ accept' = [accept EXCEPT !.pc = "load"]
    /\ UNCHANGED <<head, count, next, state, misused, thread, found>>

AddToCount ==
    /\ accept.pc = "more"
    /\ count' = count + 1
    /\ accept' = NoAddition
    /\ UNCHANGED <<head, tail, next, state, misused, thread, found>>

AddClient == \/ LoadTail \/ StoreHead \/ StoreTail \/ StoreCount
             \/ LoadNext \/ CheckTail \/ Link \/ Swing \/ Help \/ AddToCount

-----------------------------------------------------------------------------
(* RemoveSocketFromList, by the worker or the handler.                     *)

Goto(t, pc) == thread' = [thread EXCEPT ![t].pc = pc]

StartRemoval(t, c) ==
    thread' = [thread EXCEPT ![t] = [pc |-> "look", target |-> c, prev |-> NoClient,
                                     current |-> head, next |-> NoClient]]

\* a removal ends: the worker is back in its turn, the handler at its loop
Return(t) == thread' = [thread EXCEPT ![t] = [Resting EXCEPT !.pc =
                           IF t = Worker THEN "turn" ELSE "idle"]]

Look(t) ==
    LET n == thread[t].current IN
    /\ thread[t].pc = "look"
    /\ IF n = NoClient
       THEN Return(t) /\ UNCHANGED misused
       ELSE /\ Access(n)
            /\ thread' = [thread EXCEPT ![t] =
                  IF n = thread[t].target THEN [@ EXCEPT !.pc = "unlink", !.next = next[n]]
                  ELSE [@ EXCEPT !.prev = n, !.current = next[n]]]
    /\ UNCHANGED <<head, tail, count, next, state, accept, found>>

\* _head.compare_exchange_weak(current, next): a failure overwrites current
UnlinkFirst(t) ==
    /\ thread[t].pc = "unlink" /\ thread[t].prev = NoClient
    /\ IF head = thread[t].current
       THEN /\ head' = thread[t].next
            /\ Goto(t, IF thread[t].next = NoClient THEN "empty" ELSE "delete")
       ELSE /\ thread' = [thread EXCEPT ![t].pc = "step", ![t].current = head]
            /\ UNCHANGED head
    /\ UNCHANGED <<tail, count, next, state, misused, accept, found>>

\* Mutant: of the last node only the tail is corrected, it stays linked.
UnlinkInnerOnly(t) ==
    LET prev == thread[t].prev IN
    /\ thread[t].pc = "unlink" /\ prev # NoClient
    /\ Access(prev)
    /\ IF next[prev] = thread[t].current
       THEN /\ next' = [next EXCEPT ![prev] = IF thread[t].next = NoClient THEN @
                                              ELSE thread[t].next]
            /\ Goto(t, "end")
       ELSE /\ thread' = [thread EXCEPT ![t].pc = "step", ![t].current = next[prev]]
            /\ UNCHANGED next
    /\ UNCHANGED <<head, tail, count, state, accept, found>>

\* prev->next.compare_exchange_weak(current, next), likewise
UnlinkLater(t) ==
    LET prev == thread[t].prev IN
    /\ thread[t].pc = "unlink" /\ prev # NoClient
    /\ Access(prev)
    /\ IF next[prev] = thread[t].current
       THEN /\ next' = [next EXCEPT ![prev] = thread[t].next]
            /\ Goto(t, "end")
       ELSE /\ thread' = [thread EXCEPT ![t].pc = "step", ![t].current = next[prev]]
            /\ UNCHANGED next
    /\ UNCHANGED <<head, tail, count, state, accept, found>>

\* after a failure: prev = current; current = current->next
StepOn(t) ==
    LET n == thread[t].current IN
    /\ thread[t].pc = "step"
    /\ Access(n)
    /\ thread' = [thread EXCEPT ![t].pc = "look", ![t].prev = n, ![t].current = NextOf(n)]
    /\ UNCHANGED <<head, tail, count, next, state, accept, found>>

\* Mutant: the tail of an emptied list is kept.
KeepTail(t) ==
    /\ thread[t].pc = "empty"
    /\ Goto(t, "delete")
    /\ UNCHANGED <<memory, accept, found>>

\* the only client is gone
ClearTail(t) ==
    /\ thread[t].pc = "empty"
    /\ tail' = NoClient
    /\ Goto(t, "delete")
    /\ UNCHANGED <<head, count, next, state, misused, accept, found>>

TestTail(t) ==
    /\ thread[t].pc = "end"
    /\ Goto(t, IF tail = thread[t].current THEN "retract" ELSE "delete")
    /\ UNCHANGED <<memory, accept, found>>

\* Mutant: the tail is cleared although nodes are left.
RetractToNothing(t) ==
    /\ thread[t].pc = "retract"
    /\ tail' = NoClient
    /\ Goto(t, "delete")
    /\ UNCHANGED <<head, count, next, state, misused, accept, found>>

RetractTail(t) ==
    /\ thread[t].pc = "retract"
    /\ tail' = thread[t].prev
    /\ Goto(t, "delete")
    /\ UNCHANGED <<head, count, next, state, misused, accept, found>>

\* the database thread is told, the socket closed and the node deleted
DeleteNode(t) ==
    /\ thread[t].pc = "delete"
    /\ Access(thread[t].current)
    /\ state' = [state EXCEPT ![thread[t].current] = "gone"]
    /\ Goto(t, "less")
    /\ UNCHANGED <<head, tail, count, next, accept, found>>

\* Mutant: fetch_add where fetch_sub is meant.
SubAdds(t) ==
    /\ thread[t].pc = "less"
    /\ count' = count + 1
    /\ Return(t)
    /\ UNCHANGED <<head, tail, next, state, misused, accept, found>>

\* fetch_sub; the counter is an int
SubFromCount(t) ==
    /\ thread[t].pc = "less"
    /\ count' = count - 1
    /\ Return(t)
    /\ UNCHANGED <<head, tail, next, state, misused, accept, found>>

RemoveSocketFromList(t) == \/ Look(t) \/ UnlinkFirst(t) \/ UnlinkLater(t) \/ StepOn(t)
                           \/ ClearTail(t) \/ TestTail(t) \/ RetractTail(t)
                           \/ DeleteNode(t) \/ SubFromCount(t)

-----------------------------------------------------------------------------
(* The worker's turn: copy the list, select, then visit what was copied.   *)

CopyStart ==
    /\ thread[Worker].pc = "idle"
    /\ count # 0
    /\ thread' = [thread EXCEPT ![Worker].pc = "copy", ![Worker].current = head]
    /\ UNCHANGED <<memory, accept, found>>

Copy ==
    LET n == thread[Worker].current IN
    /\ thread[Worker].pc = "copy"
    /\ n # NoClient
    /\ Access(n)
    /\ found' = found \cup {n}
    /\ thread' = [thread EXCEPT ![Worker].current = next[n]]
    /\ UNCHANGED <<head, tail, count, next, state, accept>>

\* select fails if one socket is closed, and the turn is given up; so it is if none is found
Select ==
    /\ thread[Worker].pc = "copy"
    /\ thread[Worker].current = NoClient
    /\ \/ /\ \A c \in found : state[c] = "live"
          /\ found # {}
          /\ Goto(Worker, "turn")
          /\ UNCHANGED found
       \/ /\ found = {} \/ \E c \in found : state[c] = "gone"
          /\ Goto(Worker, "idle")
          /\ found' = {}
    /\ UNCHANGED <<memory, accept>>

\* an error, a hang-up or an oversized packet; any socket but this one is as it was
DropClient(c) ==
    /\ thread[Worker].pc = "turn"
    /\ c \in found
    /\ StartRemoval(Worker, c)
    /\ found' = found \ {c}
    /\ UNCHANGED <<memory, accept>>

\* nothing (more) to remove in this turn
TurnEnds ==
    /\ thread[Worker].pc = "turn"
    /\ Goto(Worker, "idle")
    /\ found' = {}
    /\ UNCHANGED <<memory, accept>>

-----------------------------------------------------------------------------
(* The response handler: HasClient, then a send that may fail.             *)

HasStart(c) ==
    /\ thread[Handler].pc = "idle"
    /\ state[c] # "new"
    /\ thread' = [thread EXCEPT ![Handler] = [pc |-> "has", target |-> c, prev |-> NoClient,
                                              current |-> head, next |-> NoClient]]
    /\ UNCHANGED <<memory, accept, found>>

HasClient ==
    LET n == thread[Handler].current IN
    /\ thread[Handler].pc = "has"
    /\ IF n = NoClient
       THEN Return(Handler) /\ UNCHANGED misused
       ELSE /\ Access(n)
            /\ thread' = [thread EXCEPT ![Handler] =
                  IF n = thread[Handler].target THEN [@ EXCEPT !.pc = "send"]
                  ELSE [@ EXCEPT !.current = next[n]]]
    /\ UNCHANGED <<head, tail, count, next, state, accept, found>>

Send ==
    /\ thread[Handler].pc = "send"
    /\ Return(Handler)
    /\ UNCHANGED <<memory, accept, found>>

SendFails ==
    /\ thread[Handler].pc = "send"
    /\ StartRemoval(Handler, thread[Handler].target)
    /\ UNCHANGED <<memory, accept, found>>

-----------------------------------------------------------------------------
(* What has overlapped, for the properties alone.                          *)

Adding == accept.pc # "idle"
Removing(t) == thread[t].pc \in {"look", "unlink", "step", "empty", "end", "retract",
                                 "delete", "less"}
Walking(t) == thread[t].pc \in {"copy", "has"}

Overlap(kind) ==
    CASE kind = "add-remove"    -> Adding /\ \E t \in Threads : Removing(t)
      [] kind = "remove-remove" -> \A t \in Threads : Removing(t)
      [] kind = "walk-remove"   -> \E t, u \in Threads : Walking(t) /\ Removing(u)

Kinds == {"add-remove", "remove-remove", "walk-remove"}
Overlaps == {kind \in Kinds : Overlap(kind)}

-----------------------------------------------------------------------------
\* the constructor: a worker starts with the client it was made for
Init ==
    \E c \in Clients :
        /\ head = c /\ tail = c /\ count = 1
        /\ next = [n \in Clients |-> NoClient]
        /\ state = [n \in Clients |-> IF n = c THEN "live" ELSE "new"]
        /\ accept = NoAddition
        /\ thread = [t \in Threads |-> Resting]
        /\ found = {}
        /\ clash = {}
        /\ misused = FALSE

Accept == AddClient \/ \E c \in Clients : AddStart(c)
WorkerStep == \/ CopyStart \/ Copy \/ Select \/ TurnEnds
              \/ \E c \in Clients : DropClient(c)
              \/ RemoveSocketFromList(Worker)
HandlerStep == \/ HasClient \/ Send \/ SendFails
               \/ \E c \in Clients : HasStart(c)
               \/ RemoveSocketFromList(Handler)

Step == Accept \/ WorkerStep \/ HandlerStep

Next == ~misused /\ Step /\ clash' = clash \cup Overlaps'

Spec == Init /\ [][Next]_vars

-----------------------------------------------------------------------------
Pcs == {"idle", "look", "unlink", "step", "empty", "end", "retract", "delete", "less",
        "copy", "turn", "has", "send"}

\* Pointers are null or point to nodes; the locals of each thread are of their types.
TypeOK ==
    /\ head \in Links /\ tail \in Links
    /\ count \in -Cardinality(Clients)..Cardinality(Clients)
    /\ next \in [Clients -> Links]
    /\ state \in [Clients -> {"new", "live", "gone"}]
    /\ accept \in [pc : {"idle", "load", "head", "tail", "one", "next", "check", "link",
                         "help", "swing", "more"},
                   client : Links, last : Links, next : Links]
    /\ thread \in [Threads -> [pc : Pcs, target : Links, prev : Links, current : Links,
                               next : Links]]
    /\ found \subseteq Clients /\ clash \subseteq Kinds /\ misused \in BOOLEAN

\* the nodes a walk from head would see, k steps of it
Seen[k \in 0..Cardinality(Clients)] ==
    IF k = 0 THEN {head} ELSE Seen[k - 1] \cup {next[n] : n \in Seen[k - 1] \ {NoClient}}
OnList == Seen[Cardinality(Clients)] \ {NoClient}

\* While removals exclude each other, every node on the list is alive and its socket open:
\* select never fails on a closed socket, which would starve every client of the worker
\* (WorkerThread.cpp:272), even though clients are added meanwhile.
ListSound == "remove-remove" \notin clash => \A c \in OnList : state[c] = "live"

\* While additions and removals exclude each other, between two of them exactly the
\* connected clients are on the list and _client_count is their number, so that no client
\* is forgotten and the worker does not sleep over clients it has (WorkerThread.cpp:239).
CountTracks ==
    /\ clash \subseteq {"walk-remove"}
    /\ ~Adding /\ \A t \in Threads : ~Removing(t)
    => /\ OnList = {c \in Clients : state[c] = "live"}
       /\ count = Cardinality(OnList)

\* Only a removal that overlaps another operation lets a thread use a deleted node.
SafeAlone == misused => clash # {}
=============================================================================
