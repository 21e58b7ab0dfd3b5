# GameDatabaseServer: specification and verification

TLA+ models of the game database server under `src/`, TLC runs that check them on
small instances, and theorems that TLAPS proves for every instance. File and line
references are to the repository.

## 1. The system

A server process (`Project1/`) accepts game clients over TCP, receives length-prefixed
FlatBuffers from them and answers each with data from a MySQL database. Its threads:

| thread | code | does |
|---|---|---|
| accept | `Server::Run` | accepts a socket, gives it to a worker thread that has room for it, or to a new one |
| workers | `WorkerThread::RunOnServerThread` | `select` over their clients, receive packets, put a `Task` on `RecvPakets`; remove broken clients |
| database | `DatabaseThread::Run` | takes tasks one by one, runs SQL, puts a `DBResponse` on `SendPackets` |
| response handler | `Server::ResponseHandlerLoop` | takes responses, finds the worker of the socket and calls its `SendToClient`, which removes the client when the send fails |
| cleaner | `Server::Thread_ClearDeadWorkerLoop` | erases worker threads that have ended |

| component | state it keeps | operations | what makes it correct |
|---|---|---|---|
| Database thread: accounts, sessions, registry (`DatabaseThread.cpp`) | tables users, player_data, player_inventory, user_sessions, game_servers | Login, Logout, CreateAccount, CreateGameServer, GameServerList, JoinGameServer, CloseGameServer, disconnect, start, stop | an account is online at one socket; sessions and servers die with their socket; a SUCCESS is true; active names are unique |
| Database thread: shop, items, player data, chat | player_data.gold, player_inventory, chat_logs, the connection | read and update, buy, sell | gold and items change together and stay in range, also when a statement fails |
| Worker thread (`WorkerThread.cpp`) | lock-free list of sockets, client count | add, remove, receive, send | a client is removed, reported and closed once; nothing received is lost or read twice |
| Server: accept loop and response handler (`Server.cpp`) | list of workers, the two queues | accept, find or make a worker, respond | responses reach the client that asked |
| Server life (`Server.cpp`, `ServerMain.cpp`) | flags, sockets, threads, the objects they use | initialise, run, stop from the console, destroy | the end waits for every thread and comes; nothing is used after it is deleted; nobody is left online |
| Queue (`Common/LockFreeQueue.h`) | linked nodes, head, tail | enqueue, dequeue, destroy | FIFO, no use of a deleted node, no leak and no double delete |
| Framing (`ClientMain.cpp`, `WorkerThread.cpp`) | bytes on a connection | send and receive header and body, with retries | what is received is what was sent |
| Test client (`TestClient/ClientMain.cpp`) | its socket, whether it is connected, the user it shows | menu, requests, waiting for answers, reconnecting | an answer belongs to the last request; a user who keeps trying gets in |
| Packets (`Packet.h`, `ServerPacketManager.cpp`) | none | parse, validate, build responses | what is not valid is refused |
| MySQL connector (`MySqlConnector.cpp`) | the connection | run a statement, read its result | - |

What is hard here: four kinds of threads that share queues, lists and socket handles; a
handle is the only name the program has for a client, and the operating system gives
it out again as soon as it is closed; SQL statements that fail one by one, or take
effect although the client library reports a failure; a process that stops, or dies
and starts again on the same tables; a queue and a client list without locks that
delete their nodes, whose addresses may come back as new ones; a last error that is the thread's and not the client's; packets cut anywhere by the stream; and clients that time out and try again.
`PROJECT.json` lists these hazards line by line.

## 2. The modules

| module | of | state and actions |
|---|---|---|
| `DatabaseThread` | `DatabaseThread.cpp` 45-597, 903-1142, 1183-1228, 1404-1438, 1477-1507 | one variable per table; one operator per handler, each of its outcomes a disjunct; `Run` is one turn of the thread; `ConnectDB`, `DisconnectAllUsers`, `Stop`, `Crash` are the life of the process |
| `SessionLifecycle` | abstract: where each user is logged in | `LogIn`, `LogOut`, `HangUp`, `Reset` |
| `Economy` | `DatabaseThread.cpp` 598-624, 652-736, 887-901, 1144-1181, 1230-1402 | gold and items per account, and whether the connection has unread results; one operator per handler, each of its outcomes a disjunct |
| `ServerPipeline` | extends `DatabaseThread` with the other threads (`Server.cpp`, `WorkerThread.cpp`) | connections, inboxes, the two queues, the place of each thread in its loop; clients send and hang up at any time |
| `GameClient` | extends `DatabaseThread` with the test client (`ClientMain.cpp` 31-683) | per process: its place in the menu, socket, connected, user shown, request sent; per handle: packets under way in both directions |
| `ServerLife` | `Server.cpp` 13-328, `ServerMain.cpp` 22-73, and the start and end of the threads | main, console threads, handler, cleaner, database thread, workers; the flags, the mutex and the objects they share |
| `Framing` | `ClientMain.cpp` 50-190, `WorkerThread.cpp` 150-397 | sender, receiver and the units on the wire; each partial send or receive an action |
| `ClientList` | `WorkerThread.cpp` 20-304 | head, tail, count, nodes; one action per access to shared memory by the accept thread, the worker and the response handler |
| `LockFreeQueue` | `Common/LockFreeQueue.h` | head, tail, nodes, one program counter per thread; one action per access to shared memory, and the destructor |
| `FifoQueue` | abstract: a sequence | `Enqueue`, `Dequeue` |
| `...Proofs` | theorems about `DatabaseThread`, `Economy`, `ServerPipeline`, `ServerLife`, `Framing`, `ClientList`, `LockFreeQueue`, `GameClient` | - |
| `MC...` | instances for TLC | symmetry sets, views, prices, sizes, and the requests clients may send |

How they fit together: `DatabaseThread` is the centre. `ServerPipeline` puts the server's threads
around it, `GameClient` the clients. `ServerPipeline` uses three
simpler things in the place of real ones, and each has a module of its own that looks at the real one:
a FIFO for the queues (`LockFreeQueue` implements it while it is intact), a set of clients whose removal is one step (`ClientList`), and packets that
arrive whole (`Framing`). `ServerLife` looks at what `ServerPipeline` leaves out: the beginning and the end.

Operators named after a bug ("Mutant: ..." in their comment) are deliberately wrong
variants of the definition that follows them. They are used nowhere; each stands for
one plausible mistake, and with it in place of the definition the property listed
under "mutants" of `PROJECT.json` is violated. They show that the properties depend
on the code.

### How the model corresponds to the code

**DatabaseThread.** A task is processed alone, so a handler is one action, but every SQL
statement in it ends in one of four ways, chosen by `QueryOutcomes`: `ok`; `error` (no
effect, reported); `lost` (took effect, the connection broke before the result came,
reported as failure); `fresh` (succeeded on a connection that `MYSQL_OPT_RECONNECT`, set
in `MySqlConnector.cpp:29`, has just re-opened, so `LAST_INSERT_ID()` is 0).
Strings are model values. A password is the bit "it is right". `valid` stands for
what the `Parse...` and `Validate...` functions of `ServerPacketManager` decide. A missing
row of user_sessions reads as an offline one, as in the login query
(`COALESCE(s.is_online, 0)`), and no code depends on the difference. User ids in requests are those
the packet carries: the server does not compare them with the session, and neither does the
model. `reply` is the response the last step enqueued; it is there to relate what a client
is told to the tables. The schema's keys are part of the model: UNIQUE username, NOT NULL
owner_nickname (an unknown owner cannot create a server), the foreign keys of
player_data and player_inventory.

**Economy.** The same database thread, for the requests about gold and items; the two modules share no
table that both change after an account exists, so they are checked apart. Statements end
in the same ways. In addition `unread` records that a multi-statement query (allowed by
`CLIENT_MULTI_STATEMENTS`, `MySqlConnector.cpp:44`) has left results behind: nothing in the code calls
`mysql_next_result`, and the client library refuses every later command. Only a new process has a usable
connection (`Restart`). In `DatabaseThread` a connection in that state is one whose statements all end in `error`. The four statements of a purchase are one step, since the server
runs them in one transaction; the code learns of the first only. A sale sends its statements one by one: in `SaleExecuted`, `k` of
them succeed, and `f` says before which one the connection was re-opened (0: never).
`Word` is 2^32 and prices are products `% Word`; `IntMax` is the largest value of an INT column, which the server enforces. An account has any combination of
default rows (`CreateDefaultPlayerData` does not look at its results). The other columns of player data are left out.

**ServerPipeline.** A connection is a fact of the model, the code only has its handle
(`fd`). `Unlink`, `Notify` and `CloseSocket` are the three visible moments of
`RemoveSocketFromList`; between them any other thread may run. A worker copies the handles of its list
(`CopyList`) and then visits each; the copy may be stale, so `Receive` reads from whoever
holds the handle now, even another worker's client. `TakeResponse` is the lookup
(`FindWorkerThreadBySocket` and the second `HasClient`), the send is a later step.
`Settings` names what may go wrong around the server: which requests come, how a send may
end, whether select may report an error, and whether a recv may find that nothing has come yet; a behaviour has one of them from its start (`setting`).
`blocked` says of each worker that the last error of its thread is WSAEWOULDBLOCK. A recv that returns 0 does not change it, so while it holds the worker takes the end of any of its
clients for "nothing has come yet" (`Skip`; `WorkerThread.cpp:313`). Header and body are two sends of the client, so in the `slow` setting each read may end with it set (`LastError`).
`opener`, the field `from` of queue entries and the counters `sent` and `got` exist for the properties.

**GameClient.** A user picks any command at the menu; the client sends it, waits, and on a failure goes the way of
`ClientMain.cpp`: it notes the disconnection, or reconnects and sends again. The server is reduced to three steps: `Receive` puts a packet on
`RecvPakets`, `NoticeEnd` a disconnection, `Handle` lets the database thread process a task and sends its response. A connection is
known by the server's handle, which is free again after its end was noticed. `misled` and the field `from`
exist for the properties. `Leftovers` starts a behaviour, where wanted, with a login of a client that is gone still in the queue.

**ServerLife.** Main goes through `Initialize`, `Run`, and after the loop `Stop` and the destructor, statement by statement where another thread can see the
difference; a console event runs `Stop` on a thread of its own. A section under `_worker_threads_mutex` is one step, except where it joins a thread: then `mutex` names who keeps it
meanwhile. Of what the threads do for clients only the objects they touch are kept. Any statement of `DisconnectAllUsers` may fail, as all do after a purchase (`Economy`). `late` records that the last
`DisconnectAllUsers` ended while the database thread was at a task, `unswept` that its UPDATE failed.

**Framing.** A connection in one direction is a sequence of units. A header is two units, so that it may arrive in halves; a body is one
unit or more. `send` and `recv` move any nonempty part. A header that is read from two units that are not one stands for any size, since it is read from
other bytes. `receiver.stale` says that the last error of the receiver's thread is WSAEWOULDBLOCK; a worker serves other clients between two reads of this one, so it may change at any time (`OtherCalls`). `slipped` records the moments at which the code throws a part of a packet away, or leaves one out, and goes on.
Up and down differ as `SendPacket`/`ProcessClientData` and `SendToClient`/`ReceivePacket` do: who blocks, who retries, and what an end does after a failure.

**ClientList.** One action per load, store, compare-and-swap or node access of `AddClient`, `RemoveSocketFromList`, `HasClient` and the copy made for `select`. A node is named by
its client; a deleted address is not used again. A read of a deleted node or through null is undefined, so a behaviour ends there, with `misused` set.
`clash` records which kinds of operations have overlapped so far; the properties say which overlap each damage needs.

**LockFreeQueue.** One action per load, store or compare-and-swap. An access to a deleted node
is undefined behaviour: the model notes it in `misused` and the behaviour ends there.
Where `Reuse` says so, `new` may return any address that was deleted, also one that a delayed producer still holds as the tail it has read. Its
compare-and-swap (49, 51, 57) then takes the new node for the old one, which is no access to a deleted node. The model follows what this does to the list, and `recycled` says that
it can happen from now on; `Intact` is neither of the two.
`Spurious` adds behaviours on a machine where `compare_exchange_weak` fails for no reason, as the standard allows (x86 does not).
The consumer's recheck of `head_` always succeeds, as there is one consumer. One behaviour has one or two producers (`callers`).

## 3. What the runs check

Runs that pass:

| run | shows | bounds |
|---|---|---|
| `accounts` | `TypeOK`, `SessionBound`, `ServerBound`, `TruthfulSuccess`, `NoSessionTakeover`, `ActivationBindsSocket`, `CreationKeepsNamesUnique`; `ImplementsLifecycle`: the session table implements `SessionLifecycle` | 2 users, names, servers, server names and sockets; all outcomes of statements; stop, crash and restart |
| `economy` | `TypeOK`, `SaleAtomic`, `ShopKeepsWorth` | 1 user, 1 item for sale and 1 unknown one, a word of 16 with a price of 3; outcomes `ok`, `error`, `lost` |
| `pipeline` | `ServerTypeOK`, `CleanupCoversUndisturbed`, `RemovedOnce`, `NothingAfterDisconnect`, `DisconnectHitsOwnSessions` | 2 workers with room for 1 client, 2 connections, 2 handles, 2 requests each; setting `calm`: logins, creates and rejoins, sends succeed; setting `rough`: logins and malformed packets, sends that find no room or fail, select errors; setting `slow`: logins, reads that block and hide ends |
| `answers` | liveness: `HangUpEndsSession`, `RequestsAnswered` | 1 worker, 2 connections, 2 logins each, setting `slow` |
| `queue` | `TypeOK`, `SafeWithOneProducer`, `OnlyLastDeletedTwice`, `NothingLeaks`, `ImplementsFifo` | 1 or 2 producers, 3 items each, 4 addresses that are used again, spurious failures or none |
| `clients` | `TypeOK`, `ListSound`, `CountTracks`, `SafeAlone` | 4 clients; the accept thread, the worker and the response handler |
| `life` | `TypeOK`, `ThreadsGone`, `PointerGood`, `OneOnConnection`, `LeftOnline`; liveness: `StopEnds` | 2 workers, 1 console event at any time, clean-up statements that fail |
| `framing` | `InStep`; liveness: `Arrives`, `EndNoticed` | 3 packets of 2, 1 and 2 units, sizes up to one above the limit, 2 retries, both directions, any last error of the worker's other calls |
| `client` | `ClientTypeOK`, `OwnAnswer`, `SessionEndsByName`; liveness: `LetIn` | 2 clients with one account, 3 handles, 1 mishap, 2 tasks waiting |

Runs that show where the code and its own documents disagree (the findings of
`PROJECT.json` quote both sides):

| run | property | what happens |
|---|---|---|
| `inventory` | `EmptyMeansEmpty` | after one purchase every query fails, and the client is told SUCCESS with an empty inventory |
| `freed` | `NoUseAfterFree` | with two producers, `enqueue` reads through a tail pointer that was deleted |
| `dangling` | `QueuesOutliveDatabaseThread` | `~Server` only tells the database thread to stop; the queues are destroyed while it is at a task |

### What a reader of the code would not expect

No property demands or forbids the following; the models have it because the code does.

Accounts and servers:

- An owner's rejoin (`DatabaseThread.cpp:1065`) reactivates a server without checking its
  name, so two active servers may share one. `CreationKeepsNamesUnique` says that this is the only way.
- A failed UPDATE of a logout (481-502) is only logged and the client is told SUCCESS. The failed
  inserts of an account's default rows (582-595) are not even looked at.
- Two accounts online over one connection make the scalar subquery of the list request (978) fail.

Gold and items:

- A purchase is answered with SUCCESS when START TRANSACTION succeeded; if a later statement failed nothing
  was bought (`PurchaseAcknowledged`). A price of 2^32 or more wraps, which is why `ShopKeepsWorth` speaks of
  purchases only up to there.
- A sale may be answered with FAIL although it was committed: the COMMIT was executed and its result lost, or the gold
  could not be read afterwards. A seller without a player_data row loses the items.
- With the outcome `fresh` in the run `economy`, `SaleAtomic` and `ShopKeepsWorth` fail: a connection re-opened
  inside the transaction has lost it, and the statements that follow are committed one by one.

Connections:

- The client of a response is looked up by its handle (`Server.cpp:300`): a response that is late goes to the next client
  that was given the handle.
- A response that meets a full socket buffer is dropped (`WorkerThread.cpp:179`), so `RequestsAnswered` is
  checked for sends that succeed.
- After a send that fails, the response handler reports a client whose request a worker still holds; the session
  opened by that request stays. After an error from select a worker keeps the handle on its copied list, and may read a request of
  another worker's client with it, which then follows that client's disconnection. `Undisturbed` names the condition under
  which `CleanupCovers` and the order of `NothingAfterDisconnect` hold; `RemovedOnce` holds without it.
- A worker that adds a client while the last one is removed may lose clients or have a count of 0 with a client on its list, which
  it then does not serve. Two removals at once may leave a closed node on the list: `select` fails on it from then on (`WorkerThread.cpp:272`);
  or use a deleted node, or null (146). `AddClient` on an empty list (65) leaves the node it has allocated first unused.
- A `recv` that returns 0 while the last error of the worker's thread is WSAEWOULDBLOCK, of whichever of its clients, does not end the client (`WorkerThread.cpp:313`): it stays
  on the list and its user logged in, until another call of that thread fails otherwise. Without its second disjunct `HangUpEndsSession` fails in the run `answers`. `HangUpEndsSession` and `EndNoticed` say that this is the only way: the end is acted on, or hidden time and again (`Hidden`, `stale`).
- Even one producer of a queue may use a deleted node where compare-and-swap fails for no reason.
- RecvPakets, which has several producers, is not safe on any machine. A producer may read through a deleted node (run `freed`), or a delayed compare-and-swap of one may succeed on
  a new node with the deleted one's address: a node is then linked behind one that is not in the list, or behind itself, or the tail is moved to a node that is gone, and items are lost or never freed: with `~misused` in the place of `Intact`, `NothingLeaks` and `ImplementsFifo` fail in the run `queue`.
  `ImplementsFifo`, `NothingLeaks` and what `TypeOK` says of the tail are about the queue until the first such moment (`Intact`). `OnlyLastDeletedTwice`, and that the head is never deleted, are true even then.
- The destructor of a queue deletes the object of the item dequeued last once more (`OnlyLastDeletedTwice`).

Start and stop:

- The response handler is started before `_is_running` is set (`Server.cpp:130`) and may leave its loop at once; no response is then ever sent.
- A `Stop` that comes during `Initialize` is undone by its last line (136); the server runs on without its listening socket.
- A console thread may still be inside `Stop` when main deletes the Server.
- A login processed after the last `DisconnectAllUsers` leaves its user online, and an UPDATE of it that fails (`DatabaseThread.cpp:221`) everybody; after one purchase every statement does.
  `LeftOnline` says that there is no third way. They stay so until the next start resets the sessions.

The test client:

- After a timeout or a failed send it forgets its socket without closing it, so the server keeps the connection and its session. Logging in again is refused
  once, which ends that session, and succeeds the second time: `LetIn` says that it comes to that.
- It may be given the response to a former holder of its handle, and is one answer behind until it reconnects (`misled`).
- Reconnecting does not reset the user it shows.

### Bounds

Two of everything is enough for the conflicts the tables can have: every
property compares at most two users, two servers, two names or two sockets, and the
handlers only compare ids for equality, which is also why symmetry is sound in the safety
runs; liveness is checked without symmetry. Two runs have a VIEW that leaves `reply` out: every step writes it and none reads it, so what can happen next
does not depend on it, and properties that mention it are action properties, which TLC evaluates on every transition.
In `economy` every statement names its user and its item, so one of each
meets every case; the word is small enough that 6 items cost more than it holds and that sums leave the INT range. Two handles and two connections contain "the same handle again" and "another
handle"; with a third connection the same scenarios occur later. Two requests of one
connection are needed for "log in, be refused, log in again". Six items over four
addresses make addresses come back, also while a delayed producer holds them. Four clients fill a list and empty it, with one at each end and one between. A packet of two units and one of a single unit, in turn, contain every way
to cut a stream: within a header, at its end, within a body. One mishap makes every retry and every stale connection of the client happen; 3 handles keep two clients and a forgotten connection apart. `MaxClients` is 1, 2 or 4 instead of 50 so that the limit is met.
Ids run out at the bound of `UserIds` and `ServerIds` (an insert is then not possible), requests at
`MaxRequests`, items at `MaxItems` per producer (and at the nodes there are), packets at `Packets`. Connections are accepted at most once each. Where the bounds let a run end (nothing left to send), or the
server does, deadlock is not checked; `StopEnds` takes its place in `life`. It is checked in the database runs.

### Fairness

- `ServerPipeline`: weak fairness of each worker, of the database thread and of the response
  handler: each is a loop that only sleeps for milliseconds when it finds nothing to do and never
  waits for a lock that is held for long. None of clients, of `accept`, or between the actions inside a loop.
- `ServerLife`: weak fairness of each thread that has something to do. None of clients and of console events, so a server may run for ever.
- `Framing`: a send under way goes on (`SendStep`), and the receiver, which is in a loop, reads on (`RecvStep`). Sends may begin or not; ends may fail or close at any time. None of `OtherCalls`.
- `GameClient`: the server works on (`Handle`, `Receive`), a command that was chosen ends (`Proceed`), and, of the user, that a process is started again and that, as long as
  nobody is logged in, a login is tried time and again (strong fairness of `TryLogIn`: the client is at its menu only between commands). `LetIn` is about such users only. None of `NoticeEnd`: an end may stay hidden for ever, and `LetIn` does not need it.

## 4. What is proved

For every value of the constants, with TLAPS; the assumptions are the named ASSUMEs of the modules, which TLC evaluates in every run.

### Accounts, sessions and servers (`DatabaseThreadProofs`)

| theorem | states |
|---|---|
| `TypeCorrect` | `Spec => []TypeOK` |
| `SessionsAreBound` | `Spec => []SessionBound` |
| `SessionsAreNotTakenOver` | `Spec => NoSessionTakeover` |
| `ServersAreBound` | `Spec => []ServerBound` |
| `ActivationsAreOwners` | `Spec => ActivationBindsSocket` |
| `CreationIsSafe` | `Spec => CreationKeepsNamesUnique` |
| `SuccessIsTruthful` | `Spec => TruthfulSuccess` |
| `SessionsImplementLifecycle` | `Spec => ImplementsLifecycle` |

They hold for all sets of sockets, users, servers and
names, for any set of task kinds and any outcomes of statements.

The argument. `UserStep`, `SessionStep`, `ServerStep` and `ReplyStep` go through the
handlers once and state all that one task can do to each table: add one user; end
one session, end all sessions of a socket, or open one for a user who has none; deactivate
servers, insert one for an existing account, or reactivate one for its owner. The `...Next` lemmas add the
steps of the process's life. Everything else follows from these without looking at a handler.
`TypeOK` and `SessionBound` together are inductive; `ServerBound` needs `TypeOK` and that accounts are never
removed or renamed (`UsersGrow`), so an owner that existed at the insert still exists. For the refinement each case of
`SessionNext` is one action of `SessionLifecycle` under the mapping `location`. That a
session ends before another socket gets it rests on the guard of `LoginAccepted`. For `SuccessIsTruthful`, `RefusalShape` and
`AnswerShape` say which responses a refusal and an answer can be; then there is one lemma for each kind of request that can succeed.

### Gold and items (`EconomyProofs`)

| theorem | states |
|---|---|
| `LedgerTypes` | `Spec => []TypeOK` |
| `SalesAreAtomic` | `Spec => SaleAtomic`, if `fresh` is not among the outcomes |
| `TradeKeepsWorth` | `Spec => ShopKeepsWorth`, if `fresh` is not among the outcomes |

They rest on `EconomyAssumption` (prices and the starting gold fit their columns). `TypeOK` is inductive as it stands. `PurchaseStep`, `SaleStep`,
`ModificationStep` and `OtherStep` say what each request does to the tables and what it answers; `TradedBy` follows: only a sale can
answer a sale. The arithmetic is in `Prices`: a product cut to a word is a natural, at most the product, and equal to it when it fits,
so what a sale pays never exceeds the shop's price for the same items.

### The threads together (`ServerPipelineProofs`)

| theorem | states |
|---|---|
| `ServerTypes` | `ServerSpec => []ServerTypeOK` |
| `ClientsAreRemovedOnce` | `ServerSpec => []RemovedOnce` |
| `NothingFollowsAReport` | `ServerSpec => []NothingAfterDisconnect` |
| `CleanupIsToCome` | `ServerSpec => []CleanupCoversUndisturbed`, if `error` is not among the outcomes |
| `DisconnectsHitTheirOwn` | `ServerSpec => DisconnectHitsOwnSessions`, if `error` is not among the outcomes |

| `ServerTablesAreBound` | `ServerSpec => [](SessionBound /\ ServerBound)` |
| `ServerStepsAreBound` | `ServerSpec => NoSessionTakeover /\ ActivationBindsSocket /\ CreationKeepsNamesUnique` |
| `ServerIsTruthful` | `ServerSpec => TruthfulSuccess` |
| `ServerImplementsLifecycle` | `ServerSpec => ImplementsLifecycle` |

`CleanupIsToCome` and `DisconnectsHitTheirOwn` exclude `error` because a clean-up whose UPDATE fails leaves its sessions, and nobody tries again.

The last four carry what is proved of `DatabaseThread` over to the server it is part of: every step of `ServerNext` is a step of `Next` or leaves the thread's variables alone
(`TablesNext`), and `ServerInit` starts from tables `DatabaseThread` may start from, with the thread already running. So what its step lemmas say holds under every interleaving with the other threads.

The argument, from the bottom up:

- `PipeTypes` gives each variable its type, and says what a thread holds at each place of its loop (`Holding`), that what connections and lists say
  of each other agrees (`Consistent`), and that a connection under removal is so by one thread (`OneRemover`).
- `Reported`: a connection has at most one report in RecvPakets, and from there on it is off every list. A connection that is off its list never comes back.
  With `OneRemover` this is `RemovedOnce`. Nothing is assumed about sends and errors.
- While nothing disturbs the workers (`Undisturbed`): two listed connections have different handles (`UniqueHandles`); the handles a worker has copied are those
  of its own clients still (`FreshCopies`), so a request it holds is one of them (`OwnRequests`), and therefore the report of a connection is the last thing of it (`ReportIsLast`), which is `NothingFollowsAReport`.
- Entries of inboxes, queues and threads carry the handle their connection has or had (`HandlesHeld`, `InboxSockets`, `ItemSockets`). `Covered` says of a handle that a
  report is to come (`Coming`), and that the first report of it in the queue is that of the opener (`OwnFirst`). It holds for each queue entry, each session, through its `opener`,
  and each active server. When the database thread takes a report, what it ends is therefore the reporter's own.

### The life of the server (`ServerLifeProofs`)

| theorem | states |
|---|---|
| `TypeCorrect` | `Spec => []TypeOK` |
| `NoThreadOutlivesServer` | `Spec => []ThreadsGone` |
| `PointersAreGood` | `Spec => []PointerGood` |
| `OneThreadOnConnection` | `Spec => []OneOnConnection` |
| `LeftOnlineOnlyLate` | `Spec => []LeftOnline` |

For any number of workers and console events. `Shape` has the types, where each call of `Stop` returns to, that there is no cleaner before `Run`, and who has the mutex. `Waited` adds, for each place in the destructor, the
threads already joined. A worker is told to end only by `Stop` or the destructor, and is erased only after that (`WorkersKept`). The database thread does not
run while main uses its connection to start (`DatabaseUnstarted`). `Swept` follows the last `DisconnectAllUsers`: after it somebody online means `late` or `unswept`.

### Packets on the stream (`FramingProofs`)

| theorem | states |
|---|---|
| `DeliveredInStep` | `Spec => []InStep` |

For any number and sizes of packets, any retries and any parts in which the stream moves its units. `Types` is inductive. `InStep` alone is not: it says nothing of what is on the wire.
The invariant `Ordered` gives each unit on the wire a position (functions `f`, `g`: which of the packets accepted, and which unit of it) such that positions follow each other without a gap (`Numbered`), the first is what the receiver asks for next
(`FromReceiver`) and the one after the last is what the sender sends next (`ToSender`). The lemmas `Taking`, `Putting` and `Accepting` say how positions move when units are received, sent, or a packet is begun; `FirstUnits` that
the next units are of one packet. There is one lemma for each of the four actions that move units and one for all others.

### The queue (`LockFreeQueueProofs`)

| theorem | states |
|---|---|
| `TypeCorrect` | `Spec => []TypeOK` |
| `OneProducerIsSafe` | `Spec => []SafeWithOneProducer` |
| `DeletedOnce` | `Spec => []OnlyLastDeletedTwice` |
| `DestructorFreesAll` | `Spec => []NothingLeaks` |
| `QueueIsFifo` | `Spec => ImplementsFifo` |

For any number of producers, items and nodes, whether addresses are used again or not, with spurious failures or none. For several producers `DestructorFreesAll`, `QueueIsFifo` and
the tail's part of `TypeCorrect` are conditional in their statements: they hold until a producer accesses a deleted node or `new` returns an address that a producer holds (`Intact`). For one producer on
x86 the invariant `QueueInv` says that this never happens (`SoleProducer => Intact`), so they are unconditional for SendPackets. `OneProducerIsSafe`, `DeletedOnce` and the head's part of `TypeCorrect` need no condition.

None of the properties says how the nodes hang together, so none is inductive. `QueueInvariant` proves two invariants.

`QInv` is about the intact queue. It numbers the nodes in the order in which they are linked: node `i` is `f[i]`, its item is
`v[i]`, and `r` is the inverse; `lo`, `hi` and `t` are the numbers of the node `head` points to, of the last node, and of `tail`. It says that there are such numbers, and with them
where everything is: the nodes from `lo` to `hi` are allocated and linked in order (`Held`), a producer's new node is outside of them (`Unlinked`), the node it has read as
tail is not behind the real one, and was not made anew since (`Following`), and with one producer, without spurious failures, it is never a deleted one (`Alone`); what the consumer has read lies at `lo` or one further (`Consuming`); what has
been deleted is what lies before `lo` (`Counted`). With two producers a late one may still hold a node before `lo`, which is what the run `freed` shows. `QueueNext` proves that a step that leaves the queue intact
keeps `QInv`, one lemma for each action; `ConsumerIntact` and `SoleIntact` that steps of the consumer, of the destructor and of a sole producer do.

`Owned` is what remains when a delayed compare-and-swap has torn the list, and needs no order: a node that is not linked is its producer's alone (`OwnNode`); no pointer leads to a deleted node or back
to the front, and no two lead to the same node (`Chained`); an item is on one node, and once deleted on none but the front (`Once`); what the consumer has read is still so (`Reading`). A link keeps it wherever the new node
is linked to, since nothing else pointed to that node. Therefore the consumer never meets a deleted node, whatever the producers did, and deletes no object twice.

`ImplementsFifo` maps the state to a sequence with `After`, a function that recurses along `next`. The induction theorems of the library need an operator as a parameter; the module
has its own for sets of naturals, from the fact that the proper subsets of a finite set are well-founded. With it `ContentsNumbered` says that the
sequence is `v` from `lo + 1` to `hi`; after that a link appends one, a move of `head` drops one, and everything else is a stutter.

### The client list (`ClientListProofs`)

| theorem | states |
|---|---|
| `TypeCorrect` | `Spec => []TypeOK` |
| `ListIsAlive` | `Spec => []ListSound` |
| `MisusedOnlyInOverlap` | `Spec => []SafeAlone` |
| `CountIsExact` | `Spec => []CountTracks` |

For any number of clients and any limit of them. `Strolls` and the `...Forms` lemmas say once what each action does to the thread that takes it; the invariants are proved from them.

Two invariants hold whatever overlaps. `Pointers` has the types, and says that nobody knows a node that is not on the list yet. `Counts` bounds `_client_count`: it is not above the clients that were ever put on the
list, and not below zero by more than the nodes deleted, so with `Pointers` it gives `TypeOK`.

`ListSound` is not inductive: it says nothing of the pointers a removal holds. `Sound` says that some set of live nodes contains what `head` points to, is closed under `next`, and in it no two nodes have the same successor. That
is enough for a removal beside additions, and needs no order of the nodes: the unlinked node had one predecessor, which now leads past it, so the set without it is closed again. `Within` shows that a walk cannot leave such a set.

For the other two, `Tracked` says that while additions and removals exclude each other the list is a chain `f[1]` to `f[m]` without repetition, and where the tail, the counter and the locals of the one operation under way stand,
place by place of `AddClient` (`AddsTo`) and of `RemoveSocketFromList` (`RemovesFrom`); which nodes are alive (`Live`): the chain, the one to be put on it and the one taken from it; and that a walk that overlapped no removal is on the chain
(`Walks`). `TrackedAccept`, `TrackedMove` and `TrackedStroll` go through the actions; a link makes the chain longer at its end (`Longer`), an unlink leaves one node out (`Shorter`). `ChainIsSeen` then proves by induction that
what is seen from `head` is the chain, and `ChainSize` counts it.

### The test client (`GameClientProofs`)

| theorem | states |
|---|---|
| `ClientTypes` | `ClientSpec => []ClientTypeOK` |
| `AnswersAreOwn` | `ClientSpec => []OwnAnswer` |
| `SessionsEndByName` | `ClientSpec => SessionEndsByName` |
| `TablesStayBound` | `ClientSpec => [](SessionBound /\ ServerBound)` |
| `ClientsAreToldTheTruth` | `ClientSpec => TruthfulSuccess /\ NoSessionTakeover` |
| `SessionsFollowLifecycle` | `ClientSpec => ImplementsLifecycle` |
| `ShownAccountIsOwn` | `ClientSpec => ShowsOwnAccount` |

For any number of processes, handles, mishaps and waiting tasks; `ClientAssumption` asks that logins and disconnections are among the kinds of tasks.

Each step has one of nine forms (`Forms`), which say what it does to the network: a client gives up its connection, connects, sends, or reads; the server receives a packet, answers a task, drops one
without an answer, or removes a connection; or nothing. The invariants are proved for the forms. `Owned` says whose the packets, tasks and responses are that carry a handle: those of the connection that has it, or had it before.
`OwnAnswer` says that what is under way to a client is at most its command, and is not inductive: it would allow the command twice, and the second answer would outlive the first. `InFlight` counts: a connection in use carries nothing, or, while
its client waits, one single thing, which is its command on its way up, in the queue, or as a response on its way down. The sequence lemmas about one thing in a sequence (`CountAppend`, `CountTail`) serve it. `SessionsEndByName` then
follows from what `DatabaseThreadProofs` says of sessions (`SessionByKind`, `LoginAnswer`): a task ends a session only by its user, its socket, or everybody's.

A step of `ClientNext` handles a task as `DatabaseThread` does, or leaves the tables alone and answers nothing (`ThreadSteps`): `TablesStayBound`, `ClientsAreToldTheTruth` and `SessionsFollowLifecycle` rest on it.

`ShowsOwnAccount` (stated in `GameClientProofs`; it needs two accounts to say anything, and the run `client` has one) goes from one end to the other: when `_current_user_id` becomes that of an account, the client's last request was a login
with that account's name, unless the response was meant for a former holder of the handle. It combines three results. `OwnAnswer`: the response answers the last request. `TruthfulSuccess`: the response named the right account when it was put on
the queue. And accounts are never renamed (`NamesGrow`), so it still does when it is read (`NamesKept`). `AwaitConnected` closes a gap: `OwnAnswer` speaks of connections the client takes to be open, and a client waits only over such a one.

### What is left to TLC

Liveness under fairness (`HangUpEndsSession`, `RequestsAnswered`, `StopEnds`, `Arrives`, `EndNoticed`, `LetIn`), which is beyond the prover. Every other property of a passing run is stated by a theorem.

## 5. What is not modelled

- Chat, monsters, shop lists, and the columns of player data other than gold: they are read, or one row is written, and nothing else depends on them.
- A packet that does not parse at `DatabaseThread.cpp:890`, where the request is read before it is checked.
- What undefined behaviour does: a use of a deleted node, queue or worker is noted or ends the behaviour; so are two threads on one MYSQL handle. In particular a `Stop` on another thread while the database thread is inside a handler, between its UPDATE (443) and its response (446) say, is not
  interleaved with it in `DatabaseThread`, where it comes before or after the task; `ServerLife` has the overlap, without the tables.
- The damage a `ClientList` can take is not carried over to `ServerPipeline`, whose lists are sets: its properties, `HangUpEndsSession` and `RequestsAnswered` in particular, are
  about a server whose list operations do not overlap. The same goes for a queue that is not intact: `ServerPipeline` has FIFO queues. A stream that slipped is not carried over either.
- The reconnection code (`ReconnectIfNeeded`): `IsConnected` (`MySqlConnector.h:28`) is true for ever after `Init`, so it never runs.
- Contents of packets (`Packet.h` and `ServerPacketManager.cpp` build and parse them field by field), SQL text, logging.
- `ClientMain.cpp` 688-1230, which is commented out, and request builders of `ClientPacketManager` that no command uses.
- FlatBuffers, its generated header and the MySQL connector library: about nine tenths of the repository's lines. They are third-party
  or generated, their state is not the program's, and what it relies on in them is modelled where it is used. Of the program's own files most lines are mapped
  (`WorkerThread.cpp` 379 of 402, `Server.cpp` 291 of 328, `LockFreeQueue.h` 98 of 120, `DatabaseThread.cpp` 1122 of 1507); measured against the whole repository the share is small.

## 6. Plan

Done: accounts, economy, the server's threads, its life, the queue, the client list, framing and the test client, each checked and each proved about.

Left: a composition of `ClientList` with `ServerPipeline`, to see which of its properties survive a list that was damaged.
