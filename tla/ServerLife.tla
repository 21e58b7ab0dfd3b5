----------------------------- MODULE ServerLife -----------------------------
(***************************************************************************)
(* The life of the Server object: Initialize and Run by the main thread,   *)
(* Stop by a console event on a thread of its own, Destroy from atexit,    *)
(* and the threads the server starts: response handler, database thread,   *)
(* cleaner and workers.                                                    *)
(*                                                                         *)
(* What the threads do for clients is in ServerPipeline and                *)
(* DatabaseThread; here only what of the server each of them touches: the  *)
(* two queues, a worker, the database connection, and whether some user is *)
(* online.  A section under _worker_threads_mutex is one step unless it    *)
(* waits for a thread.                                                     *)
(***************************************************************************)
EXTENDS Naturals, FiniteSets

CONSTANTS
    Workers,        \* WorkerThread objects that may be made
    Consoles,       \* console events, each a thread that calls Stop
    NoWorker

ASSUME LifeAssumption == NoWorker \notin Workers

VARIABLES
    main,           \* main: pc, and where the call of Stop it is in returns to
    console,        \* where each console thread is
    running,        \* Server::_is_running
    listening,      \* the listening socket is open
    handler,        \* response handler: pc, and the worker whose pointer it holds
    cleaner,        \* Thread_ClearDeadWorkerLoop
    db,             \* the DatabaseThread and its thread
    dbRunning,      \* DatabaseThread::_is_running
    worker,         \* per worker: absent, listed or erased; _do_thread; its loop has ended
    mutex,          \* who waits for a thread while it holds _worker_threads_mutex
    queues,         \* RecvPakets and SendPackets exist
    server,         \* the Server exists
    online,         \* some session is online in user_sessions
    late,           \* the last DisconnectAllUsers ended while the database thread was at a task
    unswept         \* the statement of the last DisconnectAllUsers failed

flags == <<running, dbRunning>>
threads == <<handler, cleaner, db>>
objects == <<listening, worker, mutex, queues, server>>
sweep == <<late, unswept>>
vars == <<main, console, flags, threads, objects, online, sweep>>

Goto(pc) == main' = [main EXCEPT !.pc = pc]

-----------------------------------------------------------------------------
(* Initialize, by main.  What fails throws, and main leaves for exit.      *)

\* socket, bind and listen; then the DatabaseThread is made
Listen ==
    /\ main.pc = "start"
    /\ \/ listening' = TRUE /\ db' = "made" /\ Goto("sessions")
       \/ Goto("exit") /\ UNCHANGED <<listening, db>>
    /\ UNCHANGED <<console, flags, handler, cleaner, worker, mutex, queues, server,
                   online, sweep>>

\* Mutant: the database thread is started before InitializeUserSessions.
SpawnFirst ==
    /\ main.pc = "sessions"
    /\ \/ db = "made" /\ db' = "loop" /\ dbRunning' = TRUE /\ UNCHANGED <<main, online>>
       \/ db # "made" /\ online' = FALSE /\ Goto("handler") /\ UNCHANGED <<db, dbRunning>>
    /\ UNCHANGED <<console, running, handler, cleaner, objects, sweep>>

\* ConnectDB up to the end of InitializeUserSessions
InitializeUserSessions ==
    /\ main.pc = "sessions"
    /\ \/ online' = FALSE /\ Goto("spawn") /\ UNCHANGED listening
       \/ listening' = FALSE /\ Goto("exit") /\ UNCHANGED online
    /\ UNCHANGED <<console, flags, threads, worker, mutex, queues, server, sweep>>

\* the rest of ConnectDB
SpawnDatabase ==
    /\ main.pc = "spawn"
    /\ db' = "loop" /\ dbRunning' = TRUE
    /\ Goto("handler")
    /\ UNCHANGED <<console, running, handler, cleaner, objects, online, sweep>>

SpawnHandler ==
    /\ main.pc = "handler"
    /\ handler' = [handler EXCEPT !.pc = "loop"]
    /\ Goto("started")
    /\ UNCHANGED <<console, flags, cleaner, db, objects, online, sweep>>

SetRunning ==
    /\ main.pc = "started"
    /\ running' = TRUE
    /\ Goto("run")
    /\ UNCHANGED <<console, dbRunning, threads, objects, online, sweep>>

-----------------------------------------------------------------------------
(* Run, by main.                                                           *)

SpawnCleaner ==
    /\ main.pc = "run"
    /\ IF running THEN cleaner' = "loop" /\ Goto("loop")
                  ELSE UNCHANGED cleaner /\ Goto("exit")
    /\ UNCHANGED <<console, flags, handler, db, objects, online, sweep>>

RunLoop ==
    /\ main.pc = "loop"
    /\ Goto(IF running THEN "accept" ELSE "exit")
    /\ UNCHANGED <<console, flags, threads, objects, online, sweep>>

\* a client; or none, or an error, and the loop sleeps
AcceptClient ==
    /\ main.pc = "accept"
    /\ \/ listening /\ Goto("add")
       \/ Goto("loop")
    /\ UNCHANGED <<console, flags, threads, objects, online, sweep>>

\* FindCanUseWorkerThread; a worker may be full, and the model has only so many
AddClient ==
    /\ main.pc = "add" /\ mutex = "none"
    /\ \/ \E w \in Workers : /\ worker[w].life = "absent"
                             /\ worker' = [worker EXCEPT ![w] = [life |-> "listed",
                                              do_thread |-> TRUE, ended |-> FALSE]]
       \/ /\ \/ \E w \in Workers : worker[w].life = "listed" /\ worker[w].do_thread
             \/ \A w \in Workers : worker[w].life # "absent"
          /\ UNCHANGED worker
    /\ Goto("loop")
    /\ UNCHANGED <<console, flags, threads, listening, mutex, queues, server, online, sweep>>

-----------------------------------------------------------------------------
(* Stop.  pc is where the caller is, then where it is next.  A thread is   *)
(* in DisconnectAllUsers, on the database connection, from the step        *)
(* before StopDisconnect to it.                                            *)

\* without a DatabaseThread nothing, nor if the connection is gone or the UPDATE fails
DisconnectAllUsers(fails) == online' = (online /\ (fails \/ db = "none"))

\* Mutant: the flag is left, as if Stop only cleaned up.
StopKeepsFlag(pc, then) ==
    /\ pc = "clear"
    /\ then = IF db = "none" THEN "close" ELSE "disconnect"
    /\ UNCHANGED <<flags, listening, worker, online>>

StopClear(pc, then) ==
    /\ pc = "clear"
    /\ running' = FALSE
    /\ then = IF db = "none" THEN "close" ELSE "disconnect"
    /\ UNCHANGED <<dbRunning, listening, worker, online>>

StopDisconnect(pc, then) ==
    /\ pc = "disconnect"
    /\ \E fails \in BOOLEAN : DisconnectAllUsers(fails)
    /\ then = "close"
    /\ UNCHANGED <<flags, listening, worker>>

StopClose(pc, then) ==
    /\ pc = "close"
    /\ listening' = FALSE
    /\ then = "halt"
    /\ UNCHANGED <<flags, worker, online>>

StopWorkers(pc, then) ==
    /\ pc = "halt" /\ mutex = "none"
    /\ worker' = [w \in Workers |-> IF worker[w].life = "listed"
                                    THEN [worker[w] EXCEPT !.do_thread = FALSE] ELSE worker[w]]
    /\ then = "return"
    /\ UNCHANGED <<flags, listening, online>>

Stop(pc, then) == \/ StopClear(pc, then) \/ StopDisconnect(pc, then)
                  \/ StopClose(pc, then) \/ StopWorkers(pc, then)

StopPcs == {"clear", "disconnect", "close", "halt"}

-----------------------------------------------------------------------------
(* ConsoleHandler: Instance, then Stop.  Destroy holds instance_mutex from *)
(* reset to its end, and an Instance made after that has nothing to stop.  *)

InReset == main.back = "again" /\ server

ConsoleEvent(p) ==
    /\ console[p] = "idle"
    /\ ~InReset
    /\ console' = [console EXCEPT ![p] = IF server THEN "clear" ELSE "return"]
    /\ UNCHANGED <<main, flags, threads, objects, online, sweep>>

ConsoleStop(p) ==
    /\ console[p] \in StopPcs
    /\ \E then \in StopPcs \cup {"return"} :
          Stop(console[p], then) /\ console' = [console EXCEPT ![p] = then]
    /\ UNCHANGED <<main, threads, mutex, queues, server, sweep>>

-----------------------------------------------------------------------------
(* exit, by main: Cleanup, Destroy (Stop, then reset), ~Server (Stop once  *)
(* more, then joins), and the members in reverse order.                    *)

Exit ==
    /\ main.pc = "exit"
    /\ main' = [pc |-> "clear", back |-> "reset"]
    /\ UNCHANGED <<console, flags, threads, objects, online, sweep>>

MainStop ==
    /\ main.pc \in StopPcs
    /\ \E then \in StopPcs \cup {"return"} :
          Stop(main.pc, then) /\ Goto(IF then = "return" THEN main.back ELSE then)
    /\ UNCHANGED <<console, threads, mutex, queues, server, sweep>>

Reset ==
    /\ main.pc = "reset"
    /\ main' = [pc |-> "clear", back |-> "again"]
    /\ UNCHANGED <<console, flags, threads, objects, online, sweep>>

\* DisconnectAllUsers of ~Server
DisconnectAgain ==
    /\ main.pc = "again"
    /\ \E fails \in BOOLEAN : DisconnectAllUsers(fails)
    /\ Goto("join handler")
    /\ UNCHANGED <<console, flags, threads, objects, sweep>>

JoinHandler ==
    /\ main.pc = "join handler"
    /\ handler.pc \in {"absent", "done"}
    /\ Goto(IF db = "none" THEN "join cleaner" ELSE "stop db")
    /\ UNCHANGED <<console, flags, threads, objects, online, sweep>>

\* DatabaseThread::Stop
StopDatabase ==
    /\ main.pc = "stop db"
    /\ \E fails \in BOOLEAN : DisconnectAllUsers(fails)
    /\ dbRunning' = FALSE
    /\ Goto("join cleaner")
    /\ UNCHANGED <<console, running, threads, objects, sweep>>

\* Mutant: the cleaner is not waited for.
LeaveCleaner ==
    /\ main.pc = "join cleaner" /\ mutex = "none"
    /\ mutex' = "main"
    /\ Goto("workers")
    /\ UNCHANGED <<console, flags, threads, listening, worker, queues, server, online, sweep>>

JoinCleaner ==
    /\ main.pc = "join cleaner" /\ mutex = "none"
    /\ cleaner \in {"absent", "done"}
    /\ mutex' = "main"
    /\ Goto("workers")
    /\ UNCHANGED <<console, flags, threads, listening, worker, queues, server, online, sweep>>

\* ~WorkerThread under the mutex: StopThread, then join
Halt(w) ==
    /\ worker[w].life = "listed" /\ worker[w].do_thread
    /\ worker' = [worker EXCEPT ![w].do_thread = FALSE]
Erase(w) ==
    /\ worker[w].life = "listed" /\ worker[w].ended
    /\ worker' = [worker EXCEPT ![w].life = "erased"]

ClearWorkers ==
    /\ main.pc = "workers"
    /\ \E w \in Workers : Halt(w) \/ Erase(w)
    /\ UNCHANGED <<main, console, flags, threads, listening, mutex, queues, server, online,
                   sweep>>

\* the queues are members declared after the DatabaseThread: they go first
DestroyQueues ==
    /\ main.pc = "workers"
    /\ \A w \in Workers : worker[w].life # "listed"
    /\ mutex' = "none" /\ queues' = FALSE /\ listening' = FALSE
    /\ Goto(IF db = "none" THEN "delete" ELSE "stop db again")
    /\ UNCHANGED <<console, flags, threads, worker, server, online, sweep>>

\* Mutant: ~DatabaseThread only lowers the flag.
StopDatabaseQuietly ==
    /\ main.pc = "stop db again"
    /\ dbRunning' = FALSE
    /\ late' = (db \in {"poll", "sql"})
    /\ Goto("join db")
    /\ UNCHANGED <<console, running, threads, objects, online, unswept>>

\* Stop in ~DatabaseThread
StopDatabaseAgain ==
    /\ main.pc = "stop db again"
    /\ \E fails \in BOOLEAN : DisconnectAllUsers(fails) /\ unswept' = fails
    /\ dbRunning' = FALSE
    /\ late' = (db \in {"poll", "sql"})
    /\ Goto("join db")
    /\ UNCHANGED <<console, running, threads, objects>>

JoinDatabase ==
    /\ main.pc = "join db"
    /\ db \in {"made", "done"}
    /\ Goto("delete")
    /\ UNCHANGED <<console, flags, threads, objects, online, sweep>>

Delete ==
    /\ main.pc = "delete"
    /\ server' = FALSE
    /\ Goto("done")
    /\ UNCHANGED <<console, flags, threads, listening, worker, mutex, queues, online, sweep>>

Destroy == \/ MainStop \/ Reset \/ DisconnectAgain \/ JoinHandler \/ StopDatabase
           \/ JoinCleaner \/ ClearWorkers \/ DestroyQueues \/ StopDatabaseAgain
           \/ JoinDatabase \/ Delete

-----------------------------------------------------------------------------
(* The threads the server starts.                                          *)

HandlerGoto(pc) == handler' = [handler EXCEPT !.pc = pc]

HandlerLoop ==
    /\ handler.pc = "loop"
    /\ HandlerGoto(IF running THEN "poll" ELSE "done")
    /\ UNCHANGED <<main, console, flags, cleaner, db, objects, online, sweep>>

\* no response, or one whose client FindWorkerThreadBySocket finds with a worker or not
HandlerFind ==
    /\ handler.pc = "poll"
    /\ \/ HandlerGoto("loop")
       \/ /\ mutex = "none"
          /\ \E w \in Workers : /\ worker[w].life = "listed"
                                /\ handler' = [pc |-> "send", worker |-> w]
    /\ UNCHANGED <<main, console, flags, cleaner, db, objects, online, sweep>>

\* SendToClient of the worker, through the pointer
HandlerSend ==
    /\ handler.pc = "send"
    /\ handler' = [pc |-> "loop", worker |-> NoWorker]
    /\ UNCHANGED <<main, console, flags, cleaner, db, objects, online, sweep>>

HandlerStep == HandlerLoop \/ HandlerFind \/ HandlerSend

CleanerLoop ==
    /\ cleaner = "loop"
    /\ cleaner' = IF running THEN "sleep" ELSE "done"
    /\ UNCHANGED <<main, console, flags, handler, db, objects, online, sweep>>

\* ClearDeadThreads
CleanerLock ==
    /\ cleaner = "sleep" /\ mutex = "none"
    /\ cleaner' = "erase" /\ mutex' = "cleaner"
    /\ UNCHANGED <<main, console, flags, handler, db, listening, worker, queues, server,
                   online, sweep>>

\* Mutant: any worker is taken for dead.
EraseAny ==
    /\ cleaner = "erase"
    /\ \E w \in Workers : Halt(w) \/ Erase(w)
    /\ UNCHANGED <<main, console, flags, threads, listening, mutex, queues, server, online,
                   sweep>>

CleanerErase ==
    /\ cleaner = "erase"
    /\ \E w \in Workers : ~worker[w].do_thread /\ Erase(w)
    /\ UNCHANGED <<main, console, flags, threads, listening, mutex, queues, server, online,
                   sweep>>

\* Mutant: the mutex is kept.
CleanerKeepsLock ==
    /\ cleaner = "erase"
    /\ \A w \in Workers : worker[w].life = "listed" => worker[w].do_thread
    /\ cleaner' = "loop"
    /\ UNCHANGED <<main, console, flags, handler, db, objects, online, sweep>>

CleanerUnlock ==
    /\ cleaner = "erase"
    /\ \A w \in Workers : worker[w].life = "listed" => worker[w].do_thread
    /\ cleaner' = "loop" /\ mutex' = "none"
    /\ UNCHANGED <<main, console, flags, handler, db, listening, worker, queues, server,
                   online, sweep>>

CleanerStep == CleanerLoop \/ CleanerLock \/ CleanerErase \/ CleanerUnlock

WorkerEnds(w) ==
    /\ worker[w].life = "listed" /\ ~worker[w].do_thread /\ ~worker[w].ended
    /\ worker' = [worker EXCEPT ![w].ended = TRUE]
    /\ UNCHANGED <<main, console, flags, threads, listening, mutex, queues, server, online,
                   sweep>>

DatabaseLoop ==
    /\ db = "loop"
    /\ db' = IF dbRunning THEN "poll" ELSE "done"
    /\ UNCHANGED <<main, console, flags, handler, cleaner, objects, online, sweep>>

\* no task, or one
DatabasePoll ==
    /\ db = "poll"
    /\ db' \in {"loop", "sql"}
    /\ UNCHANGED <<main, console, flags, handler, cleaner, objects, online, sweep>>

\* a login, a logout or anything else
DatabaseTask ==
    /\ db = "sql"
    /\ online' \in BOOLEAN
    /\ db' = "reply"
    /\ UNCHANGED <<main, console, flags, handler, cleaner, objects, sweep>>

\* SendQueue->enqueue
DatabaseReply ==
    /\ db = "reply"
    /\ db' = "loop"
    /\ UNCHANGED <<main, console, flags, handler, cleaner, objects, online, sweep>>

DatabaseStep == DatabaseLoop \/ DatabasePoll \/ DatabaseTask \/ DatabaseReply

-----------------------------------------------------------------------------
\* sessions of an earlier run may be online still
Init ==
    /\ main = [pc |-> "start", back |-> "none"]
    /\ console = [p \in Consoles |-> "idle"]
    /\ running = FALSE /\ dbRunning = FALSE
    /\ listening = FALSE
    /\ handler = [pc |-> "absent", worker |-> NoWorker]
    /\ cleaner = "absent" /\ db = "none"
    /\ worker = [w \in Workers |-> [life |-> "absent", do_thread |-> FALSE, ended |-> FALSE]]
    /\ mutex = "none"
    /\ queues = TRUE /\ server = TRUE
    /\ online \in BOOLEAN
    /\ late = FALSE /\ unswept = FALSE

Initialize == \/ Listen \/ InitializeUserSessions \/ SpawnDatabase \/ SpawnHandler
              \/ SetRunning
Run == SpawnCleaner \/ RunLoop \/ AcceptClient \/ AddClient
MainStep == Initialize \/ Run \/ Exit \/ Destroy

Next == \/ MainStep
        \/ \E p \in Consoles : ConsoleEvent(p) \/ ConsoleStop(p)
        \/ HandlerStep \/ CleanerStep \/ DatabaseStep
        \/ \E w \in Workers : WorkerEnds(w)

\* Every thread that can run does; clients and console events come as they like.
Fairness == /\ WF_vars(MainStep)
            /\ WF_vars(HandlerStep) /\ WF_vars(CleanerStep) /\ WF_vars(DatabaseStep)
            /\ \A w \in Workers : WF_vars(WorkerEnds(w))
            /\ \A p \in Consoles : WF_vars(ConsoleStop(p))

Spec == Init /\ [][Next]_vars /\ Fairness

-----------------------------------------------------------------------------
MainPcs == {"start", "sessions", "spawn", "handler", "started", "run", "loop", "accept", "add",
            "exit", "reset", "again", "join handler", "stop db", "join cleaner", "workers",
            "stop db again", "join db", "delete", "done"} \cup StopPcs

TypeOK ==
    /\ main \in [pc : MainPcs, back : {"none", "reset", "again"}]
    /\ console \in [Consoles -> {"idle", "return"} \cup StopPcs]
    /\ running \in BOOLEAN /\ dbRunning \in BOOLEAN /\ listening \in BOOLEAN
    /\ handler \in [pc : {"absent", "loop", "poll", "send", "done"},
                    worker : Workers \cup {NoWorker}]
    /\ cleaner \in {"absent", "loop", "sleep", "erase", "done"}
    /\ db \in {"none", "made", "loop", "poll", "sql", "reply", "done"}
    /\ worker \in [Workers -> [life : {"absent", "listed", "erased"}, do_thread : BOOLEAN,
                               ended : BOOLEAN]]
    /\ mutex \in {"none", "main", "cleaner"}
    /\ mutex = "main" <=> main.pc = "workers"
    /\ mutex = "cleaner" <=> cleaner = "erase"
    /\ queues \in BOOLEAN /\ server \in BOOLEAN /\ online \in BOOLEAN
    /\ late \in BOOLEAN /\ unswept \in BOOLEAN

\* Stop has been called, by a console thread or on the way out.
Stopping == main.back # "none" \/ \E p \in Consoles : console[p] # "idle"

\* ~Server waits for every thread the server has started: none of them is left when the
\* Server is deleted (Server.cpp:27-55).
ThreadsGone ==
    ~server => /\ handler.pc \in {"absent", "done"} /\ cleaner \in {"absent", "done"}
               /\ db \in {"none", "made", "done"}
               /\ \A w \in Workers : worker[w].life # "listed"

\* The response handler keeps the pointer of a worker after it has released the mutex
\* (Server.cpp:303): only once the server is stopping may that worker be deleted.
PointerGood ==
    handler.pc = "send" /\ worker[handler.worker].life = "erased" => Stopping

\* who is on the database connection
OnConnection == {p \in Consoles : console[p] = "disconnect"}
                \cup {t \in {"main"} : main.pc \in {"sessions", "disconnect", "again", "stop db",
                                                    "stop db again"}}
                \cup {t \in {"database"} : db = "sql"}

\* Two threads are on the one database connection only once the server is stopping
\* (Server.cpp:326).
OneOnConnection == Cardinality(OnConnection) > 1 => Stopping

\* A user is left online by a server that has ended only because the statement that sets
\* everyone offline failed in the database thread's own destructor (DatabaseThread.cpp:221),
\* or through a task that was under way then (82).
LeftOnline == ~server /\ db = "done" /\ online => late \/ unswept

\* The database thread does not use the queues after they are destroyed.
QueuesOutliveDatabaseThread == db \in {"poll", "reply"} => queues

\* A server that runs and is stopped ends, and so does one that could not be initialized:
\* no join of ~Server waits for ever.
StopEnds ==
    /\ \A p \in Consoles : running /\ console[p] = "clear" ~> main.pc = "done"
    /\ main.pc = "exit" ~> main.pc = "done"
=============================================================================
