-------------------------- MODULE ServerLifeProofs --------------------------
(***************************************************************************)
(* Proofs about ServerLife, for any number of workers and console threads. *)
(* The inductive invariant says, for each place main can be at, which      *)
(* threads it has waited for; the properties of the runs follow from it.   *)
(***************************************************************************)
EXTENDS ServerLife, FiniteSetTheorems, TLAPS

WorkerState == [life : {"absent", "listed", "erased"}, do_thread : BOOLEAN, ended : BOOLEAN]

\* TypeOK, each variable by itself
MainType == main \in [pc : MainPcs, back : {"none", "reset", "again"}]
ConsoleType == console \in [Consoles -> {"idle", "return"} \cup StopPcs]
HandlerType == handler \in [pc : {"absent", "loop", "poll", "send", "done"},
                            worker : Workers \cup {NoWorker}]
WorkerType == worker \in [Workers -> WorkerState]
DatabaseType == db \in {"none", "made", "loop", "poll", "sql", "reply", "done"}
CleanerType == cleaner \in {"absent", "loop", "sleep", "erase", "done"}
FlagTypes == /\ running \in BOOLEAN /\ dbRunning \in BOOLEAN /\ listening \in BOOLEAN
             /\ queues \in BOOLEAN /\ server \in BOOLEAN /\ online \in BOOLEAN
             /\ late \in BOOLEAN /\ unswept \in BOOLEAN
MutexOwner == /\ mutex \in {"none", "main", "cleaner"}
              /\ mutex = "main" <=> main.pc = "workers"
              /\ mutex = "cleaner" <=> cleaner = "erase"

\* TypeOK is the conjunction of its parts.
LEMMA TypeParts ==
    TypeOK <=> /\ MainType /\ ConsoleType /\ HandlerType /\ WorkerType /\ DatabaseType
               /\ CleanerType /\ FlagTypes /\ MutexOwner
  BY DEF TypeOK, MainType, ConsoleType, HandlerType, WorkerType, DatabaseType, CleanerType,
         FlagTypes, MutexOwner, WorkerState

-----------------------------------------------------------------------------
(* Where main is and where its call of Stop returns to.                    *)

Early == {"start", "sessions", "spawn", "handler", "started", "run", "loop", "accept", "add",
          "exit"}

\* main has called Stop exactly if it is past exit; its first call returns to reset
Returns == /\ main.back = "none" <=> main.pc \in Early
           /\ main.back = "reset" => main.pc \in StopPcs \cup {"reset"}

Main == MainType /\ Returns

\* the places after the join of the handler, of the cleaner, of the workers
HandlerJoined == {"stop db", "join cleaner", "workers", "stop db again", "join db", "delete",
                  "done"}
CleanerJoined == HandlerJoined \ {"stop db", "join cleaner"}
WorkersJoined == CleanerJoined \ {"workers"}

\* What Goto does.
LEMMA Going ==
    ASSUME MainType, NEW pc \in MainPcs, Goto(pc)
    PROVE  MainType' /\ main'.pc = pc /\ main'.back = main.back
  BY DEF MainType, Goto

\* The steps before exit.
LEMMA EarlyStep ==
    ASSUME Main, Initialize \/ Run
    PROVE  /\ Main'
           /\ main.pc \in Early
           /\ main'.pc \in Early \ {"start"}
           /\ main.back = "none" /\ main'.back = "none"
  <1>1. ASSUME NEW pc \in Early, Goto(pc)
        PROVE  MainType' /\ main'.pc = pc /\ main'.back = main.back
    <2>1. pc \in MainPcs
      BY DEF Early, MainPcs
    <2> QED BY <1>1, <2>1, Going DEF Main
  <1>2. /\ MainType' /\ main.pc \in Early
        /\ main'.pc \in Early \ {"start"} /\ main'.back = main.back
    <2>1. CASE Initialize
      BY <1>1, <2>1 DEF Initialize, Listen, InitializeUserSessions, SpawnDatabase,
                        SpawnHandler, SetRunning, Early
    <2>2. CASE Run
      BY <1>1, <2>2 DEF Run, SpawnCleaner, RunLoop, AcceptClient, AddClient, Early
    <2> QED BY <2>1, <2>2
  <1> QED BY <1>2 DEF Main, Returns

\* The steps from exit to the join of the handler.
LEMMA StopStep ==
    ASSUME Main, Exit \/ MainStop \/ Reset \/ DisconnectAgain
    PROVE  /\ Main'
           /\ main'.pc \in StopPcs \cup {"reset", "again", "join handler"}
           /\ main'.back # "none"
           /\ main.pc \in StopPcs \cup {"exit", "reset", "again"}
  <1>1. CASE Exit
    <2>1. "clear" \in StopPcs /\ "clear" \in MainPcs /\ "clear" \notin Early
      BY DEF StopPcs, MainPcs, Early
    <2> QED BY <1>1, <2>1 DEF Exit, Main, MainType, Returns
  <1>2. CASE MainStop
    <2>1. PICK then \in StopPcs \cup {"return"} :
             Goto(IF then = "return" THEN main.back ELSE then)
      BY <1>2 DEF MainStop
    <2>2. main.pc \in StopPcs /\ main.pc \notin Early
      BY <1>2 DEF MainStop, StopPcs, Early
    <2>3. main.back \in {"reset", "again"}
      BY <2>2 DEF Main, MainType, Returns
    <2> DEFINE pc == IF then = "return" THEN main.back ELSE then
    <2>4. /\ pc \in MainPcs /\ pc \notin Early
          /\ pc \in StopPcs \cup {"reset", "again"}
          /\ pc = "again" => main.back = "again"
      BY <2>1, <2>3 DEF MainPcs, StopPcs, Early
    <2>5. MainType' /\ main'.pc = pc /\ main'.back = main.back
      BY <2>1, <2>4, Going DEF Main
    <2> QED BY <2>2, <2>3, <2>4, <2>5 DEF Main, Returns
  <1>3. CASE Reset
    <2>1. "clear" \in StopPcs /\ "clear" \in MainPcs /\ "clear" \notin Early
      BY DEF StopPcs, MainPcs, Early
    <2> QED BY <1>3, <2>1 DEF Reset, Main, MainType, Returns
  <1>4. CASE DisconnectAgain
    <2>1. "join handler" \in MainPcs
      BY DEF MainPcs
    <2>2. MainType' /\ main'.pc = "join handler" /\ main'.back = main.back /\ main.pc = "again"
      BY <1>4, <2>1, Going DEF DisconnectAgain, Main
    <2>3. main.back = "again"
      BY <2>2 DEF Main, MainType, Returns, StopPcs, Early
    <2> QED BY <2>2, <2>3 DEF Main, Returns, Early
  <1> QED BY <1>1, <1>2, <1>3, <1>4

\* The steps that wait for the threads: each leads to one place, or one of two.
LEMMA JoinStep ==
    ASSUME Main, JoinHandler \/ StopDatabase \/ JoinCleaner \/ DestroyQueues
                 \/ StopDatabaseAgain \/ JoinDatabase \/ Delete
    PROVE  /\ Main'
           /\ main.back # "none"
           /\ JoinHandler => main'.pc = IF db = "none" THEN "join cleaner" ELSE "stop db"
           /\ StopDatabase => main'.pc = "join cleaner"
           /\ JoinCleaner => main'.pc = "workers"
           /\ DestroyQueues => main'.pc = IF db = "none" THEN "delete" ELSE "stop db again"
           /\ StopDatabaseAgain => main'.pc = "join db"
           /\ JoinDatabase => main'.pc = "delete"
           /\ Delete => main'.pc = "done"
           /\ main.pc # main'.pc
  <1>1. main.back = "again"
    BY DEF JoinHandler, StopDatabase, JoinCleaner, DestroyQueues, StopDatabaseAgain, JoinDatabase,
           Delete, Main, MainType, Returns, StopPcs, Early
  <1>2. ASSUME NEW pc \in HandlerJoined, Goto(pc)
        PROVE  Main' /\ main'.pc = pc
    <2>1. pc \in MainPcs /\ pc \notin Early
      BY DEF HandlerJoined, MainPcs, Early
    <2>2. MainType' /\ main'.pc = pc /\ main'.back = main.back
      BY <1>2, <2>1, Going DEF Main
    <2> QED BY <1>1, <2>1, <2>2 DEF Main, Returns
  <1>3. CASE JoinHandler \/ StopDatabase \/ JoinCleaner
    BY <1>1, <1>2, <1>3 DEF JoinHandler, StopDatabase, JoinCleaner, DestroyQueues,
       StopDatabaseAgain, JoinDatabase, Delete, HandlerJoined
  <1>4. CASE DestroyQueues \/ StopDatabaseAgain \/ JoinDatabase \/ Delete
    BY <1>1, <1>2, <1>4 DEF JoinHandler, StopDatabase, JoinCleaner, DestroyQueues,
       StopDatabaseAgain, JoinDatabase, Delete, HandlerJoined
  <1> QED BY <1>3, <1>4

\* The steps of the others, and the clearing of the workers.
Others == \/ \E p \in Consoles : ConsoleEvent(p) \/ ConsoleStop(p)
          \/ HandlerStep \/ CleanerStep \/ DatabaseStep \/ ClearWorkers
          \/ \E w \in Workers : WorkerEnds(w)
          \/ UNCHANGED vars

\* None of them moves main.
LEMMA OthersStep == Others => main' = main
  BY DEF Others, ConsoleEvent, ConsoleStop, HandlerStep, HandlerLoop, HandlerFind, HandlerSend,
         CleanerStep, CleanerLoop, CleanerLock, CleanerErase, CleanerUnlock, DatabaseStep,
         DatabaseLoop, DatabasePoll, DatabaseTask, DatabaseReply, ClearWorkers, WorkerEnds, vars

\* Every step is of one of the four kinds.
LEMMA Kinds ==
    ASSUME [Next]_vars
    PROVE  \/ Initialize \/ Run
           \/ Exit \/ MainStop \/ Reset \/ DisconnectAgain
           \/ JoinHandler \/ StopDatabase \/ JoinCleaner \/ DestroyQueues
           \/ StopDatabaseAgain \/ JoinDatabase \/ Delete
           \/ Others
  BY DEF Next, MainStep, Destroy, Others

\* main starts before exit, with nothing to return to.
LEMMA MainInit == Init => Main
  BY DEF Init, Main, MainType, MainPcs, Returns, Early

\* Every step keeps main at a place that its return address allows.
LEMMA MainNext == Main /\ [Next]_vars => Main'
  <1> SUFFICES ASSUME Main, [Next]_vars PROVE Main'
    OBVIOUS
  <1>1. CASE Others
    <2>1. main' = main
      BY <1>1, OthersStep
    <2> QED BY <2>1 DEF Main, MainType, Returns
  <1> QED BY <1>1, Kinds, EarlyStep, StopStep, JoinStep

-----------------------------------------------------------------------------
(* The types of the others.                                                *)

\* Every step keeps the console threads at their places.
LEMMA ConsoleNext == ConsoleType /\ [Next]_vars => ConsoleType'
  <1> SUFFICES ASSUME ConsoleType, [Next]_vars PROVE ConsoleType'
    OBVIOUS
  <1>1. CASE \E p \in Consoles : ConsoleEvent(p)
    BY <1>1 DEF ConsoleEvent, ConsoleType, StopPcs
  <1>2. CASE \E p \in Consoles : ConsoleStop(p)
    BY <1>2 DEF ConsoleStop, ConsoleType
  <1>3. CASE MainStep
    BY <1>3 DEF MainStep, Initialize, Listen, InitializeUserSessions, SpawnDatabase, SpawnHandler,
       SetRunning, Run, SpawnCleaner, RunLoop, AcceptClient, AddClient, Exit, Destroy, MainStop,
       Reset, DisconnectAgain, JoinHandler, StopDatabase, JoinCleaner, ClearWorkers,
       DestroyQueues, StopDatabaseAgain, JoinDatabase, Delete, ConsoleType
  <1>4. CASE HandlerStep \/ CleanerStep
    BY <1>4 DEF HandlerStep, HandlerLoop, HandlerFind, HandlerSend, CleanerStep, CleanerLoop,
       CleanerLock, CleanerErase, CleanerUnlock, ConsoleType
  <1>5. CASE DatabaseStep \/ (\E w \in Workers : WorkerEnds(w)) \/ UNCHANGED vars
    BY <1>5 DEF DatabaseStep, DatabaseLoop, DatabasePoll, DatabaseTask, DatabaseReply, WorkerEnds,
       vars, ConsoleType
  <1> QED BY <1>1, <1>2, <1>3, <1>4, <1>5 DEF Next

\* main and the console threads in Stop write flags, a socket, the workers' flags and online.
LEMMA StopWrites ==
    ASSUME NEW pc, NEW then, Stop(pc, then), FlagTypes
    PROVE  /\ pc \in StopPcs
           /\ UNCHANGED dbRunning
           /\ running' \in BOOLEAN /\ listening' \in BOOLEAN /\ online' \in BOOLEAN
           /\ worker' = worker \/
              worker' = [w \in Workers |-> IF worker[w].life = "listed"
                                           THEN [worker[w] EXCEPT !.do_thread = FALSE]
                                           ELSE worker[w]]
           /\ online' \in {online, FALSE}
  BY DEF Stop, StopClear, StopDisconnect, StopClose, StopWorkers, StopPcs, flags, FlagTypes,
         DisconnectAllUsers

\* Every step keeps the flags Boolean.
LEMMA FlagNext == FlagTypes /\ [Next]_vars => FlagTypes'
  <1> SUFFICES ASSUME FlagTypes, [Next]_vars PROVE FlagTypes'
    OBVIOUS
  <1>1. CASE (\E p \in Consoles : ConsoleStop(p)) \/ MainStop
    BY <1>1, StopWrites DEF ConsoleStop, MainStop, FlagTypes, sweep
  <1>2. CASE Initialize \/ Run \/ Exit
    BY <1>2 DEF Initialize, Listen, InitializeUserSessions, SpawnDatabase, SpawnHandler,
       SetRunning, Run, SpawnCleaner, RunLoop, AcceptClient, AddClient, Exit, FlagTypes, flags,
       objects, sweep
  <1>3. CASE Reset \/ JoinHandler \/ JoinCleaner \/ ClearWorkers \/ DestroyQueues \/ JoinDatabase
             \/ Delete
    BY <1>3 DEF Reset, JoinHandler, JoinCleaner, ClearWorkers, DestroyQueues, JoinDatabase, Delete,
       FlagTypes, flags, objects, sweep
  <1>6. \A fails \in BOOLEAN : DisconnectAllUsers(fails) => online' \in BOOLEAN
    BY DEF DisconnectAllUsers, FlagTypes
  <1>7. CASE DisconnectAgain \/ StopDatabase
    BY <1>6, <1>7 DEF DisconnectAgain, StopDatabase, FlagTypes, flags, objects, sweep
  <1>8. CASE StopDatabaseAgain
    <2>1. late' \in BOOLEAN
      <3>1. late' = (db \in {"poll", "sql"})
        BY <1>8 DEF StopDatabaseAgain
      <3>2. (db \in {"poll", "sql"}) \in BOOLEAN
        OBVIOUS
      <3> QED BY <3>1, <3>2
    <2> QED BY <1>6, <1>8, <2>1 DEF StopDatabaseAgain, FlagTypes, flags, objects
  <1>4. CASE HandlerStep \/ CleanerStep \/ \E p \in Consoles : ConsoleEvent(p)
    BY <1>4 DEF HandlerStep, HandlerLoop, HandlerFind, HandlerSend, CleanerStep, CleanerLoop,
       CleanerLock, CleanerErase, CleanerUnlock, ConsoleEvent, FlagTypes, flags, objects, sweep
  <1>5. CASE DatabaseStep \/ (\E w \in Workers : WorkerEnds(w)) \/ UNCHANGED vars
    BY <1>5 DEF DatabaseStep, DatabaseLoop, DatabasePoll, DatabaseTask, DatabaseReply, WorkerEnds,
       vars, FlagTypes, flags, objects, sweep
  <1> QED BY <1>1, <1>2, <1>3, <1>4, <1>5, <1>7, <1>8 DEF Next, MainStep, Destroy

\* What a step can do to a worker.
LEMMA WorkerStep ==
    ASSUME WorkerType, FlagTypes, [Next]_vars
    PROVE  \/ worker' = worker
           \/ /\ MainStop \/ \E p \in Consoles : ConsoleStop(p)
              /\ worker' = [w \in Workers |-> IF worker[w].life = "listed"
                                              THEN [worker[w] EXCEPT !.do_thread = FALSE]
                                              ELSE worker[w]]
           \/ /\ AddClient
              /\ \E w \in Workers : worker' = [worker EXCEPT ![w] =
                    [life |-> "listed", do_thread |-> TRUE, ended |-> FALSE]]
           \/ ClearWorkers /\ \E w \in Workers : Halt(w) \/ Erase(w)
           \/ CleanerErase /\ \E w \in Workers : ~worker[w].do_thread /\ Erase(w)
           \/ \E w \in Workers : /\ WorkerEnds(w) /\ ~worker[w].do_thread
                                 /\ worker' = [worker EXCEPT ![w].ended = TRUE]
  <1>1. CASE (\E p \in Consoles : ConsoleStop(p)) \/ MainStop
    BY <1>1, StopWrites DEF ConsoleStop, MainStop
  <1>2. CASE Initialize \/ SpawnCleaner \/ RunLoop \/ AcceptClient \/ Exit
    BY <1>2 DEF Initialize, Listen, InitializeUserSessions, SpawnDatabase, SpawnHandler,
       SetRunning, SpawnCleaner, RunLoop, AcceptClient, Exit, objects
  <1>3. CASE AddClient
    BY <1>3 DEF AddClient
  <1>4. CASE ClearWorkers
    BY <1>4 DEF ClearWorkers
  <1>5. CASE Reset \/ DisconnectAgain \/ JoinHandler \/ StopDatabase \/ JoinCleaner
             \/ DestroyQueues \/ StopDatabaseAgain \/ JoinDatabase \/ Delete
    BY <1>5 DEF Reset, DisconnectAgain, JoinHandler, StopDatabase, JoinCleaner,
       DestroyQueues, StopDatabaseAgain, JoinDatabase, Delete, objects
  <1>6. CASE HandlerStep \/ CleanerStep \/ \E p \in Consoles : ConsoleEvent(p)
    BY <1>6 DEF HandlerStep, HandlerLoop, HandlerFind, HandlerSend, CleanerStep, CleanerLoop,
       CleanerLock, CleanerErase, CleanerUnlock, ConsoleEvent, objects
  <1>7. CASE DatabaseStep \/ (\E w \in Workers : WorkerEnds(w)) \/ UNCHANGED vars
    BY <1>7 DEF DatabaseStep, DatabaseLoop, DatabasePoll, DatabaseTask, DatabaseReply, WorkerEnds,
       vars, objects
  <1> QED BY <1>1, <1>2, <1>3, <1>4, <1>5, <1>6, <1>7 DEF Next, MainStep, Destroy, Run

\* Every step keeps the state of the workers.
LEMMA WorkerNext == WorkerType /\ FlagTypes /\ [Next]_vars => WorkerType'
  <1> SUFFICES ASSUME WorkerType, FlagTypes, [Next]_vars PROVE WorkerType'
    OBVIOUS
  <1>1. \A w \in Workers : worker[w] \in WorkerState
    BY DEF WorkerType
  <1>2. \A s \in WorkerState : /\ [s EXCEPT !.do_thread = FALSE] \in WorkerState
                               /\ [s EXCEPT !.life = "erased"] \in WorkerState
                               /\ [s EXCEPT !.ended = TRUE] \in WorkerState
    BY DEF WorkerState
  <1>3. [life |-> "listed", do_thread |-> TRUE, ended |-> FALSE] \in WorkerState
    BY DEF WorkerState
  <1>4. worker \in [Workers -> WorkerState]
    BY DEF WorkerType
  <1>5. ASSUME NEW w \in Workers, NEW s \in WorkerState, worker' = [worker EXCEPT ![w] = s]
        PROVE  WorkerType'
    BY <1>4, <1>5 DEF WorkerType
  <1>6. CASE worker' = worker
    BY <1>4, <1>6 DEF WorkerType
  <1>7. CASE worker' = [w \in Workers |-> IF worker[w].life = "listed"
                                         THEN [worker[w] EXCEPT !.do_thread = FALSE]
                                         ELSE worker[w]]
    BY <1>1, <1>2, <1>7 DEF WorkerType
  <1>8. CASE \E w \in Workers : worker' = [worker EXCEPT ![w] =
                [life |-> "listed", do_thread |-> TRUE, ended |-> FALSE]]
    BY <1>3, <1>5, <1>8
  <1>9. CASE \E w \in Workers : Halt(w) \/ Erase(w)
    BY <1>1, <1>2, <1>5, <1>9 DEF Halt, Erase
  <1>10. CASE \E w \in Workers : worker' = [worker EXCEPT ![w].ended = TRUE]
    BY <1>1, <1>2, <1>5, <1>10
  <1> QED BY <1>6, <1>7, <1>8, <1>9, <1>10, WorkerStep

\* What a step can do to the response handler.
LEMMA HandlerStepShape ==
    ASSUME [Next]_vars
    PROVE  \/ handler' = handler
           \/ SpawnHandler
           \/ HandlerStep
  BY DEF Next, MainStep, Initialize, Listen, InitializeUserSessions, SpawnDatabase,
     SetRunning, Run, SpawnCleaner, RunLoop, AcceptClient, AddClient, Exit, Destroy, MainStop,
     Reset, DisconnectAgain, JoinHandler, StopDatabase, JoinCleaner, ClearWorkers,
     DestroyQueues, StopDatabaseAgain, JoinDatabase, Delete, ConsoleEvent, ConsoleStop,
     CleanerStep, CleanerLoop, CleanerLock, CleanerErase, CleanerUnlock, WorkerEnds,
     DatabaseStep, DatabaseLoop, DatabasePoll, DatabaseTask, DatabaseReply, vars, threads

\* Every step keeps the response handler at its places.
LEMMA HandlerNext == HandlerType /\ [Next]_vars => HandlerType'
  <1> SUFFICES ASSUME HandlerType, [Next]_vars PROVE HandlerType'
    OBVIOUS
  <1>1. CASE SpawnHandler
    BY <1>1 DEF SpawnHandler, HandlerType
  <1>2. CASE HandlerStep
    BY <1>2 DEF HandlerStep, HandlerLoop, HandlerFind, HandlerSend, HandlerGoto, HandlerType
  <1> QED BY <1>1, <1>2, HandlerStepShape DEF HandlerType

\* What a step can do to the cleaner.
LEMMA CleanerStepShape ==
    ASSUME [Next]_vars
    PROVE  \/ cleaner' = cleaner
           \/ SpawnCleaner
           \/ CleanerStep
  BY DEF Next, MainStep, Initialize, Listen, InitializeUserSessions, SpawnDatabase,
     SetRunning, Run, SpawnHandler, RunLoop, AcceptClient, AddClient, Exit, Destroy, MainStop,
     Reset, DisconnectAgain, JoinHandler, StopDatabase, JoinCleaner, ClearWorkers,
     DestroyQueues, StopDatabaseAgain, JoinDatabase, Delete, ConsoleEvent, ConsoleStop,
     HandlerStep, HandlerLoop, HandlerFind, HandlerSend, WorkerEnds,
     DatabaseStep, DatabaseLoop, DatabasePoll, DatabaseTask, DatabaseReply, vars, threads

\* What a step can do to the database thread.
LEMMA DatabaseStepShape ==
    ASSUME [Next]_vars
    PROVE  \/ db' = db
           \/ Listen
           \/ SpawnDatabase
           \/ DatabaseStep
  BY DEF Next, MainStep, Initialize, InitializeUserSessions, SpawnCleaner,
     SetRunning, Run, SpawnHandler, RunLoop, AcceptClient, AddClient, Exit, Destroy, MainStop,
     Reset, DisconnectAgain, JoinHandler, StopDatabase, JoinCleaner, ClearWorkers,
     DestroyQueues, StopDatabaseAgain, JoinDatabase, Delete, ConsoleEvent, ConsoleStop,
     HandlerStep, HandlerLoop, HandlerFind, HandlerSend, WorkerEnds,
     CleanerStep, CleanerLoop, CleanerLock, CleanerErase, CleanerUnlock, vars, threads

\* Every step keeps the cleaner at its places.
LEMMA CleanerNext == CleanerType /\ [Next]_vars => CleanerType'
  BY CleanerStepShape DEF SpawnCleaner, CleanerStep, CleanerLoop, CleanerLock, CleanerErase,
     CleanerUnlock, CleanerType, threads

\* Every step keeps the database thread at its places.
LEMMA DatabaseNext == DatabaseType /\ [Next]_vars => DatabaseType'
  BY DatabaseStepShape DEF Listen, SpawnDatabase, DatabaseStep, DatabaseLoop, DatabasePoll,
     DatabaseTask, DatabaseReply, DatabaseType

\* There is no cleaner before Run.
NoCleanerYet == main.pc \in {"start", "sessions", "spawn", "handler", "started", "run"}
                => cleaner = "absent"

\* The cleaner is made by Run.
LEMMA NoCleanerNext == Main /\ NoCleanerYet /\ [Next]_vars => NoCleanerYet'
  <1> SUFFICES ASSUME Main, NoCleanerYet, [Next]_vars PROVE NoCleanerYet'
    OBVIOUS
  <1>1. CASE Initialize
    <2>1. cleaner' = cleaner
      BY <1>1 DEF Initialize, Listen, InitializeUserSessions, SpawnDatabase, SpawnHandler,
         SetRunning, threads
    <2>2. main.pc \in {"start", "sessions", "spawn", "handler", "started"}
      BY <1>1 DEF Initialize, Listen, InitializeUserSessions, SpawnDatabase, SpawnHandler,
         SetRunning
    <2> QED BY <2>1, <2>2 DEF NoCleanerYet
  <1>2. CASE Run
    <2>1. \E pc \in {"loop", "accept", "add", "exit"} : Goto(pc)
      BY <1>2 DEF Run, SpawnCleaner, RunLoop, AcceptClient, AddClient
    <2>2. main'.pc \in {"loop", "accept", "add", "exit"}
      <3>1. {"loop", "accept", "add", "exit"} \subseteq MainPcs
        BY DEF MainPcs
      <3> QED BY <2>1, <3>1, Going DEF Main
    <2> QED BY <2>2 DEF NoCleanerYet
  <1>3. CASE Exit \/ MainStop \/ Reset \/ DisconnectAgain
    BY <1>3, StopStep DEF StopPcs, NoCleanerYet
  <1>4. CASE JoinHandler \/ StopDatabase \/ JoinCleaner \/ DestroyQueues
    BY <1>4, JoinStep DEF NoCleanerYet
  <1>5. CASE StopDatabaseAgain \/ JoinDatabase \/ Delete
    BY <1>5, JoinStep DEF NoCleanerYet
  <1>6. CASE Others
    <2>1. main' = main
      BY <1>6, OthersStep
    <2>2. cleaner = "absent" => cleaner' = "absent"
      BY <1>6 DEF Others, ConsoleEvent, ConsoleStop, HandlerStep, HandlerLoop,
         HandlerFind, HandlerSend, DatabaseStep, DatabaseLoop, DatabasePoll, DatabaseTask,
         DatabaseReply, ClearWorkers, WorkerEnds, CleanerStep, CleanerLoop, CleanerLock,
         CleanerErase, CleanerUnlock, vars, threads
    <2> QED BY <2>1, <2>2 DEF NoCleanerYet
  <1> QED BY <1>1, <1>2, <1>3, <1>4, <1>5, <1>6, Kinds

\* main and the cleaner hold the mutex exactly where they wait for a thread.
LEMMA MutexNext == Main /\ NoCleanerYet /\ MutexOwner /\ [Next]_vars => MutexOwner'
  <1> SUFFICES ASSUME Main, NoCleanerYet, MutexOwner, [Next]_vars PROVE MutexOwner'
    OBVIOUS
  <1>1. CASE Initialize \/ Run
    <2>1. main.pc # "workers" /\ main'.pc # "workers"
      BY <1>1, EarlyStep DEF Early
    <2>2. mutex' = mutex
      BY <1>1 DEF Initialize, Listen, InitializeUserSessions, SpawnDatabase, SpawnHandler,
         SetRunning, Run, SpawnCleaner, RunLoop, AcceptClient, AddClient, objects
    <2>3. cleaner' = "erase" <=> cleaner = "erase"
      BY <1>1 DEF Initialize, Listen, InitializeUserSessions, SpawnDatabase, SpawnHandler,
         SetRunning, Run, SpawnCleaner, RunLoop, AcceptClient, AddClient, threads, NoCleanerYet
    <2> QED BY <2>1, <2>2, <2>3 DEF MutexOwner
  <1>2. CASE Exit \/ MainStop \/ Reset \/ DisconnectAgain
    <2>1. main.pc # "workers" /\ main'.pc # "workers"
      BY <1>2, StopStep DEF StopPcs
    <2>2. mutex' = mutex /\ cleaner' = cleaner
      BY <1>2 DEF Exit, MainStop, Reset, DisconnectAgain, objects, threads
    <2> QED BY <2>1, <2>2 DEF MutexOwner
  <1>3. CASE JoinCleaner
    BY <1>3, JoinStep DEF JoinCleaner, MutexOwner, threads
  <1>4. CASE DestroyQueues
    BY <1>4, JoinStep DEF DestroyQueues, MutexOwner, threads
  <1>5. CASE JoinHandler \/ StopDatabase \/ StopDatabaseAgain \/ JoinDatabase \/ Delete
    <2>1. main.pc # "workers" /\ main'.pc # "workers"
      BY <1>5, JoinStep DEF JoinHandler, StopDatabase, StopDatabaseAgain, JoinDatabase, Delete
    <2>2. mutex' = mutex /\ cleaner' = cleaner
      BY <1>5 DEF JoinHandler, StopDatabase, StopDatabaseAgain, JoinDatabase, Delete, objects,
                  threads
    <2> QED BY <2>1, <2>2 DEF MutexOwner
  <1>6. CASE Others
    <2>1. main' = main
      BY <1>6, OthersStep
    <2>2. CASE CleanerStep
      BY <2>1, <2>2 DEF CleanerStep, CleanerLoop, CleanerLock, CleanerErase, CleanerUnlock,
         MutexOwner, objects, threads
    <2>3. CASE ~CleanerStep
      <3>1. mutex' = mutex /\ cleaner' = cleaner
        BY <1>6, <2>3 DEF Others, ConsoleEvent, ConsoleStop, HandlerStep, HandlerLoop,
           HandlerFind, HandlerSend, DatabaseStep, DatabaseLoop, DatabasePoll, DatabaseTask,
           DatabaseReply, ClearWorkers, WorkerEnds, vars, objects, threads
      <3> QED BY <2>1, <3>1 DEF MutexOwner
    <2> QED BY <2>2, <2>3
  <1> QED BY <1>1, <1>2, <1>3, <1>4, <1>5, <1>6, Kinds

\* All types, and where main is.
Shape == /\ Main /\ ConsoleType /\ HandlerType /\ WorkerType /\ DatabaseType
         /\ CleanerType /\ FlagTypes /\ NoCleanerYet /\ MutexOwner

\* Everything has its type at the start.
LEMMA ShapeInit == Init => Shape
  <1> SUFFICES ASSUME Init PROVE Shape
    OBVIOUS
  <1>1. Main
    BY MainInit
  <1>2. ConsoleType /\ HandlerType /\ DatabaseType /\ CleanerType
    BY DEF Init, ConsoleType, HandlerType, DatabaseType, CleanerType
  <1>3. WorkerType
    BY DEF Init, WorkerType, WorkerState
  <1>4. FlagTypes /\ NoCleanerYet /\ MutexOwner
    BY DEF Init, FlagTypes, NoCleanerYet, MutexOwner
  <1> QED BY <1>1, <1>2, <1>3, <1>4 DEF Shape

\* Every step keeps all the types.
LEMMA ShapeNext == Shape /\ [Next]_vars => Shape'
  BY MainNext, ConsoleNext, HandlerNext, WorkerNext, DatabaseNext, CleanerNext, FlagNext,
     NoCleanerNext, MutexNext DEF Shape

\* All types hold always.
LEMMA ShapeCorrect == Spec => []Shape
  BY ShapeInit, ShapeNext, PTL DEF Spec

\* The variables keep their types, and _worker_threads_mutex is held across a wait only by
\* main in ~Server and by the cleaner in ClearDeadThreads.
THEOREM TypeCorrect == Spec => []TypeOK
  <1>1. Shape => TypeOK
    BY TypeParts DEF Shape, Main
  <1> QED BY <1>1, ShapeCorrect, PTL

-----------------------------------------------------------------------------
(* What main has waited for.                                               *)

WaitedHandler == main.pc \in HandlerJoined => handler.pc \in {"absent", "done"}
WaitedCleaner == main.pc \in CleanerJoined => cleaner \in {"absent", "done"}
WaitedWorkers == main.pc \in WorkersJoined => \A w \in Workers : worker[w].life # "listed"
WaitedDatabase == main.pc \in {"delete", "done"} => db \in {"none", "made", "done"}
Deleted == ~server => main.pc = "done"

Waited == WaitedHandler /\ WaitedCleaner /\ WaitedWorkers /\ WaitedDatabase /\ Deleted

\* Main is past a join only if it has been at it.
LEMMA PastJoin ==
    ASSUME Shape, [Next]_vars
    PROVE  /\ main'.pc \in HandlerJoined => main.pc \in HandlerJoined \/ JoinHandler
           /\ main'.pc \in CleanerJoined => main.pc \in CleanerJoined \/ JoinCleaner
           /\ main'.pc \in WorkersJoined => main.pc \in WorkersJoined \/ DestroyQueues
           /\ main'.pc \in {"delete", "done"} =>
                 main.pc \in {"delete", "done"} \/ JoinDatabase \/ (DestroyQueues /\ db = "none")
  <1>1. CASE Initialize \/ Run
    BY <1>1, EarlyStep DEF Shape, Early, HandlerJoined, CleanerJoined, WorkersJoined
  <1>2. CASE Exit \/ MainStop \/ Reset \/ DisconnectAgain
    BY <1>2, StopStep DEF Shape, StopPcs, HandlerJoined, CleanerJoined, WorkersJoined
  <1>3. CASE Others
    BY <1>3, OthersStep
  <1>4. CASE JoinHandler \/ StopDatabase
    BY <1>4, JoinStep DEF Shape, StopDatabase, HandlerJoined, CleanerJoined, WorkersJoined
  <1>5. CASE JoinCleaner
    BY <1>5, JoinStep DEF Shape, JoinCleaner, HandlerJoined, CleanerJoined, WorkersJoined
  <1>6. CASE DestroyQueues
    BY <1>6, JoinStep DEF Shape, DestroyQueues, HandlerJoined, CleanerJoined, WorkersJoined
  <1>7. CASE StopDatabaseAgain
    BY <1>7, JoinStep DEF Shape, StopDatabaseAgain, HandlerJoined, CleanerJoined, WorkersJoined
  <1>8. CASE JoinDatabase
    BY <1>8, JoinStep DEF Shape, JoinDatabase, HandlerJoined, CleanerJoined, WorkersJoined
  <1>9. CASE Delete
    BY <1>9, JoinStep DEF Shape, Delete, HandlerJoined, CleanerJoined, WorkersJoined
  <1> QED BY <1>1, <1>2, <1>3, <1>4, <1>5, <1>6, <1>7, <1>8, <1>9, Kinds

\* Every step keeps what main knows of the threads it has waited for.
LEMMA WaitedNext == Shape /\ Waited /\ [Next]_vars => Waited'
  <1> SUFFICES ASSUME Shape, Waited, [Next]_vars PROVE Waited'
    OBVIOUS
  <1>1. WaitedHandler'
    <2>1. SpawnHandler => main.pc \notin HandlerJoined
      BY DEF SpawnHandler, HandlerJoined
    <2>2. HandlerStep => handler.pc \notin {"absent", "done"} /\ main' = main
      BY DEF HandlerStep, HandlerLoop, HandlerFind, HandlerSend
    <2>3. SpawnHandler => ~JoinHandler
      BY DEF SpawnHandler, JoinHandler
    <2>4. JoinHandler => handler.pc \in {"absent", "done"} /\ main' # main
      BY JoinStep DEF JoinHandler, Shape
    <2> QED BY <2>1, <2>2, <2>3, <2>4, PastJoin, HandlerStepShape DEF Waited, WaitedHandler
  <1>2. WaitedCleaner'
    <2>1. SpawnCleaner => main.pc \notin CleanerJoined /\ ~JoinCleaner
      BY DEF SpawnCleaner, JoinCleaner, CleanerJoined, HandlerJoined
    <2>2. CleanerStep => cleaner \notin {"absent", "done"} /\ main' = main
      BY DEF CleanerStep, CleanerLoop, CleanerLock, CleanerErase, CleanerUnlock
    <2>3. JoinCleaner => cleaner \in {"absent", "done"} /\ main' # main
      BY JoinStep DEF JoinCleaner, Shape
    <2> QED BY <2>1, <2>2, <2>3, PastJoin, CleanerStepShape DEF Waited, WaitedCleaner
  <1>3. WaitedWorkers'
    <2>1. DestroyQueues => /\ \A w \in Workers : worker[w].life # "listed"
                           /\ worker' = worker
      BY DEF DestroyQueues
    <2>2. AddClient => main.pc \notin WorkersJoined /\ ~DestroyQueues
      BY DEF AddClient, DestroyQueues, WorkersJoined, CleanerJoined, HandlerJoined
    <2>3. \A w \in Workers : worker[w] \in WorkerState
      BY DEF Shape, WorkerType
    <2>4. ASSUME NEW w \in Workers, worker[w].life # "listed", ~AddClient
          PROVE  worker'[w].life # "listed"
      BY <2>3, <2>4, WorkerStep DEF Shape, WorkerType, WorkerState, Halt, Erase
    <2> QED BY <2>1, <2>2, <2>4, PastJoin DEF Waited, WaitedWorkers
  <1>4. WaitedDatabase'
    <2>1. Listen \/ SpawnDatabase =>
              main.pc \notin {"delete", "done"} /\ ~JoinDatabase /\ ~DestroyQueues
      BY DEF Listen, SpawnDatabase, JoinDatabase, DestroyQueues
    <2>2. DatabaseStep => db \notin {"none", "made", "done"} /\ main' = main
      BY DEF DatabaseStep, DatabaseLoop, DatabasePoll, DatabaseTask, DatabaseReply
    <2>3. JoinDatabase => db \in {"none", "made", "done"} /\ main' # main
      BY JoinStep DEF JoinDatabase, Shape
    <2>4. DestroyQueues => main' # main
      BY JoinStep DEF Shape
    <2> QED BY <2>1, <2>2, <2>3, <2>4, PastJoin, DatabaseStepShape DEF Waited, WaitedDatabase
  <1>5. Deleted'
    <2>1. server' # server => Delete
      BY DEF Next, MainStep, Initialize, Listen, InitializeUserSessions, SpawnDatabase,
         SpawnHandler, SetRunning, Run, SpawnCleaner, RunLoop, AcceptClient, AddClient, Exit,
         Destroy, MainStop, Reset, DisconnectAgain, JoinHandler, StopDatabase, JoinCleaner,
         ClearWorkers, DestroyQueues, StopDatabaseAgain, JoinDatabase, ConsoleEvent, ConsoleStop,
         HandlerStep, HandlerLoop, HandlerFind, HandlerSend, CleanerStep, CleanerLoop,
         CleanerLock, CleanerErase, CleanerUnlock, WorkerEnds, DatabaseStep, DatabaseLoop,
         DatabasePoll, DatabaseTask, DatabaseReply, vars, objects
    <2>2. Delete => main'.pc = "done"
      BY JoinStep DEF Shape
    <2>3. main.pc = "done" => main' = main
      BY OthersStep DEF Next, MainStep, Initialize, Listen, InitializeUserSessions, SpawnDatabase,
         SpawnHandler, SetRunning, Run, SpawnCleaner, RunLoop, AcceptClient, AddClient, Exit,
         Destroy, MainStop, Reset, DisconnectAgain, JoinHandler, StopDatabase, JoinCleaner,
         ClearWorkers, DestroyQueues, StopDatabaseAgain, JoinDatabase, Delete, Others, StopPcs
    <2> QED BY <2>1, <2>2, <2>3 DEF Waited, Deleted
  <1> QED BY <1>1, <1>2, <1>3, <1>4, <1>5 DEF Waited

\* What main has waited for is over, always.
LEMMA WaitedCorrect == Spec => []Waited
  <1>1. Init => Waited
    BY DEF Init, Waited, WaitedHandler, WaitedCleaner, WaitedWorkers, WaitedDatabase, Deleted,
           HandlerJoined, CleanerJoined, WorkersJoined
  <1> QED BY <1>1, WaitedNext, ShapeCorrect, PTL DEF Spec

\* ~Server leaves none of the threads the server has started (Server.cpp:27-55).
THEOREM NoThreadOutlivesServer == Spec => []ThreadsGone
  <1>1. Waited => ThreadsGone
    BY DEF Waited, WaitedHandler, WaitedCleaner, WaitedWorkers, WaitedDatabase, Deleted,
           HandlerJoined, CleanerJoined, WorkersJoined, ThreadsGone
  <1> QED BY <1>1, WaitedCorrect, PTL

-----------------------------------------------------------------------------
(* What only a server that is stopping does.                               *)

\* Nobody takes a call of Stop back.
LEMMA StoppingNext == Shape /\ Stopping /\ [Next]_vars => Stopping'
  <1> SUFFICES ASSUME Shape, Stopping, [Next]_vars PROVE Stopping'
    OBVIOUS
  <1>1. CASE main.back # "none"
    <2>1. main'.back # "none"
      <3>1. ~Initialize /\ ~Run
        BY <1>1, EarlyStep DEF Shape
      <3>2. CASE Others
        BY <1>1, <3>2, OthersStep
      <3>3. CASE Exit \/ MainStop \/ Reset \/ DisconnectAgain
        BY <3>3, StopStep DEF Shape
      <3>4. CASE JoinHandler \/ StopDatabase \/ JoinCleaner \/ DestroyQueues
                 \/ StopDatabaseAgain \/ JoinDatabase \/ Delete
        <4>1. Main' /\ main'.pc \in HandlerJoined
          BY <3>4, JoinStep DEF Shape, HandlerJoined
        <4> QED BY <4>1 DEF Main, Returns, HandlerJoined, Early
      <3> QED BY <3>1, <3>2, <3>3, <3>4, Kinds
    <2> QED BY <2>1 DEF Stopping
  <1>2. ASSUME NEW p \in Consoles, console[p] # "idle"
        PROVE  console'[p] # "idle"
    <2>1. CASE \E r \in Consoles : ConsoleEvent(r)
      BY <1>2, <2>1 DEF ConsoleEvent, Shape, ConsoleType
    <2>2. CASE \E r \in Consoles : ConsoleStop(r)
      BY <1>2, <2>2 DEF ConsoleStop, StopPcs, Shape, ConsoleType
    <2>3. CASE MainStep \/ UNCHANGED vars
      BY <1>2, <2>3 DEF MainStep, Initialize, Listen, InitializeUserSessions, SpawnDatabase,
         SpawnHandler, SetRunning, Run, SpawnCleaner, RunLoop, AcceptClient, AddClient, Exit,
         Destroy, MainStop, Reset, DisconnectAgain, JoinHandler, StopDatabase, JoinCleaner,
         ClearWorkers, DestroyQueues, StopDatabaseAgain, JoinDatabase, Delete, vars
    <2>4. CASE HandlerStep \/ CleanerStep \/ DatabaseStep \/ \E w \in Workers : WorkerEnds(w)
      BY <1>2, <2>4 DEF HandlerStep, HandlerLoop, HandlerFind, HandlerSend, CleanerStep,
         CleanerLoop, CleanerLock, CleanerErase, CleanerUnlock, DatabaseStep, DatabaseLoop,
         DatabasePoll, DatabaseTask, DatabaseReply, WorkerEnds
    <2> QED BY <2>1, <2>2, <2>3, <2>4 DEF Next
  <1> QED BY <1>1, <1>2 DEF Stopping

\* A worker is told to end only by Stop or ~Server, ends only then, and is deleted after that.
WorkersKept ==
    /\ \A w \in Workers :
          /\ worker[w].ended => ~worker[w].do_thread
          /\ worker[w].life = "erased" => ~worker[w].do_thread
          /\ worker[w].life # "absent" /\ ~worker[w].do_thread => Stopping
          /\ worker[w].life = "absent" => ~worker[w].ended
    /\ handler.pc = "send" => handler.worker \in Workers

\* Every step keeps what is said of the workers.
LEMMA WorkersKeptNext == Shape /\ WorkersKept /\ [Next]_vars => WorkersKept'
  <1> SUFFICES ASSUME Shape, WorkersKept, [Next]_vars PROVE WorkersKept'
    OBVIOUS
  <1>1. Stopping => Stopping'
    BY StoppingNext
  <1>2. \A w \in Workers : worker[w] \in WorkerState
    BY DEF Shape, WorkerType
  <1>3. worker \in [Workers -> WorkerState] /\ WorkerType /\ FlagTypes
    BY DEF Shape, WorkerType
  <1>4. (MainStop \/ \E p \in Consoles : ConsoleStop(p)) => Stopping
    <2>1. MainStop => main.back # "none"
      BY DEF MainStop, Shape, Main, Returns, Early, StopPcs
    <2>2. (\E p \in Consoles : ConsoleStop(p)) => Stopping
      BY DEF ConsoleStop, StopPcs, Stopping
    <2> QED BY <2>1, <2>2 DEF Stopping
  <1>5. ClearWorkers => Stopping
    BY DEF ClearWorkers, Shape, Main, Returns, Early, Stopping
  <1> DEFINE Kept(s) == /\ s.ended => ~s.do_thread
                        /\ s.life = "erased" => ~s.do_thread
                        /\ s.life # "absent" /\ ~s.do_thread => Stopping'
                        /\ s.life = "absent" => ~s.ended
  <1>6. ASSUME NEW w \in Workers PROVE Kept(worker'[w])
    <2>1. Kept(worker[w])
      BY <1>1 DEF WorkersKept
    <2>2. ASSUME NEW r \in Workers, Halt(r) \/ Erase(r), Stopping PROVE Kept(worker'[w])
      BY <1>1, <1>2, <1>3, <2>1, <2>2 DEF Halt, Erase, WorkerState
    <2>3. ASSUME NEW r \in Workers, ~worker[r].do_thread, Erase(r) PROVE Kept(worker'[w])
      BY <1>2, <1>3, <2>1, <2>3 DEF Erase, WorkerState
    <2>4. ASSUME worker' = [v \in Workers |-> IF worker[v].life = "listed"
                                              THEN [worker[v] EXCEPT !.do_thread = FALSE]
                                              ELSE worker[v]], Stopping
          PROVE  Kept(worker'[w])
      BY <1>1, <1>2, <2>1, <2>4 DEF WorkerState
    <2>5. ASSUME NEW r \in Workers, ~worker[r].do_thread, worker[r].life = "listed",
                 worker' = [worker EXCEPT ![r].ended = TRUE]
          PROVE  Kept(worker'[w])
      BY <1>2, <1>3, <2>1, <2>5 DEF WorkerState
    <2>6. ASSUME NEW r \in Workers, worker' = [worker EXCEPT ![r] =
                    [life |-> "listed", do_thread |-> TRUE, ended |-> FALSE]]
          PROVE  Kept(worker'[w])
      BY <1>3, <2>1, <2>6
    <2>7. \A r \in Workers : WorkerEnds(r) => worker[r].life = "listed"
      BY DEF WorkerEnds
    <2> QED BY <1>3, <1>4, <1>5, <2>1, <2>2, <2>3, <2>4, <2>5, <2>6, <2>7, WorkerStep
  <1>7. handler'.pc = "send" => handler'.worker \in Workers
    <2>1. handler.pc = "send" => handler.worker \in Workers
      BY DEF WorkersKept
    <2>2. CASE SpawnHandler
      BY <2>2 DEF SpawnHandler, Shape, HandlerType
    <2>3. CASE HandlerStep
      BY <2>3 DEF HandlerStep, HandlerLoop, HandlerFind, HandlerSend, HandlerGoto, Shape, HandlerType
    <2> QED BY <2>1, <2>2, <2>3, HandlerStepShape
  <1> QED BY <1>6, <1>7 DEF WorkersKept

\* Always so.
LEMMA WorkersKeptCorrect == Spec => []WorkersKept
  <1>1. Init => WorkersKept
    BY DEF Init, WorkersKept
  <1> QED BY <1>1, WorkersKeptNext, ShapeCorrect, PTL DEF Spec

\* The response handler holds the pointer of a deleted worker only once the server is
\* stopping (Server.cpp:303).
THEOREM PointersAreGood == Spec => []PointerGood
  <1>1. WorkersKept => PointerGood
    BY DEF WorkersKept, PointerGood
  <1> QED BY <1>1, WorkersKeptCorrect, PTL

\* While InitializeUserSessions runs, the database thread is made and not started.
DatabaseUnstarted == /\ main.pc = "start" => db = "none"
                     /\ main.pc = "sessions" => db = "made"

\* Every step keeps that.
LEMMA DatabaseUnstartedNext == Shape /\ DatabaseUnstarted /\ [Next]_vars => DatabaseUnstarted'
  <1> SUFFICES ASSUME Shape, DatabaseUnstarted, [Next]_vars PROVE DatabaseUnstarted'
    OBVIOUS
  <1>0. \A pc \in Early : Goto(pc) => main'.pc = pc
    <2>1. \A pc \in Early : pc \in MainPcs
      BY DEF Early, MainPcs
    <2> QED BY <2>1, Going DEF Shape, Main
  <1>1. CASE Initialize
    BY <1>0, <1>1 DEF Initialize, Listen, InitializeUserSessions, SpawnDatabase, SpawnHandler,
       SetRunning, DatabaseUnstarted, Early
  <1>2. CASE Run
    BY <1>0, <1>2 DEF Run, SpawnCleaner, RunLoop, AcceptClient, AddClient, DatabaseUnstarted, Early
  <1>3. CASE Exit \/ MainStop \/ Reset \/ DisconnectAgain
    BY <1>3, StopStep DEF Shape, StopPcs, DatabaseUnstarted
  <1>4. CASE JoinHandler \/ StopDatabase \/ JoinCleaner \/ DestroyQueues
    BY <1>4, JoinStep DEF Shape, DatabaseUnstarted
  <1>5. CASE StopDatabaseAgain \/ JoinDatabase \/ Delete
    BY <1>5, JoinStep DEF Shape, DatabaseUnstarted
  <1>6. CASE Others
    <2>1. main' = main
      BY <1>6, OthersStep
    <2>2. db \in {"none", "made"} => db' = db
      BY <1>6 DEF Others, ConsoleEvent, ConsoleStop, HandlerStep, HandlerLoop, HandlerFind,
         HandlerSend, CleanerStep, CleanerLoop, CleanerLock, CleanerErase, CleanerUnlock,
         DatabaseStep, DatabaseLoop, DatabasePoll, DatabaseTask, DatabaseReply, ClearWorkers,
         WorkerEnds, vars, threads
    <2> QED BY <2>1, <2>2 DEF DatabaseUnstarted
  <1> QED BY <1>1, <1>2, <1>3, <1>4, <1>5, <1>6, Kinds

\* Unless the server is stopping, at most one thread is on the database connection
\* (Server.cpp:326).
THEOREM OneThreadOnConnection == Spec => []OneOnConnection
  <1>1. Init => DatabaseUnstarted
    BY DEF Init, DatabaseUnstarted
  <1>2. ASSUME Shape, DatabaseUnstarted, ~Stopping PROVE ~(Cardinality(OnConnection) > 1)
    <2>1. {p \in Consoles : console[p] = "disconnect"} = {}
      BY <1>2 DEF Stopping
    <2>2. main.pc \in Early
      BY <1>2 DEF Stopping, Shape, Main, Returns
    <2>3. ~(main.pc = "sessions" /\ db = "sql")
      BY <1>2 DEF DatabaseUnstarted
    <2>4. main.pc \notin {"disconnect", "again", "stop db", "stop db again"}
      BY <2>2 DEF Early
    <2>5. OnConnection \in {{}, {"main"}, {"database"}}
      BY <2>1, <2>3, <2>4 DEF OnConnection
    <2>6. Cardinality({}) = 0 /\ Cardinality({"main"}) = 1 /\ Cardinality({"database"}) = 1
      BY FS_EmptySet, FS_Singleton
    <2> QED BY <2>5, <2>6
  <1>3. Shape /\ DatabaseUnstarted => OneOnConnection
    BY <1>2 DEF OneOnConnection
  <1> QED BY <1>1, <1>3, DatabaseUnstartedNext, ShapeCorrect, PTL DEF Spec

-----------------------------------------------------------------------------
(* Who is left online.                                                     *)

\* After the last DisconnectAllUsers the database thread starts no task, and everyone is
\* offline unless the statement failed or the thread was at a task then.
Swept == main.pc \in {"join db", "delete", "done"} /\ db \notin {"none", "made"} =>
            /\ ~dbRunning
            /\ ~late => db \in {"loop", "reply", "done"} /\ (online => unswept)

\* Every step keeps that.
LEMMA SweptNext == Shape /\ Swept /\ [Next]_vars => Swept'
  <1> SUFFICES ASSUME Shape, Swept, [Next]_vars PROVE Swept'
    OBVIOUS
  <1> DEFINE Last == {"join db", "delete", "done"}
  <1>1. CASE Initialize \/ Run
    <2>1. main'.pc \notin Last
      BY <1>1, EarlyStep DEF Shape, Early
    <2> QED BY <2>1 DEF Swept
  <1>2. CASE Exit \/ MainStop \/ Reset \/ DisconnectAgain
    BY <1>2, StopStep DEF Shape, StopPcs, Swept
  <1>3. CASE JoinHandler \/ StopDatabase \/ JoinCleaner
    BY <1>3, JoinStep DEF Shape, Swept
  <1>4. CASE DestroyQueues
    BY <1>4, JoinStep DEF Shape, DestroyQueues, threads, Swept
  <1>5. CASE StopDatabaseAgain
    <2>1. PICK fails \in BOOLEAN : DisconnectAllUsers(fails) /\ unswept' = fails
      BY <1>5 DEF StopDatabaseAgain
    <2>2. db # "none" => (online' => unswept')
      BY <2>1, Zenon DEF DisconnectAllUsers
    <2>3. /\ ~dbRunning' /\ db' = db
          /\ late' = (db \in {"poll", "sql"})
      BY <1>5 DEF StopDatabaseAgain, threads
    <2> QED BY <2>2, <2>3 DEF Swept, Shape, DatabaseType
  <1>6. CASE JoinDatabase \/ Delete
    <2>1. main.pc \in Last /\ UNCHANGED <<db, dbRunning, online, late, unswept>>
      BY <1>6 DEF JoinDatabase, Delete, threads, flags, sweep
    <2> QED BY <2>1 DEF Swept
  <1>7. CASE Others
    <2>1. main' = main
      BY <1>7, OthersStep
    <2>2. CASE \E p \in Consoles : ConsoleStop(p)
      <3>1. /\ UNCHANGED <<db, dbRunning, late, unswept>> /\ online' \in {online, FALSE}
        BY <2>2, StopWrites DEF ConsoleStop, threads, sweep, Shape
      <3> QED BY <2>1, <3>1 DEF Swept
    <2>3. CASE DatabaseStep
      <3>1. CASE DatabaseLoop
        BY <2>1, <3>1 DEF DatabaseLoop, flags, sweep, Swept
      <3>2. CASE DatabasePoll \/ DatabaseTask
        BY <2>1, <3>2 DEF DatabasePoll, DatabaseTask, flags, sweep, Swept
      <3>3. CASE DatabaseReply
        BY <2>1, <3>3 DEF DatabaseReply, flags, sweep, Swept
      <3> QED BY <2>3, <3>1, <3>2, <3>3 DEF DatabaseStep
    <2>4. CASE \/ HandlerStep \/ CleanerStep \/ ClearWorkers
               \/ (\E w \in Workers : WorkerEnds(w)) \/ (\E p \in Consoles : ConsoleEvent(p))
               \/ UNCHANGED vars
      <3>1. UNCHANGED <<db, dbRunning, online, late, unswept>>
        BY <2>4 DEF ConsoleEvent, HandlerStep, HandlerLoop, HandlerFind, HandlerSend, CleanerStep,
           CleanerLoop, CleanerLock, CleanerErase, CleanerUnlock, ClearWorkers, WorkerEnds, vars,
           threads, flags, sweep
      <3> QED BY <2>1, <3>1 DEF Swept
    <2> QED BY <1>7, <2>2, <2>3, <2>4 DEF Others
  <1> QED BY <1>1, <1>2, <1>3, <1>4, <1>5, <1>6, <1>7, Kinds

\* A session survives a server that has ended only because the statement that sets everyone
\* offline failed in ~DatabaseThread (DatabaseThread.cpp:221), or through a task that was under
\* way then (82).
THEOREM LeftOnlineOnlyLate == Spec => []LeftOnline
  <1>1. Init => Swept
    BY DEF Init, Swept
  <1>2. Swept /\ Waited => LeftOnline
    BY DEF Swept, Waited, Deleted, LeftOnline
  <1> QED BY <1>1, <1>2, SweptNext, WaitedCorrect, ShapeCorrect, PTL DEF Spec
=============================================================================
