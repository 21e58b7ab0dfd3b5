------------------------ MODULE DatabaseThreadProofs ------------------------
(***************************************************************************)
(* Proofs about DatabaseThread, for every set of sockets, ids and names,   *)
(* every subset of the task kinds and of the ways a statement may end.     *)
(* The first lemmas say what one task can do to each table; the theorems   *)
(* then need no look at the handlers.                                      *)
(***************************************************************************)
EXTENDS DatabaseThread, TLAPS

\* A task's kind tells its shape.
LEMMA TaskShape ==
    ASSUME NEW t \in Tasks
    PROVE  /\ t.kind = "Login" => t \in LoginTask
           /\ t.kind = "Logout" => t \in LogoutTask
           /\ t.kind = "CreateAccount" => t \in CreateAccountTask
           /\ t.kind = "CreateGameServer" => t \in CreateGameServerTask
           /\ t.kind = "GameServerList" => t \in GameServerListTask
           /\ t.kind = "JoinGameServer" => t \in JoinGameServerTask
           /\ t.kind = "CloseGameServer" => t \in CloseGameServerTask
           /\ t.kind = "ClientDisconnected" => t \in ClientDisconnectedTask
           /\ t.socket \in Sockets
  BY DEF Tasks, LoginTask, LogoutTask, CreateAccountTask, CreateGameServerTask,
         GameServerListTask, JoinGameServerTask, CloseGameServerTask,
         ClientDisconnectedTask, MalformedTask

\* what a client may send
Requests == {t \in Tasks : t.kind # "ClientDisconnected"}

\* A request that comes over another handle is still a request.
LEMMA OverAnyHandle ==
    ASSUME NEW t \in Requests, NEW k \in Sockets
    PROVE  /\ [t EXCEPT !.socket = k] \in Requests
           /\ [t EXCEPT !.socket = k].socket = k
           /\ [t EXCEPT !.socket = k].kind = t.kind
  <1> DEFINE r == [t EXCEPT !.socket = k]
  <1>1. t \in Tasks /\ t.kind # "ClientDisconnected" /\ t.kind \in Kinds
    BY DEF Requests, Tasks
  <1>2. CASE t \in LoginTask
    BY <1>1, <1>2 DEF Requests, Tasks, LoginTask
  <1>3. CASE t \in LogoutTask
    BY <1>1, <1>3 DEF Requests, Tasks, LogoutTask
  <1>4. CASE t \in CreateAccountTask
    BY <1>1, <1>4 DEF Requests, Tasks, CreateAccountTask
  <1>5. CASE t \in CreateGameServerTask
    BY <1>1, <1>5 DEF Requests, Tasks, CreateGameServerTask
  <1>6. CASE t \in GameServerListTask
    BY <1>1, <1>6 DEF Requests, Tasks, GameServerListTask
  <1>7. CASE t \in JoinGameServerTask
    BY <1>1, <1>7 DEF Requests, Tasks, JoinGameServerTask
  <1>8. CASE t \in CloseGameServerTask
    BY <1>1, <1>8 DEF Requests, Tasks, CloseGameServerTask
  <1>9. CASE t \in MalformedTask
    BY <1>1, <1>9 DEF Requests, Tasks, MalformedTask
  <1> QED BY <1>1, <1>2, <1>3, <1>4, <1>5, <1>6, <1>7, <1>8, <1>9
          DEF Tasks, ClientDisconnectedTask

\* What one task can do to the users table: nothing, or one new row.
LEMMA UserStep ==
    ASSUME NEW t \in Tasks, ProcessTask(t)
    PROVE  \/ users' = users
           \/ t.name \in Names /\ \E u \in UserIds : InsertUser(u, t.name)
  <1>1. CASE t.kind = "CreateAccount" /\ HandleCreateAccountRequest(t)
    <2>1. t.name \in Names
      BY <1>1, TaskShape DEF CreateAccountTask
    <2>2. CASE AccountNotCreated(t)
      BY <2>1, <2>2 DEF AccountNotCreated
    <2>3. CASE AccountRejected(t) \/ AccountIdUnread(t) \/ AccountCreated(t)
      BY <2>1, <2>3 DEF AccountRejected, AccountIdUnread, AccountCreated, Refuse, tables
    <2> QED BY <1>1, <2>2, <2>3 DEF HandleCreateAccountRequest
  <1>2. CASE t.kind # "CreateAccount"
    <2>1. t.kind = "Login" => users' = users
      BY <1>2 DEF ProcessTask, HandleLoginRequest, LoginRejected, LoginQueryFails,
                  LoginUnknownAccount, LoginDuplicate, LoginAccepted, Refuse, tables, accounts
    <2>2. t.kind = "Logout" => users' = users
      BY <1>2 DEF ProcessTask, HandleLogoutRequest, LogoutUnparsed, LogoutHandled,
                  Refuse, tables, accounts
    <2>3. t.kind = "CreateGameServer" => users' = users
      BY <1>2 DEF ProcessTask, HandleCreateGameServerRequest, GameServerRejected,
                  GameServerNotCreated, GameServerIdUnread, GameServerCreated,
                  Refuse, tables, accounts
    <2>4. t.kind = "JoinGameServer" => users' = users
      BY <1>2 DEF ProcessTask, HandleJoinGameServerRequest, JoinRejected, JoinQueryFails,
                  JoinNotFound, JoinReactivates, JoinActive, Refuse, tables, accounts
    <2>5. t.kind \in {"GameServerList", "CloseGameServer"} => users' = users
      BY <1>2 DEF ProcessTask, HandleGameServerListRequest, ListRejected, ListFails, ListSent,
                  HandleCloseGameServerRequest, CloseRejected, CloseHandled,
                  Refuse, tables, accounts
    <2>6. t.kind \in {"ClientDisconnected", "Malformed"} => users' = users
      BY <1>2 DEF ProcessTask, HandleClientDisconnected, DropMalformed, tables, accounts
    <2> QED BY <1>2, <2>1, <2>2, <2>3, <2>4, <2>5, <2>6 DEF ProcessTask
  <1> QED BY <1>1, <1>2 DEF ProcessTask

\* What one task can do to user_sessions: nothing, end a user's session, open one for a
\* user who has none at the socket of the request, or end every session of a socket.
LEMMA SessionStep ==
    ASSUME NEW t \in Tasks, ProcessTask(t)
    PROVE  \/ user_sessions' = user_sessions
           \/ \E u \in UserIds : user_sessions' = SetUserOnlineStatus(u, Offline)
           \/ \E u \in UserIds :
                 /\ t.name \in Names
                 /\ users[u] = t.name
                 /\ ~user_sessions[u].is_online
                 /\ user_sessions' = SetUserOnlineStatus(u, NewSession(t.socket))
           \/ user_sessions' = CleanupUserSessionBySocket(t.socket)
  <1>1. CASE t.kind = "Login" /\ HandleLoginRequest(t)
    <2>1. t.name \in Names
      BY <1>1, TaskShape DEF LoginTask
    <2>2. CASE LoginDuplicate(t)
      BY <2>2 DEF LoginDuplicate, AccountsMatching
    <2>3. CASE LoginAccepted(t)
      BY <2>1, <2>3 DEF LoginAccepted, AccountsMatching
    <2>4. CASE LoginRejected(t) \/ LoginQueryFails(t) \/ LoginUnknownAccount(t)
      BY <2>4 DEF LoginRejected, LoginQueryFails, LoginUnknownAccount, Refuse, tables
    <2> QED BY <1>1, <2>2, <2>3, <2>4 DEF HandleLoginRequest
  <1>2. CASE t.kind = "Logout" /\ HandleLogoutRequest(t)
    <2>1. t.user \in UserIds
      BY <1>2, TaskShape DEF LogoutTask
    <2> QED BY <1>2, <2>1 DEF HandleLogoutRequest, LogoutUnparsed, LogoutHandled, Refuse, tables
  <1>3. CASE t.kind = "CreateAccount" /\ HandleCreateAccountRequest(t)
    BY <1>3 DEF HandleCreateAccountRequest, AccountRejected, AccountNotCreated,
                AccountIdUnread, AccountCreated, Refuse, tables
  <1>4. CASE t.kind = "CreateGameServer" /\ HandleCreateGameServerRequest(t)
    BY <1>4 DEF HandleCreateGameServerRequest, GameServerRejected, GameServerNotCreated,
                GameServerIdUnread, GameServerCreated, Refuse, tables
  <1>5. CASE t.kind = "GameServerList" /\ HandleGameServerListRequest(t)
    BY <1>5 DEF HandleGameServerListRequest, ListRejected, ListFails, ListSent, Refuse, tables
  <1>6. CASE t.kind = "JoinGameServer" /\ HandleJoinGameServerRequest(t)
    BY <1>6 DEF HandleJoinGameServerRequest, JoinRejected, JoinQueryFails, JoinNotFound,
                JoinReactivates, JoinActive, Refuse, tables
  <1>7. CASE t.kind = "CloseGameServer" /\ HandleCloseGameServerRequest(t)
    BY <1>7 DEF HandleCloseGameServerRequest, CloseRejected, CloseHandled, Refuse, tables
  <1>8. CASE t.kind = "ClientDisconnected" /\ HandleClientDisconnected(t)
    BY <1>8 DEF HandleClientDisconnected
  <1>9. CASE t.kind = "Malformed" /\ DropMalformed(t)
    BY <1>9 DEF DropMalformed, tables
  <1> QED BY <1>1, <1>2, <1>3, <1>4, <1>5, <1>6, <1>7, <1>8, <1>9 DEF ProcessTask

\* What one task can do to game_servers: nothing, deactivate some rows, insert an active
\* row for an account that exists, or reactivate a row for its owner.
LEMMA ServerStep ==
    ASSUME NEW t \in Tasks, ProcessTask(t)
    PROVE  \/ game_servers' = game_servers
           \/ \E S \in SUBSET ServerIds : game_servers' = Deactivate(S)
           \/ /\ t.kind = "CreateGameServer"
              /\ t.user \in UserIds
              /\ t.server_name \in ServerNames
              /\ MayCreate(t)
              /\ \E s \in ServerIds : InsertServer(s, t)
           \/ /\ t.kind = "JoinGameServer"
              /\ t.user \in UserIds
              /\ t.server \in ServerIds
              /\ ServerExists(t.server)
              /\ ~game_servers[t.server].is_active
              /\ IsOwner(t)
              /\ game_servers' = Reactivate(t)
  <1>1. CASE t.kind = "Login" /\ HandleLoginRequest(t)
    BY <1>1 DEF HandleLoginRequest, LoginRejected, LoginQueryFails, LoginUnknownAccount,
                LoginDuplicate, LoginAccepted, Refuse, tables
  <1>2. CASE t.kind = "Logout" /\ HandleLogoutRequest(t)
    BY <1>2 DEF HandleLogoutRequest, LogoutUnparsed, LogoutHandled, ServersOwnedBy, Refuse, tables
  <1>3. CASE t.kind = "CreateAccount" /\ HandleCreateAccountRequest(t)
    BY <1>3 DEF HandleCreateAccountRequest, AccountRejected, AccountNotCreated,
                AccountIdUnread, AccountCreated, Refuse, tables
  <1>4. CASE t.kind = "CreateGameServer" /\ HandleCreateGameServerRequest(t)
    <2>1. t.user \in UserIds /\ t.server_name \in ServerNames
      BY <1>4, TaskShape DEF CreateGameServerTask
    <2>2. CASE GameServerRejected(t)
      BY <2>2 DEF GameServerRejected, Refuse, tables
    <2>3. CASE GameServerNotCreated(t)
      BY <1>4, <2>1, <2>3 DEF GameServerNotCreated
    <2>4. CASE GameServerIdUnread(t)
      BY <1>4, <2>1, <2>4 DEF GameServerIdUnread
    <2>5. CASE GameServerCreated(t)
      BY <1>4, <2>1, <2>5 DEF GameServerCreated
    <2> QED BY <1>4, <2>2, <2>3, <2>4, <2>5 DEF HandleCreateGameServerRequest
  <1>5. CASE t.kind = "GameServerList" /\ HandleGameServerListRequest(t)
    BY <1>5 DEF HandleGameServerListRequest, ListRejected, ListFails, ListSent, Refuse, tables
  <1>6. CASE t.kind = "JoinGameServer" /\ HandleJoinGameServerRequest(t)
    <2>1. t.user \in UserIds /\ t.server \in ServerIds
      BY <1>6, TaskShape DEF JoinGameServerTask
    <2>2. CASE JoinReactivates(t)
      BY <1>6, <2>1, <2>2 DEF JoinReactivates
    <2>3. CASE JoinRejected(t) \/ JoinQueryFails(t) \/ JoinNotFound(t) \/ JoinActive(t)
      BY <2>3 DEF JoinRejected, JoinQueryFails, JoinNotFound, JoinActive, Refuse, tables
    <2> QED BY <1>6, <2>2, <2>3 DEF HandleJoinGameServerRequest
  <1>7. CASE t.kind = "CloseGameServer" /\ HandleCloseGameServerRequest(t)
    <2>1. t.server \in ServerIds
      BY <1>7, TaskShape DEF CloseGameServerTask
    <2> QED BY <1>7, <2>1 DEF HandleCloseGameServerRequest, CloseRejected, CloseHandled,
                              Refuse, tables
  <1>8. CASE t.kind = "ClientDisconnected" /\ HandleClientDisconnected(t)
    BY <1>8 DEF HandleClientDisconnected, CleanupGameServerBySocket
  <1>9. CASE t.kind = "Malformed" /\ DropMalformed(t)
    BY <1>9 DEF DropMalformed, tables
  <1> QED BY <1>1, <1>2, <1>3, <1>4, <1>5, <1>6, <1>7, <1>8, <1>9 DEF ProcessTask

\* One task is answered once, with a response of the right shape that names it, or not
\* at all if it is a disconnection or no packet.
LEMMA ReplyStep ==
    ASSUME NEW t \in Tasks, ProcessTask(t)
    PROVE  \/ reply' = NoReply /\ t.kind \in {"ClientDisconnected", "Malformed"}
           \/ reply' \in Reply /\ reply'.task = t
  <1> DEFINE Answered == reply' \in Reply /\ reply'.task = t
  <1>a. ASSUME NEW result \in ResultCodes, NEW id \in UserIds \cup ServerIds \cup {NoId},
               SendResponse(t, result, id)
        PROVE  Answered
    BY <1>a DEF SendResponse, Reply
  <1>b. ASSUME NEW result \in ResultCodes, SendErrorResponse(t, result)
        PROVE  Answered
    BY <1>b DEF SendErrorResponse, Reply
  <1>c. ASSUME NEW id \in UserIds \cup ServerIds, NEW q
        PROVE  LastInsertId(id, q) \in UserIds \cup ServerIds \cup {NoId}
    BY DEF LastInsertId
  <1> SUFFICES (reply' = NoReply /\ t.kind \in {"ClientDisconnected", "Malformed"}) \/ Answered
    OBVIOUS
  <1> HIDE DEF Answered
  <1>1. CASE t.kind = "Login" /\ HandleLoginRequest(t)
    BY <1>a, <1>b, <1>1 DEF HandleLoginRequest, LoginRejected, LoginQueryFails,
       LoginUnknownAccount, LoginDuplicate, LoginAccepted, AccountsMatching, Refuse, ResultCodes
  <1>2. CASE t.kind = "Logout" /\ HandleLogoutRequest(t)
    BY <1>a, <1>b, <1>2 DEF HandleLogoutRequest, LogoutUnparsed, LogoutHandled, Refuse, ResultCodes
  <1>3. CASE t.kind = "CreateAccount" /\ HandleCreateAccountRequest(t)
    BY <1>a, <1>b, <1>c, <1>3 DEF HandleCreateAccountRequest, AccountRejected,
       AccountNotCreated, AccountIdUnread, AccountCreated, Refuse, ResultCodes
  <1>4. CASE t.kind = "CreateGameServer" /\ HandleCreateGameServerRequest(t)
    BY <1>a, <1>b, <1>c, <1>4 DEF HandleCreateGameServerRequest, GameServerRejected,
       GameServerNotCreated, GameServerIdUnread, GameServerCreated, Refuse, ResultCodes
  <1>5. CASE t.kind = "GameServerList" /\ HandleGameServerListRequest(t)
    BY <1>a, <1>b, <1>5 DEF HandleGameServerListRequest, ListRejected, ListFails, ListSent,
       Refuse, ResultCodes
  <1>6. CASE t.kind = "JoinGameServer" /\ HandleJoinGameServerRequest(t)
    BY <1>a, <1>b, <1>6 DEF HandleJoinGameServerRequest, JoinRejected, JoinQueryFails,
       JoinNotFound, JoinReactivates, JoinActive, Refuse, ResultCodes
  <1>7. CASE t.kind = "CloseGameServer" /\ HandleCloseGameServerRequest(t)
    BY <1>a, <1>b, <1>7 DEF HandleCloseGameServerRequest, CloseRejected, CloseHandled,
       Refuse, ResultCodes
  <1>8. CASE t.kind = "ClientDisconnected" /\ HandleClientDisconnected(t)
    BY <1>8 DEF HandleClientDisconnected
  <1>9. CASE t.kind = "Malformed" /\ DropMalformed(t)
    BY <1>9 DEF DropMalformed
  <1> QED BY <1>1, <1>2, <1>3, <1>4, <1>5, <1>6, <1>7, <1>8, <1>9 DEF ProcessTask

\* Whose session one task can touch: of the account it logs in or out, or of the socket
\* whose connection has ended.
LEMMA SessionByKind ==
    ASSUME TypeOK, NEW t \in Tasks, ProcessTask(t), NEW u \in UserIds
    PROVE  \/ user_sessions'[u] = user_sessions[u]
           \/ t.kind = "Login" /\ t.name = users[u]
           \/ t.kind = "Logout" /\ t.user = u
           \/ t.kind = "ClientDisconnected" /\ u \in OnlineAt(t.socket)
  <1>0. user_sessions \in [UserIds -> Session]
    BY DEF TypeOK
  <1>1. CASE t.kind = "Login" /\ HandleLoginRequest(t)
    BY <1>0, <1>1 DEF HandleLoginRequest, LoginRejected, LoginQueryFails, LoginUnknownAccount,
       LoginDuplicate, LoginAccepted, AccountsMatching, SetUserOnlineStatus, Refuse, tables
  <1>2. CASE t.kind = "Logout" /\ HandleLogoutRequest(t)
    BY <1>0, <1>2 DEF HandleLogoutRequest, LogoutUnparsed, LogoutHandled, SetUserOnlineStatus,
       Refuse, tables
  <1>3. CASE t.kind = "ClientDisconnected" /\ HandleClientDisconnected(t)
    BY <1>0, <1>3 DEF HandleClientDisconnected, CleanupUserSessionBySocket
  <1>4. CASE t.kind = "CreateAccount" /\ HandleCreateAccountRequest(t)
    BY <1>4 DEF HandleCreateAccountRequest, AccountRejected, AccountNotCreated,
                AccountIdUnread, AccountCreated, Refuse, tables
  <1>5. CASE t.kind = "CreateGameServer" /\ HandleCreateGameServerRequest(t)
    BY <1>5 DEF HandleCreateGameServerRequest, GameServerRejected, GameServerNotCreated,
                GameServerIdUnread, GameServerCreated, Refuse, tables
  <1>6. CASE t.kind = "GameServerList" /\ HandleGameServerListRequest(t)
    BY <1>6 DEF HandleGameServerListRequest, ListRejected, ListFails, ListSent, Refuse, tables
  <1>7. CASE t.kind = "JoinGameServer" /\ HandleJoinGameServerRequest(t)
    BY <1>7 DEF HandleJoinGameServerRequest, JoinRejected, JoinQueryFails, JoinNotFound,
                JoinReactivates, JoinActive, Refuse, tables
  <1>8. CASE t.kind = "CloseGameServer" /\ HandleCloseGameServerRequest(t)
    BY <1>8 DEF HandleCloseGameServerRequest, CloseRejected, CloseHandled, Refuse, tables
  <1>9. CASE t.kind = "Malformed" /\ DropMalformed(t)
    BY <1>9 DEF DropMalformed, tables
  <1> QED BY <1>1, <1>2, <1>3, <1>4, <1>5, <1>6, <1>7, <1>8, <1>9 DEF ProcessTask

\* A login that succeeds is told the id of an account.
LEMMA LoginAnswer ==
    ASSUME NEW t \in Tasks, ProcessTask(t), t.kind = "Login", reply' # NoReply,
           reply'.result = "SUCCESS"
    PROVE  reply'.id \in UserIds
  <1>1. HandleLoginRequest(t)
    BY DEF ProcessTask
  <1>2. CASE LoginAccepted(t)
    BY <1>2 DEF LoginAccepted, AccountsMatching, SendResponse, SendErrorResponse
  <1>3. CASE LoginDuplicate(t)
    BY <1>3 DEF LoginDuplicate, SendResponse
  <1>4. CASE LoginRejected(t) \/ LoginQueryFails(t) \/ LoginUnknownAccount(t)
    BY <1>4 DEF LoginRejected, LoginQueryFails, LoginUnknownAccount, Refuse, SendErrorResponse
  <1> QED BY <1>1, <1>2, <1>3, <1>4 DEF HandleLoginRequest

\* The same, for a step of the whole process.
LEMMA SessionNext ==
    ASSUME [Next]_vars
    PROVE  \/ user_sessions' = user_sessions
           \/ \E u \in UserIds : user_sessions' = SetUserOnlineStatus(u, Offline)
           \/ \E u \in UserIds, k \in Sockets :
                 /\ users[u] \in Names
                 /\ ~user_sessions[u].is_online
                 /\ user_sessions' = SetUserOnlineStatus(u, NewSession(k))
           \/ \E k \in Sockets : user_sessions' = CleanupUserSessionBySocket(k)
           \/ user_sessions' = AllOffline
  <1>1. CASE Run
    <2>1. PICK t \in Tasks : ProcessTask(t)
      BY <1>1 DEF Run
    <2>2. t.socket \in Sockets
      BY TaskShape
    <2> QED BY <2>1, <2>2, SessionStep
  <1>2. CASE ConnectDB \/ DisconnectAllUsers
    BY <1>2 DEF ConnectDB, DisconnectAllUsers
  <1>3. CASE Stop \/ Crash \/ UNCHANGED vars
    BY <1>3 DEF Stop, Crash, vars, tables
  <1> QED BY <1>1, <1>2, <1>3 DEF Next

\* The users table under a step of the whole process: only a task can change it.
LEMMA UserNext ==
    ASSUME [Next]_vars
    PROVE  users' = users \/ \E u \in UserIds, n \in Names : InsertUser(u, n)
  <1>1. CASE Run
    BY <1>1, UserStep DEF Run
  <1>2. CASE ConnectDB \/ DisconnectAllUsers
    BY <1>2 DEF ConnectDB, DisconnectAllUsers, accounts
  <1>3. CASE Stop \/ Crash \/ UNCHANGED vars
    BY <1>3 DEF Stop, Crash, vars, tables
  <1> QED BY <1>1, <1>2, <1>3 DEF Next

\* The game_servers table under a step of the whole process.
LEMMA ServerRowNext ==
    ASSUME [Next]_vars
    PROVE  \/ game_servers' = game_servers
           \/ \E S \in SUBSET ServerIds : game_servers' = Deactivate(S)
           \/ \E t \in Tasks, s \in ServerIds :
                 /\ t.socket \in Sockets
                 /\ t.kind = "CreateGameServer"
                 /\ t.user \in UserIds
                 /\ t.server_name \in ServerNames
                 /\ MayCreate(t)
                 /\ InsertServer(s, t)
                 /\ reply' \in Reply
                 /\ reply'.task = t
           \/ \E t \in Tasks :
                 /\ t.socket \in Sockets
                 /\ t.kind = "JoinGameServer"
                 /\ t.user \in UserIds
                 /\ t.server \in ServerIds
                 /\ ServerExists(t.server)
                 /\ ~game_servers[t.server].is_active
                 /\ IsOwner(t)
                 /\ game_servers' = Reactivate(t)
                 /\ reply' \in Reply
                 /\ reply'.task = t
  <1>1. CASE Run
    <2>1. PICK t \in Tasks : ProcessTask(t)
      BY <1>1 DEF Run
    <2>2. t.socket \in Sockets
      BY TaskShape
    <2>3. CASE t.kind \in {"CreateGameServer", "JoinGameServer"}
      BY <2>1, <2>2, <2>3, ServerStep, ReplyStep
    <2>4. CASE t.kind \notin {"CreateGameServer", "JoinGameServer"}
      BY <2>1, <2>4, ServerStep
    <2> QED BY <2>3, <2>4
  <1>2. CASE ConnectDB \/ DisconnectAllUsers
    BY <1>2 DEF ConnectDB, DisconnectAllUsers
  <1>3. CASE Stop \/ Crash \/ UNCHANGED vars
    BY <1>3 DEF Stop, Crash, vars, tables
  <1> QED BY <1>1, <1>2, <1>3 DEF Next

-----------------------------------------------------------------------------

\* The tables of DBQuary.txt have the types of TypeOK.
LEMMA TypeInit == Init => TypeOK
  BY DEF Init, InitTables, TypeOK, AllOffline, Offline, NoServer, Session, GameServer

\* The rows of player_data and player_inventory are those of users.
LEMMA PlayerRowsNext ==
    ASSUME TypeOK, [Next]_vars
    PROVE  player_data' \subseteq UserIds /\ player_inventory' \subseteq UserIds
  <1>0. player_data \subseteq UserIds /\ player_inventory \subseteq UserIds
    BY DEF TypeOK
  <1>1. ASSUME NEW t \in Tasks, ProcessTask(t)
        PROVE  \/ UNCHANGED <<player_data, player_inventory>>
               \/ \E u \in UserIds, q \in QueryOutcomes : CreateDefaultPlayerData(LastInsertId(u, q))
    <2>1. CASE t.kind = "CreateAccount"
      BY <1>1, <2>1 DEF ProcessTask, HandleCreateAccountRequest, AccountRejected,
         AccountNotCreated, AccountIdUnread, AccountCreated, Refuse, tables
    <2>2. CASE t.kind = "Login"
      BY <1>1, <2>2 DEF ProcessTask, HandleLoginRequest, LoginRejected, LoginQueryFails,
         LoginUnknownAccount, LoginDuplicate, LoginAccepted, Refuse, tables, accounts
    <2>3. CASE t.kind = "JoinGameServer"
      BY <1>1, <2>3 DEF ProcessTask, HandleJoinGameServerRequest, JoinRejected, JoinQueryFails,
         JoinNotFound, JoinReactivates, JoinActive, Refuse, tables, accounts
    <2>4. CASE t.kind = "CreateGameServer"
      BY <1>1, <2>4 DEF ProcessTask, HandleCreateGameServerRequest, GameServerRejected,
         GameServerNotCreated, GameServerIdUnread, GameServerCreated, Refuse, tables, accounts
    <2>5. CASE t.kind \in {"Logout", "GameServerList", "CloseGameServer"}
      BY <1>1, <2>5 DEF ProcessTask, HandleLogoutRequest, LogoutUnparsed, LogoutHandled,
         HandleGameServerListRequest, ListRejected, ListFails, ListSent,
         HandleCloseGameServerRequest, CloseRejected, CloseHandled, Refuse, tables, accounts
    <2>6. CASE t.kind \in {"ClientDisconnected", "Malformed"}
      BY <1>1, <2>6 DEF ProcessTask, HandleClientDisconnected, DropMalformed, tables, accounts
    <2> QED BY <1>1, <2>1, <2>2, <2>3, <2>4, <2>5, <2>6 DEF ProcessTask
  <1>2. CASE Run
    <2>1. CASE UNCHANGED <<player_data, player_inventory>>
      BY <1>0, <2>1
    <2>2. ASSUME NEW u \in UserIds, NEW q \in QueryOutcomes,
                 CreateDefaultPlayerData(LastInsertId(u, q))
          PROVE  player_data' \subseteq UserIds /\ player_inventory' \subseteq UserIds
      BY <1>0, <2>2 DEF CreateDefaultPlayerData, LastInsertId
    <2> QED BY <1>1, <1>2, <2>1, <2>2 DEF Run
  <1>3. CASE ConnectDB \/ DisconnectAllUsers \/ Stop \/ Crash \/ UNCHANGED vars
    BY <1>0, <1>3 DEF ConnectDB, DisconnectAllUsers, Stop, Crash, vars, tables, accounts
  <1> QED BY <1>2, <1>3 DEF Next

\* Every step of the process keeps the types.
LEMMA TypeNext == TypeOK /\ [Next]_vars => TypeOK'
  <1> SUFFICES ASSUME TypeOK, [Next]_vars PROVE TypeOK'
    OBVIOUS
  <1>1. users' \in [UserIds -> Names \cup {NoName}]
    BY UserNext DEF TypeOK, InsertUser
  <1>2. player_data' \subseteq UserIds /\ player_inventory' \subseteq UserIds
    BY PlayerRowsNext
  <1>3. user_sessions' \in [UserIds -> Session]
    <2>1. Offline \in Session /\ \A k \in Sockets : NewSession(k) \in Session
      BY DEF Session, Offline, NewSession
    <2>2. user_sessions \in [UserIds -> Session]
      BY DEF TypeOK
    <2> QED BY <2>1, <2>2, SessionNext DEF SetUserOnlineStatus, AllOffline,
                                           CleanupUserSessionBySocket
  <1>4. game_servers' \in [ServerIds -> GameServer]
    <2>1. game_servers \in [ServerIds -> GameServer]
      BY DEF TypeOK
    <2>2. ASSUME NEW S \in SUBSET ServerIds, game_servers' = Deactivate(S)
          PROVE  game_servers' \in [ServerIds -> GameServer]
      BY <2>1, <2>2 DEF Deactivate, GameServer
    <2>3. ASSUME NEW t \in Tasks, NEW s \in ServerIds, InsertServer(s, t), t.socket \in Sockets,
                 t.user \in UserIds, t.server_name \in ServerNames
          PROVE  game_servers' \in [ServerIds -> GameServer]
      BY <2>1, <2>3 DEF InsertServer, GameServer
    <2>4. ASSUME NEW t \in Tasks, t.server \in ServerIds, game_servers' = Reactivate(t),
                 t.socket \in Sockets
          PROVE  game_servers' \in [ServerIds -> GameServer]
      <3> DEFINE row == [game_servers[t.server] EXCEPT !.is_active = TRUE,
                                                       !.owner_socket = t.socket]
      <3>1. game_servers[t.server] \in GameServer
        BY <2>1, <2>4
      <3>2. row \in GameServer
        BY <2>4, <3>1 DEF GameServer
      <3>3. game_servers' = [game_servers EXCEPT ![t.server] = row]
        BY <2>1, <2>4 DEF Reactivate
      <3> HIDE DEF row
      <3> QED BY <2>1, <3>2, <3>3
    <2> QED BY <2>1, <2>2, <2>3, <2>4, ServerRowNext
  <1>5. phase' \in {"stopped", "running", "stopping", "crashed"}
    BY DEF TypeOK, Next, Run, ConnectDB, DisconnectAllUsers, Stop, Crash, vars
  <1>6. reply' \in Reply \cup {NoReply}
    <2>1. CASE Run
      BY <2>1, ReplyStep DEF Run
    <2>2. CASE ConnectDB \/ DisconnectAllUsers \/ Stop \/ Crash \/ UNCHANGED vars
      BY <2>2 DEF ConnectDB, DisconnectAllUsers, Stop, Crash, vars, TypeOK
    <2> QED BY <2>1, <2>2 DEF Next
  <1> QED BY <1>1, <1>2, <1>3, <1>4, <1>5, <1>6 DEF TypeOK

\* The tables and the response keep their types: no handler stores what its column cannot hold.
THEOREM TypeCorrect == Spec => []TypeOK
  BY TypeInit, TypeNext, PTL DEF Spec

-----------------------------------------------------------------------------
\* An account is never deleted or renamed.
LEMMA UsersGrow ==
    ASSUME TypeOK, [Next]_vars, NEW u \in UserIds, users[u] # NoName
    PROVE  users'[u] = users[u]
  BY UserNext DEF TypeOK, InsertUser

\* Every step keeps the two columns of a session together.
LEMMA SessionBoundNext == TypeOK /\ SessionBound /\ [Next]_vars => SessionBound'
  <1> SUFFICES ASSUME TypeOK, SessionBound, [Next]_vars, NEW u \in UserIds
               PROVE  /\ user_sessions'[u].is_online <=> user_sessions'[u].client_socket # NoSocket
                      /\ user_sessions'[u].is_online => users'[u] # NoName
    BY DEF SessionBound
  <1>1. user_sessions \in [UserIds -> Session]
    BY DEF TypeOK
  <1>2. \/ user_sessions'[u] = user_sessions[u]
        \/ user_sessions'[u] = Offline
        \/ \E k \in Sockets : users[u] \in Names /\ user_sessions'[u] = NewSession(k)
    BY <1>1, SessionNext DEF SetUserOnlineStatus, CleanupUserSessionBySocket, AllOffline
  <1>3. users[u] # NoName => users'[u] # NoName
    BY UsersGrow
  <1>4. user_sessions[u].is_online <=> user_sessions[u].client_socket # NoSocket
    BY DEF SessionBound
  <1>5. user_sessions[u].is_online => users[u] # NoName
    BY DEF SessionBound
  <1>6. CASE user_sessions'[u] = Offline
    BY <1>6 DEF Offline
  <1>7. ASSUME NEW k \in Sockets, users[u] \in Names, user_sessions'[u] = NewSession(k)
        PROVE  /\ user_sessions'[u].is_online /\ user_sessions'[u].client_socket # NoSocket
               /\ users'[u] # NoName
    <2>1. users[u] # NoName /\ k # NoSocket
      BY <1>7, NullsAssumption
    <2> QED BY <1>3, <1>7, <2>1 DEF NewSession
  <1> QED BY <1>2, <1>3, <1>4, <1>5, <1>6, <1>7

\* No session is open in the tables the process starts with.
LEMMA SessionBoundInit == InitTables => SessionBound
  BY DEF InitTables, AllOffline, Offline, SessionBound

\* The two columns of a session agree and its account exists, whatever failed before.
THEOREM SessionsAreBound == Spec => []SessionBound
  <1>1. Init => SessionBound
    BY SessionBoundInit DEF Init
  <1> QED BY <1>1, SessionBoundNext, TypeCorrect, PTL DEF Spec

\* A step leaves an account online only if it leaves its session alone.
LEMMA NotTakenOverNext == TypeOK /\ [Next]_vars => NotTakenOver
  <1> SUFFICES ASSUME TypeOK, [Next]_vars, NEW u \in UserIds,
                      user_sessions[u].is_online, user_sessions'[u].is_online
               PROVE  user_sessions'[u] = user_sessions[u]
    BY DEF NotTakenOver
  <1>1. user_sessions \in [UserIds -> Session]
    BY DEF TypeOK
  <1> QED BY <1>1, SessionNext DEF SetUserOnlineStatus, CleanupUserSessionBySocket,
                                   AllOffline, Offline

\* A client is logged out before another one takes over its account.
THEOREM SessionsAreNotTakenOver == Spec => NoSessionTakeover
  BY NotTakenOverNext, TypeCorrect, PTL DEF Spec, NoSessionTakeover

-----------------------------------------------------------------------------
\* ServerBound for one row.
ServerBoundAt(s) ==
    /\ game_servers[s].is_active => ServerExists(s)
    /\ ServerExists(s) => /\ game_servers[s].owner_socket # NoSocket
                          /\ game_servers[s].owner_user_id \in UserIds
                          /\ users[game_servers[s].owner_user_id] # NoName

\* Every step keeps the rows of the registry bound to accounts and sockets.
LEMMA ServerBoundNext == TypeOK /\ ServerBound /\ [Next]_vars => ServerBound'
  <1> SUFFICES ASSUME TypeOK, ServerBound, [Next]_vars, NEW s \in ServerIds
               PROVE  ServerBoundAt(s)'
    BY DEF ServerBound, ServerBoundAt
  <1>1. game_servers \in [ServerIds -> GameServer] /\ ServerBoundAt(s)
    BY DEF TypeOK, ServerBound, ServerBoundAt
  <1>2. \A u \in UserIds : users[u] # NoName => users'[u] # NoName
    BY UsersGrow
  <1>3. CASE game_servers'[s] = game_servers[s]
    BY <1>1, <1>2, <1>3 DEF ServerBoundAt, ServerExists
  <1>4. CASE game_servers'[s] = [game_servers[s] EXCEPT !.is_active = FALSE]
    BY <1>1, <1>2, <1>4 DEF ServerBoundAt, ServerExists, GameServer
  <1>5. ASSUME NEW t, t.socket \in Sockets, t.user \in UserIds, t.server_name \in ServerNames,
               users[t.user] # NoName,
               game_servers'[s] = [server_name |-> t.server_name, owner_user_id |-> t.user,
                                   owner_socket |-> t.socket, is_active |-> TRUE]
        PROVE  ServerBoundAt(s)'
    BY <1>2, <1>5, NullsAssumption DEF ServerBoundAt, ServerExists
  <1>6. ASSUME NEW t, t.socket \in Sockets, t.user \in UserIds, ServerExists(s),
               game_servers'[s] = [game_servers[s] EXCEPT !.is_active = TRUE,
                                                          !.owner_socket = t.socket]
        PROVE  ServerBoundAt(s)'
    BY <1>1, <1>2, <1>6, NullsAssumption DEF ServerBoundAt, ServerExists, GameServer
  <1>7. ASSUME NEW S \in SUBSET ServerIds, game_servers' = Deactivate(S)
        PROVE  ServerBoundAt(s)'
    BY <1>3, <1>4, <1>7 DEF Deactivate
  <1>8. ASSUME NEW t \in Tasks, NEW r \in ServerIds, InsertServer(r, t), MayCreate(t),
               t.socket \in Sockets, t.user \in UserIds, t.server_name \in ServerNames
        PROVE  ServerBoundAt(s)'
    BY <1>1, <1>3, <1>5, <1>8 DEF InsertServer, MayCreate
  <1>9. ASSUME NEW t \in Tasks, t.server \in ServerIds, game_servers' = Reactivate(t),
               ServerExists(t.server), t.socket \in Sockets, t.user \in UserIds
        PROVE  ServerBoundAt(s)'
    BY <1>1, <1>3, <1>6, <1>9 DEF Reactivate
  <1> QED BY <1>3, <1>7, <1>8, <1>9, ServerRowNext

\* No game server is registered in the tables the process starts with.
LEMMA ServerBoundInit == InitTables => ServerBound
  BY DEF InitTables, NoServer, ServerBound, ServerExists

\* Every row of the registry belongs to an account and names a socket that can hang up.
THEOREM ServersAreBound == Spec => []ServerBound
  <1>1. Init => ServerBound
    BY ServerBoundInit DEF Init
  <1> QED BY <1>1, ServerBoundNext, TypeCorrect, PTL DEF Spec

\* A step that activates a server answers a request of its owner.
LEMMA ActivationNext == TypeOK /\ [Next]_vars => OnlyOwnersActivate
  <1> DEFINE Binds(s) == /\ reply' # NoReply
                         /\ game_servers'[s].owner_socket = reply'.task.socket
                         /\ game_servers'[s].owner_user_id = reply'.task.user
                         /\ \A r \in ServerIds \ {s} : game_servers'[r] = game_servers[r]
  <1>1. ASSUME TypeOK, [Next]_vars, NEW s \in ServerIds,
               ~game_servers[s].is_active, game_servers'[s].is_active
        PROVE  Binds(s)
    <2>1. game_servers \in [ServerIds -> GameServer]
      BY <1>1 DEF TypeOK
    <2>2. ASSUME NEW S \in SUBSET ServerIds, game_servers' = Deactivate(S)
          PROVE  FALSE
      BY <1>1, <2>1, <2>2 DEF Deactivate, GameServer
    <2>3. ASSUME NEW t \in Tasks, NEW r \in ServerIds, InsertServer(r, t),
                 reply' \in Reply, reply'.task = t
          PROVE  Binds(s)
      <3>1. s = r
        BY <1>1, <2>1, <2>3 DEF InsertServer
      <3> QED BY <2>1, <2>3, <3>1, NoReplyAssumption DEF InsertServer
    <2>4. ASSUME NEW t \in Tasks, t.server \in ServerIds, IsOwner(t),
                 game_servers' = Reactivate(t), reply' \in Reply, reply'.task = t
          PROVE  Binds(s)
      <3>1. s = t.server
        BY <1>1, <2>1, <2>4 DEF Reactivate
      <3> QED BY <2>1, <2>4, <3>1, NoReplyAssumption DEF Reactivate, IsOwner, GameServer
    <2> QED BY <1>1, <2>2, <2>3, <2>4, ServerRowNext
  <1> QED BY <1>1 DEF OnlyOwnersActivate, ActivatedByOwner

\* No server comes up without a request of its owner, at the socket of that request.
THEOREM ActivationsAreOwners == Spec => ActivationBindsSocket
  BY ActivationNext, TypeCorrect, PTL DEF Spec, ActivationBindsSocket

\* A step that gives two active servers one name is a rejoin.
LEMMA CreationNext == TypeOK /\ [Next]_vars => OnlyRejoinsDuplicate
  <1>1. ASSUME TypeOK, [Next]_vars, ActiveNamesUnique, ~ActiveNamesUnique'
        PROVE  reply' # NoReply /\ reply'.task.kind = "JoinGameServer"
    <2>1. game_servers \in [ServerIds -> GameServer]
      BY <1>1 DEF TypeOK
    <2>2. CASE game_servers' = game_servers
      BY <1>1, <2>2 DEF ActiveNamesUnique
    <2>3. ASSUME NEW S \in SUBSET ServerIds, game_servers' = Deactivate(S)
          PROVE  FALSE
      <3>1. \A s \in ServerIds : /\ game_servers'[s].is_active => game_servers[s].is_active
                                 /\ game_servers'[s].server_name = game_servers[s].server_name
        BY <2>1, <2>3 DEF Deactivate, GameServer
      <3> QED BY <1>1, <3>1 DEF ActiveNamesUnique
    <2>4. ASSUME NEW t \in Tasks, NEW r \in ServerIds, InsertServer(r, t), MayCreate(t)
          PROVE  FALSE
      <3>1. \A s \in ServerIds \ {r} : game_servers'[s] = game_servers[s]
        BY <2>1, <2>4 DEF InsertServer
      <3>2. game_servers'[r].server_name = t.server_name
        BY <2>1, <2>4 DEF InsertServer
      <3>3. \A s \in ServerIds : game_servers[s].is_active
                                 => game_servers[s].server_name # t.server_name
        BY <2>4 DEF MayCreate, ActiveNames
      <3> QED BY <1>1, <3>1, <3>2, <3>3 DEF ActiveNamesUnique
    <2> QED BY <1>1, <2>2, <2>3, <2>4, ServerRowNext, NoReplyAssumption
  <1> QED BY <1>1 DEF OnlyRejoinsDuplicate

\* Two active servers of one name come about only by an owner's rejoin.
THEOREM CreationIsSafe == Spec => CreationKeepsNamesUnique
  BY CreationNext, TypeCorrect, PTL DEF Spec, CreationKeepsNamesUnique

-----------------------------------------------------------------------------
\* At the start nobody is logged in anywhere.
LEMMA LifecycleInit == InitTables => Lifecycle!Init
  BY DEF InitTables, AllOffline, Offline, location, Lifecycle!Init

\* Every step of the process is a step of SessionLifecycle or changes no location.
LEMMA LifecycleNext ==
    ASSUME TypeOK, SessionBound, [Next]_vars
    PROVE  [Lifecycle!Next]_location
  <1>1. user_sessions \in [UserIds -> Session]
    BY DEF TypeOK
  <1>2. CASE user_sessions' = user_sessions
    BY <1>2 DEF location
  <1>3. ASSUME NEW u \in UserIds, user_sessions' = SetUserOnlineStatus(u, Offline)
        PROVE  Lifecycle!LogOut(u)
    BY <1>1, <1>3 DEF Lifecycle!LogOut, location, SetUserOnlineStatus, Offline
  <1>4. ASSUME NEW u \in UserIds, NEW k \in Sockets, ~user_sessions[u].is_online,
               user_sessions' = SetUserOnlineStatus(u, NewSession(k))
        PROVE  Lifecycle!LogIn(u, k)
    BY <1>1, <1>4 DEF Lifecycle!LogIn, location, SetUserOnlineStatus, NewSession
  <1>5. ASSUME NEW k \in Sockets, user_sessions' = CleanupUserSessionBySocket(k)
        PROVE  Lifecycle!HangUp(k)
    BY <1>1, <1>5, NullsAssumption
       DEF Lifecycle!HangUp, location, CleanupUserSessionBySocket, OnlineAt, Offline
  <1>6. CASE user_sessions' = AllOffline
    BY <1>6 DEF Lifecycle!Reset, Lifecycle!Next, location, AllOffline, Offline
  <1> QED BY <1>2, <1>3, <1>4, <1>5, <1>6, SessionNext DEF Lifecycle!Next

\* The session tables implement SessionLifecycle.
THEOREM SessionsImplementLifecycle == Spec => ImplementsLifecycle
  <1>1. TypeOK /\ SessionBound /\ [Next]_vars => [Lifecycle!Next]_location
    BY LifecycleNext
  <1>2. Init => Lifecycle!Init
    BY LifecycleInit DEF Init
  <1> QED BY <1>1, <1>2, TypeCorrect, SessionsAreBound, PTL
          DEF Spec, Lifecycle!Spec, ImplementsLifecycle

-----------------------------------------------------------------------------
\* A handler that refuses, or answers with an error, does not say SUCCESS.
LEMMA RefusalShape ==
    ASSUME NEW t, NEW result, SendErrorResponse(t, result), result # "SUCCESS"
    PROVE  \A kind : ~Acknowledged(kind)'
  BY DEF SendErrorResponse, Acknowledged

\* What a response says.
LEMMA AnswerShape ==
    ASSUME NEW t, NEW result, NEW id, SendResponse(t, result, id)
    PROVE  reply'.task = t /\ reply'.result = result /\ reply'.id = id
  BY DEF SendResponse

\* A login that is told SUCCESS has its session.
LEMMA TruthfulLogin ==
    ASSUME TypeOK, NEW t \in Tasks, t.kind = "Login", HandleLoginRequest(t)
    PROVE  Truthful'
  <1>1. CASE LoginRejected(t) \/ LoginQueryFails(t) \/ LoginUnknownAccount(t)
    BY <1>1, RefusalShape DEF LoginRejected, LoginQueryFails, LoginUnknownAccount, Refuse, Truthful
  <1>2. CASE LoginDuplicate(t)
    BY <1>2, AnswerShape DEF LoginDuplicate, Truthful, Acknowledged
  <1>3. CASE LoginAccepted(t)
    <2>1. PICK u \in AccountsMatching(t), q \in QueryOutcomes :
             /\ user_sessions' = IF Applied(q) THEN SetUserOnlineStatus(u, NewSession(t.socket))
                                               ELSE user_sessions
             /\ IF Succeeded(q) THEN SendResponse(t, "SUCCESS", u)
                                ELSE SendErrorResponse(t, "FAIL")
      BY <1>3 DEF LoginAccepted
    <2>2. u \in UserIds /\ users[u] = t.name /\ users' = users
      BY <1>3 DEF LoginAccepted, AccountsMatching, accounts
    <2>3. CASE Succeeded(q)
      <3>1. user_sessions'[u] = NewSession(t.socket)
        BY <2>1, <2>2, <2>3 DEF Succeeded, Applied, SetUserOnlineStatus, TypeOK
      <3>2. reply'.task = t /\ reply'.id = u
        BY <2>1, <2>3, AnswerShape
      <3> QED BY <2>2, <3>1, <3>2 DEF Truthful, Acknowledged
    <2>4. CASE ~Succeeded(q)
      BY <2>1, <2>4, RefusalShape DEF Truthful
    <2> QED BY <2>3, <2>4
  <1> QED BY <1>1, <1>2, <1>3 DEF HandleLoginRequest

\* A game server that was created under an id the client is told is active and the client's.
LEMMA TruthfulCreate ==
    ASSUME TypeOK, NEW t \in Tasks, t.kind = "CreateGameServer", HandleCreateGameServerRequest(t)
    PROVE  Truthful'
  <1>1. CASE GameServerRejected(t)
    BY <1>1, RefusalShape DEF GameServerRejected, Refuse, Truthful
  <1>2. CASE GameServerNotCreated(t) \/ GameServerIdUnread(t)
    BY <1>2, AnswerShape DEF GameServerNotCreated, GameServerIdUnread, Truthful, Acknowledged
  <1>3. CASE GameServerCreated(t)
    <2>1. PICK s \in ServerIds, q \in QueryOutcomes :
             InsertServer(s, t) /\ SendResponse(t, "SUCCESS", LastInsertId(s, q))
      BY <1>3 DEF GameServerCreated
    <2>2. game_servers'[s] = [server_name |-> t.server_name, owner_user_id |-> t.user,
                              owner_socket |-> t.socket, is_active |-> TRUE]
      BY <2>1 DEF InsertServer, TypeOK
    <2>3. reply'.task = t /\ reply'.id \in {s, NoId}
      BY <2>1, AnswerShape DEF LastInsertId
    <2> QED BY <2>2, <2>3 DEF Truthful, Acknowledged
  <1> QED BY <1>1, <1>2, <1>3 DEF HandleCreateGameServerRequest

\* A game server that may be joined is active.
LEMMA TruthfulJoin ==
    ASSUME TypeOK, NEW t \in Tasks, t.kind = "JoinGameServer", HandleJoinGameServerRequest(t)
    PROVE  Truthful'
  <1>0. t.server \in ServerIds
    BY TaskShape DEF JoinGameServerTask
  <1>1. CASE JoinRejected(t) \/ JoinQueryFails(t)
    BY <1>1, RefusalShape DEF JoinRejected, JoinQueryFails, Refuse, Truthful
  <1>2. CASE JoinNotFound(t)
    BY <1>2, AnswerShape DEF JoinNotFound, Truthful, Acknowledged
  <1>3. CASE JoinReactivates(t)
    <2>1. PICK q \in QueryOutcomes :
             /\ game_servers' = IF Applied(q) THEN Reactivate(t) ELSE game_servers
             /\ IF Succeeded(q) THEN SendResponse(t, "SUCCESS", NoId)
                                ELSE SendErrorResponse(t, "FAIL")
      BY <1>3 DEF JoinReactivates
    <2>2. CASE Succeeded(q)
      <3>1. game_servers'[t.server].is_active
        BY <1>0, <2>1, <2>2 DEF Succeeded, Applied, Reactivate, TypeOK, GameServer
      <3>2. reply'.task = t
        BY <2>1, <2>2, AnswerShape
      <3> QED BY <3>1, <3>2 DEF Truthful, Acknowledged
    <2>3. CASE ~Succeeded(q)
      BY <2>1, <2>3, RefusalShape DEF Truthful
    <2> QED BY <2>2, <2>3
  <1>4. CASE JoinActive(t)
    <2>1. game_servers'[t.server].is_active /\ reply'.task = t
      BY <1>4, AnswerShape DEF JoinActive, tables
    <2> QED BY <2>1 DEF Truthful, Acknowledged
  <1> QED BY <1>1, <1>2, <1>3, <1>4 DEF HandleJoinGameServerRequest

\* A game server that is said to be closed is.
LEMMA TruthfulClose ==
    ASSUME TypeOK, NEW t \in Tasks, t.kind = "CloseGameServer", HandleCloseGameServerRequest(t)
    PROVE  Truthful'
  <1>0. t.server \in ServerIds
    BY TaskShape DEF CloseGameServerTask
  <1>1. CASE CloseRejected(t)
    BY <1>1, RefusalShape DEF CloseRejected, Refuse, Truthful
  <1>2. CASE CloseHandled(t)
    <2>1. PICK q \in QueryOutcomes :
             /\ game_servers' = IF MayClose(t) /\ Applied(q) THEN Deactivate({t.server})
                                                            ELSE game_servers
             /\ IF MayClose(t) /\ Succeeded(q) THEN SendResponse(t, "SUCCESS", NoId)
                                              ELSE SendResponse(t, "NOT_SERVER_OWNER", NoId)
      BY <1>2 DEF CloseHandled
    <2>2. CASE MayClose(t) /\ Succeeded(q)
      <3>1. ~game_servers'[t.server].is_active
        BY <1>0, <2>1, <2>2 DEF Succeeded, Applied, Deactivate, TypeOK, GameServer
      <3>2. reply'.task = t
        BY <2>1, <2>2, AnswerShape
      <3> QED BY <3>1, <3>2 DEF Truthful, Acknowledged
    <2>3. CASE ~(MayClose(t) /\ Succeeded(q))
      BY <2>1, <2>3, AnswerShape DEF Truthful, Acknowledged
    <2> QED BY <2>2, <2>3
  <1> QED BY <1>1, <1>2 DEF HandleCloseGameServerRequest

\* After every step of the thread a SUCCESS says what the tables hold.
LEMMA TruthfulNext == TypeOK /\ Next => Truthful'
  <1>1. ASSUME TypeOK, Next PROVE Truthful'
    <2>1. CASE Run
      <3>1. PICK t \in Tasks : ProcessTask(t)
        BY <2>1 DEF Run
      <3>2. CASE t.kind \notin {"Login", "CreateGameServer", "JoinGameServer", "CloseGameServer"}
        BY <3>1, <3>2, ReplyStep DEF Truthful, Acknowledged
      <3> QED BY <1>1, <3>1, <3>2, TruthfulLogin, TruthfulCreate, TruthfulJoin, TruthfulClose
              DEF ProcessTask
    <2>2. CASE ConnectDB \/ DisconnectAllUsers \/ Stop \/ Crash
      BY <2>2 DEF ConnectDB, DisconnectAllUsers, Stop, Crash, Truthful, Acknowledged
    <2> QED BY <1>1, <2>1, <2>2 DEF Next
  <1> QED BY <1>1

\* What a SUCCESS says is true of the tables when it is sent, whichever statements failed.
THEOREM SuccessIsTruthful == Spec => TruthfulSuccess
  <1>1. TypeOK /\ [Next]_vars => [Truthful']_vars
    BY TruthfulNext
  <1> QED BY <1>1, TypeCorrect, PTL DEF Spec, TruthfulSuccess
=============================================================================
