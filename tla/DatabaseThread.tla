--------------------------- MODULE DatabaseThread ---------------------------
(***************************************************************************)
(* The database thread of the game server (Project1/DatabaseThread.cpp):   *)
(* accounts, login sessions and the registry of player-hosted game servers.*)
(* One Task is processed at a time, each handler is one atomic action that *)
(* runs its SQL statements in order and enqueues at most one response.     *)
(*                                                                         *)
(* Abstractions.  Strings are model values.  A password is the bit "it is  *)
(* the right one".  A row of user_sessions that does not exist reads the   *)
(* same as one that is offline (COALESCE(s.is_online, 0)), so the model    *)
(* keeps no difference between the two.  Ids are AUTO_INCREMENT keys: any  *)
(* unused one may come next, and a full id set stops further inserts       *)
(* (UserIds and ServerIds are the bounds of the model).  A server that is  *)
(* stopped while a task is being processed runs SQL from a second thread   *)
(* on the same MYSQL handle, which is undefined: the statements of Stop    *)
(* fall between two tasks here, never into one.                            *)
(***************************************************************************)
EXTENDS Naturals

CONSTANTS
    Sockets,        \* values of Task::client_socket
    UserIds,        \* keys of users, player_data, user_sessions
    ServerIds,      \* keys of game_servers
    Names,          \* users.username
    ServerNames,    \* game_servers.server_name
    NoSocket,       \* client_socket = 0
    NoName,         \* there is no row
    NoId,           \* the id 0
    NoReply,        \* the last step enqueued no response
    Kinds,          \* the kinds of task that reach the thread
    QueryOutcomes   \* how a statement sent with ExecuteQuery may end

TaskKinds == {"Login", "Logout", "CreateAccount", "CreateGameServer",
              "GameServerList", "JoinGameServer", "CloseGameServer",
              "ClientDisconnected", "Malformed"}

\* "ok":    the statement took effect and the client saw it succeed
\* "error": it had no effect and the client saw it fail
\* "lost":  it took effect, the connection broke before the client knew
\* "fresh": like "ok", on a connection MYSQL_OPT_RECONNECT has just re-opened
Outcomes == {"ok", "error", "lost", "fresh"}

ASSUME KindsAssumption == Kinds \subseteq TaskKinds
ASSUME OutcomesAssumption == QueryOutcomes \subseteq Outcomes /\ "ok" \in QueryOutcomes
ASSUME NullsAssumption == /\ NoSocket \notin Sockets
                          /\ NoName \notin Names \cup ServerNames
                          /\ NoId \notin UserIds \cup ServerIds

VARIABLES
    users,              \* username of each account, NoName where there is none
    player_data,        \* ids with a row in player_data
    player_inventory,   \* ids that were given the default items
    user_sessions,      \* is_online and client_socket of each account
    game_servers,       \* rows of game_servers
    phase,              \* life of the process: stopped, running, stopping, crashed
    reply               \* the response the last step put on SendQueue

tables == <<users, player_data, player_inventory, user_sessions, game_servers>>
accounts == <<users, player_data, player_inventory>>
vars == <<tables, phase, reply>>

-----------------------------------------------------------------------------
(* Tasks: what a worker thread enqueues (Packet.h) once decoded.  valid says *)
(* that the Parse and Validate functions of ServerPacketManager accept it.   *)

LoginTask == [kind : {"Login"}, socket : Sockets, valid : BOOLEAN,
              name : Names, password : BOOLEAN]
LogoutTask == [kind : {"Logout"}, socket : Sockets, valid : BOOLEAN, user : UserIds]
CreateAccountTask == [kind : {"CreateAccount"}, socket : Sockets, valid : BOOLEAN,
                      name : Names]
CreateGameServerTask == [kind : {"CreateGameServer"}, socket : Sockets, valid : BOOLEAN,
                         user : UserIds, server_name : ServerNames]
GameServerListTask == [kind : {"GameServerList"}, socket : Sockets, valid : BOOLEAN]
JoinGameServerTask == [kind : {"JoinGameServer"}, socket : Sockets, valid : BOOLEAN,
                       user : UserIds, server : ServerIds, password : BOOLEAN]
CloseGameServerTask == [kind : {"CloseGameServer"}, socket : Sockets, valid : BOOLEAN,
                        user : UserIds, server : ServerIds]
\* a FlatBuffer ProcessTask drops without an answer: empty, not verifiable, unknown type
MalformedTask == [kind : {"Malformed"}, socket : Sockets]
ClientDisconnectedTask == [kind : {"ClientDisconnected"}, socket : Sockets]

Tasks == {t \in LoginTask \cup LogoutTask \cup CreateAccountTask \cup CreateGameServerTask
                 \cup GameServerListTask \cup JoinGameServerTask \cup CloseGameServerTask
                 \cup MalformedTask \cup ClientDisconnectedTask : t.kind \in Kinds}

ResultCodes == {"SUCCESS", "FAIL", "INVALID_USER", "SERVER_NAME_DUPLICATE",
                "SERVER_NOT_FOUND", "SERVER_PASSWORD_WRONG", "NOT_SERVER_OWNER"}

Session == [is_online : BOOLEAN, client_socket : Sockets \cup {NoSocket}]
GameServer == [server_name : ServerNames \cup {NoName}, owner_user_id : UserIds \cup {NoId},
               owner_socket : Sockets \cup {NoSocket}, is_active : BOOLEAN]
\* DBResponse: task_id names the request, packet is FALSE if response_data is empty
Reply == [task : Tasks, result : ResultCodes, id : UserIds \cup ServerIds \cup {NoId},
          packet : BOOLEAN]

ASSUME NoReplyAssumption == NoReply \notin Reply

Offline == [is_online |-> FALSE, client_socket |-> NoSocket]
NoServer == [server_name |-> NoName, owner_user_id |-> NoId,
             owner_socket |-> NoSocket, is_active |-> FALSE]

-----------------------------------------------------------------------------
(* Statements and responses.                                               *)

Applied(q) == q \in {"ok", "lost", "fresh"}      \* the statement took effect
Succeeded(q) == q \in {"ok", "fresh"}            \* ExecuteQuery returned true

\* The events CreateGenericErrorResponse knows; for any other its vector is empty.
GenericErrorKinds == {"Login", "CreateAccount", "CreateGameServer", "GameServerList",
                      "JoinGameServer", "CloseGameServer"}

SendResponse(t, result, id) ==
    reply' = [task |-> t, result |-> result, id |-> id, packet |-> TRUE]

SendErrorResponse(t, result) ==
    reply' = [task |-> t, result |-> result, id |-> NoId,
              packet |-> t.kind \in GenericErrorKinds]

\* a handler that answers and changes no table
Refuse(t, result) == SendErrorResponse(t, result) /\ UNCHANGED tables

NewSession(socket) == [is_online |-> TRUE, client_socket |-> socket]

SetUserOnlineStatus(u, session) == [user_sessions EXCEPT ![u] = session]

\* UPDATE game_servers SET is_active = FALSE WHERE <S>
Deactivate(S) ==
    [s \in ServerIds |-> IF s \in S THEN [game_servers[s] EXCEPT !.is_active = FALSE]
                                    ELSE game_servers[s]]

ServerExists(s) == game_servers[s].server_name # NoName

-----------------------------------------------------------------------------
(* C2S_Login                                                               *)

\* rows of the login query: at most one, username is UNIQUE
AccountsMatching(t) == {u \in UserIds : users[u] = t.name /\ t.password}

LoginRejected(t) == ~t.valid /\ Refuse(t, "INVALID_USER")

LoginQueryFails(t) ==
    /\ t.valid
    /\ \E q \in QueryOutcomes : ~Succeeded(q)
    /\ Refuse(t, "FAIL")

LoginUnknownAccount(t) ==
    /\ t.valid
    /\ AccountsMatching(t) = {}
    /\ Refuse(t, "INVALID_USER")

\* Mutant: the login goes on after it has logged the first client out.
LoginTakesOver(t) ==
    /\ t.valid
    /\ \E u \in AccountsMatching(t) :
          /\ user_sessions[u].is_online
          /\ user_sessions' = SetUserOnlineStatus(u, NewSession(t.socket))
          /\ SendResponse(t, "SUCCESS", u)
    /\ UNCHANGED <<accounts, game_servers>>

\* Mutant: a refused second login is not answered.
LoginDuplicateUnanswered(t) ==
    /\ t.valid
    /\ \E u \in AccountsMatching(t) :
          /\ user_sessions[u].is_online
          /\ user_sessions' = SetUserOnlineStatus(u, Offline)
    /\ reply' = NoReply
    /\ UNCHANGED <<accounts, game_servers>>

\* Mutant: a second login is refused, and the first session left as it is.
LoginDuplicateKeeps(t) ==
    /\ t.valid
    /\ \E u \in AccountsMatching(t) : user_sessions[u].is_online
    /\ SendResponse(t, "FAIL", NoId)
    /\ UNCHANGED tables

\* ForceLogoutExistingSession; its result is only logged
LoginDuplicate(t) ==
    /\ t.valid
    /\ \E u \in AccountsMatching(t), q \in QueryOutcomes :
          /\ user_sessions[u].is_online
          /\ user_sessions' = IF Applied(q) THEN SetUserOnlineStatus(u, Offline)
                                            ELSE user_sessions
    /\ SendResponse(t, "FAIL", NoId)
    /\ UNCHANGED <<accounts, game_servers>>

\* Mutant: the login does not look at is_online.
LoginAcceptedOnline(t) ==
    /\ t.valid
    /\ \E u \in AccountsMatching(t) :
          /\ user_sessions' = SetUserOnlineStatus(u, NewSession(t.socket))
          /\ SendResponse(t, "SUCCESS", u)
    /\ UNCHANGED <<accounts, game_servers>>

LoginAccepted(t) ==
    /\ t.valid
    /\ \E u \in AccountsMatching(t), q \in QueryOutcomes :
          /\ ~user_sessions[u].is_online
          /\ user_sessions' = IF Applied(q) THEN SetUserOnlineStatus(u, NewSession(t.socket))
                                            ELSE user_sessions
          /\ IF Succeeded(q) THEN SendResponse(t, "SUCCESS", u)
                             ELSE SendErrorResponse(t, "FAIL")
    /\ UNCHANGED <<accounts, game_servers>>

HandleLoginRequest(t) == \/ LoginRejected(t)
                         \/ LoginQueryFails(t)
                         \/ LoginUnknownAccount(t)
                         \/ LoginDuplicate(t)
                         \/ LoginAccepted(t)

-----------------------------------------------------------------------------
(* C2S_Logout: the user id is the one the packet carries.                  *)

ServersOwnedBy(u) == {s \in ServerIds : game_servers[s].owner_user_id = u}

LogoutUnparsed(t) == ~t.valid /\ Refuse(t, "FAIL")

\* Mutant: the logout resets is_online and leaves client_socket.
LogoutKeepsSocket(t) ==
    /\ t.valid
    /\ game_servers' = Deactivate(ServersOwnedBy(t.user))
    /\ user_sessions' = [user_sessions EXCEPT ![t.user].is_online = FALSE]
    /\ SendResponse(t, "SUCCESS", NoId)
    /\ UNCHANGED accounts

LogoutHandled(t) ==
    /\ t.valid
    /\ \E q1, q2 \in QueryOutcomes :
          /\ game_servers' = IF Applied(q1) THEN Deactivate(ServersOwnedBy(t.user))
                                            ELSE game_servers
          /\ user_sessions' = IF Applied(q2) THEN SetUserOnlineStatus(t.user, Offline)
                                             ELSE user_sessions
    /\ SendResponse(t, "SUCCESS", NoId)
    /\ UNCHANGED accounts

HandleLogoutRequest(t) == LogoutUnparsed(t) \/ LogoutHandled(t)

-----------------------------------------------------------------------------
(* C2S_CreateAccount                                                       *)

NameTaken(name) == \E u \in UserIds : users[u] = name

\* INSERT ... WHERE NOT EXISTS, under the UNIQUE key of users.username
InsertUser(u, name) == users[u] = NoName /\ users' = [users EXCEPT ![u] = name]

AccountRejected(t) == ~t.valid /\ Refuse(t, "INVALID_USER")

\* no row was inserted, or the client was not told of it
AccountNotCreated(t) ==
    /\ t.valid
    /\ \/ NameTaken(t.name) /\ UNCHANGED users
       \/ \E q \in QueryOutcomes :
             /\ ~NameTaken(t.name)
             /\ ~Succeeded(q)
             /\ IF Applied(q) THEN \E u \in UserIds : InsertUser(u, t.name)
                              ELSE UNCHANGED users
    /\ SendResponse(t, "FAIL", NoId)
    /\ UNCHANGED <<player_data, player_inventory, user_sessions, game_servers>>

\* SELECT LAST_INSERT_ID() fails: the account stays without its default rows
AccountIdUnread(t) ==
    /\ t.valid
    /\ ~NameTaken(t.name)
    /\ \E q \in QueryOutcomes : ~Succeeded(q)
    /\ \E u \in UserIds : InsertUser(u, t.name)
    /\ SendResponse(t, "FAIL", NoId)
    /\ UNCHANGED <<player_data, player_inventory, user_sessions, game_servers>>

\* Mutant: the tables have no foreign keys, id 0 is inserted too.
DefaultDataOfAnyId(id) ==
    /\ player_data' = player_data \cup {id}
    /\ player_inventory' = player_inventory \cup {id}

\* Three inserts whose results nobody reads.  Id 0 violates their foreign keys.
CreateDefaultPlayerData(id) ==
    \E q1, q2 \in QueryOutcomes :
        /\ player_data' = IF id # NoId /\ Applied(q1) THEN player_data \cup {id}
                                                      ELSE player_data
        /\ player_inventory' = IF id # NoId /\ Applied(q2) THEN player_inventory \cup {id}
                                                           ELSE player_inventory

\* LAST_INSERT_ID() belongs to the connection: it is 0 on a re-opened one
LastInsertId(id, q) == IF q = "fresh" THEN NoId ELSE id

AccountCreated(t) ==
    /\ t.valid
    /\ ~NameTaken(t.name)
    /\ \E u \in UserIds, q \in QueryOutcomes :
          /\ Succeeded(q)
          /\ InsertUser(u, t.name)
          /\ CreateDefaultPlayerData(LastInsertId(u, q))
          /\ SendResponse(t, "SUCCESS", LastInsertId(u, q))
    /\ UNCHANGED <<user_sessions, game_servers>>

HandleCreateAccountRequest(t) == \/ AccountRejected(t)
                                 \/ AccountNotCreated(t)
                                 \/ AccountIdUnread(t)
                                 \/ AccountCreated(t)

-----------------------------------------------------------------------------
(* C2S_CreateGameServer                                                    *)

ActiveNames == {game_servers[s].server_name : s \in {r \in ServerIds : game_servers[r].is_active}}

\* Mutant: the insert does not need the owner's row of player_data.
MayCreateForAnyone(t) == t.server_name \notin ActiveNames

\* Mutant: only the requester's own active servers are searched for the name.
MayCreatePerOwner(t) ==
    /\ users[t.user] # NoName
    /\ \A s \in ServerIds : game_servers[s].is_active /\ game_servers[s].owner_user_id = t.user
                            => game_servers[s].server_name # t.server_name

\* WHERE NOT EXISTS an active namesake; owner_nickname is NOT NULL
MayCreate(t) == users[t.user] # NoName /\ t.server_name \notin ActiveNames

InsertServer(s, t) ==
    /\ ~ServerExists(s)
    /\ game_servers' = [game_servers EXCEPT ![s] =
           [server_name |-> t.server_name, owner_user_id |-> t.user,
            owner_socket |-> t.socket, is_active |-> TRUE]]

GameServerRejected(t) == ~t.valid /\ Refuse(t, "FAIL")

GameServerNotCreated(t) ==
    /\ t.valid
    /\ \/ ~MayCreate(t) /\ UNCHANGED game_servers
       \/ \E q \in QueryOutcomes :
             /\ MayCreate(t)
             /\ ~Succeeded(q)
             /\ IF Applied(q) THEN \E s \in ServerIds : InsertServer(s, t)
                              ELSE UNCHANGED game_servers
    /\ SendResponse(t, "SERVER_NAME_DUPLICATE", NoId)
    /\ UNCHANGED <<accounts, user_sessions>>

\* SELECT LAST_INSERT_ID() fails: the server is active, its owner is told it is not
GameServerIdUnread(t) ==
    /\ t.valid
    /\ MayCreate(t)
    /\ \E q \in QueryOutcomes : ~Succeeded(q)
    /\ \E s \in ServerIds : InsertServer(s, t)
    /\ SendResponse(t, "SERVER_NAME_DUPLICATE", NoId)
    /\ UNCHANGED <<accounts, user_sessions>>

GameServerCreated(t) ==
    /\ t.valid
    /\ MayCreate(t)
    /\ \E s \in ServerIds, q \in QueryOutcomes :
          /\ Succeeded(q)
          /\ InsertServer(s, t)
          /\ SendResponse(t, "SUCCESS", LastInsertId(s, q))
    /\ UNCHANGED <<accounts, user_sessions>>

HandleCreateGameServerRequest(t) == \/ GameServerRejected(t)
                                    \/ GameServerNotCreated(t)
                                    \/ GameServerIdUnread(t)
                                    \/ GameServerCreated(t)

-----------------------------------------------------------------------------
(* C2S_GameServerList                                                      *)

OnlineAt(socket) == {u \in UserIds : /\ user_sessions[u].is_online
                                     /\ user_sessions[u].client_socket = socket}

ListRejected(t) == ~t.valid /\ Refuse(t, "FAIL")

\* the scalar subquery on user_sessions may return at most one row
ListFails(t) ==
    /\ t.valid
    /\ \/ \E q \in QueryOutcomes : ~Succeeded(q)
       \/ \E u, v \in OnlineAt(t.socket) : u # v
    /\ Refuse(t, "FAIL")

ListSent(t) ==
    /\ t.valid
    /\ \A u, v \in OnlineAt(t.socket) : u = v
    /\ SendResponse(t, "SUCCESS", NoId)
    /\ UNCHANGED tables

HandleGameServerListRequest(t) == ListRejected(t) \/ ListFails(t) \/ ListSent(t)

-----------------------------------------------------------------------------
(* C2S_JoinGameServer.  current_players is never written and max_players is *)
(* at least 1, so the check for a full server never refuses.                *)

IsOwner(t) == t.user = game_servers[t.server].owner_user_id

JoinRejected(t) == ~t.valid /\ Refuse(t, "FAIL")

JoinQueryFails(t) ==
    /\ t.valid
    /\ \E q \in QueryOutcomes : ~Succeeded(q)
    /\ Refuse(t, "FAIL")

JoinNotFound(t) ==
    /\ t.valid
    /\ \/ ~ServerExists(t.server)
       \/ ~game_servers[t.server].is_active /\ ~IsOwner(t)
    /\ SendResponse(t, "SERVER_NOT_FOUND", NoId)
    /\ UNCHANGED tables

\* Mutant: the reactivated server keeps the socket of its first start.
ReactivateKeepsSocket(t) == [game_servers EXCEPT ![t.server].is_active = TRUE]

\* the owner's own inactive server comes back, bound to the owner's socket of now
Reactivate(t) ==
    [game_servers EXCEPT ![t.server].is_active = TRUE, ![t.server].owner_socket = t.socket]

\* Mutant: the result of the reactivating update is not looked at.
JoinReactivatesUnchecked(t) ==
    /\ t.valid
    /\ ServerExists(t.server)
    /\ ~game_servers[t.server].is_active
    /\ IsOwner(t)
    /\ \E q \in QueryOutcomes :
          game_servers' = IF Applied(q) THEN Reactivate(t) ELSE game_servers
    /\ SendResponse(t, "SUCCESS", NoId)
    /\ UNCHANGED <<accounts, user_sessions>>

JoinReactivates(t) ==
    /\ t.valid
    /\ ServerExists(t.server)
    /\ ~game_servers[t.server].is_active
    /\ IsOwner(t)
    /\ \E q \in QueryOutcomes :
          /\ game_servers' = IF Applied(q) THEN Reactivate(t) ELSE game_servers
          /\ IF Succeeded(q) THEN SendResponse(t, "SUCCESS", NoId)
                             ELSE SendErrorResponse(t, "FAIL")
    /\ UNCHANGED <<accounts, user_sessions>>

JoinActive(t) ==
    /\ t.valid
    /\ ServerExists(t.server)
    /\ game_servers[t.server].is_active
    /\ IF IsOwner(t) \/ t.password THEN SendResponse(t, "SUCCESS", NoId)
                                   ELSE SendResponse(t, "SERVER_PASSWORD_WRONG", NoId)
    /\ UNCHANGED tables

HandleJoinGameServerRequest(t) == \/ JoinRejected(t)
                                  \/ JoinQueryFails(t)
                                  \/ JoinNotFound(t)
                                  \/ JoinReactivates(t)
                                  \/ JoinActive(t)

-----------------------------------------------------------------------------
(* C2S_CloseGameServer                                                     *)

MayClose(t) == IsOwner(t) /\ game_servers[t.server].is_active

CloseRejected(t) == ~t.valid /\ Refuse(t, "FAIL")

CloseHandled(t) ==
    /\ t.valid
    /\ \E q \in QueryOutcomes :
          /\ game_servers' = IF MayClose(t) /\ Applied(q) THEN Deactivate({t.server})
                                                         ELSE game_servers
          /\ IF MayClose(t) /\ Succeeded(q) THEN SendResponse(t, "SUCCESS", NoId)
                                           ELSE SendResponse(t, "NOT_SERVER_OWNER", NoId)
    /\ UNCHANGED <<accounts, user_sessions>>

HandleCloseGameServerRequest(t) == CloseRejected(t) \/ CloseHandled(t)

-----------------------------------------------------------------------------
(* CLIENT_DISCONNECTED: the socket's servers, then its sessions; no answer. *)

CleanupGameServerBySocket(socket) ==
    Deactivate({s \in ServerIds : game_servers[s].owner_socket = socket})

CleanupUserSessionBySocket(socket) ==
    [u \in UserIds |-> IF u \in OnlineAt(socket) THEN Offline ELSE user_sessions[u]]

\* Mutant: a disconnection ends the socket's servers and forgets its sessions.
DisconnectKeepsSessions(t) ==
    /\ game_servers' = CleanupGameServerBySocket(t.socket)
    /\ reply' = NoReply
    /\ UNCHANGED <<accounts, user_sessions>>

\* Mutant: the clean-up's UPDATE of user_sessions has lost its WHERE.
DisconnectEndsEverySession(t) ==
    /\ game_servers' = CleanupGameServerBySocket(t.socket)
    /\ user_sessions' = [u \in UserIds |-> Offline]
    /\ reply' = NoReply
    /\ UNCHANGED accounts

HandleClientDisconnected(t) ==
    /\ \E q1, q2 \in QueryOutcomes :
          /\ game_servers' = IF Applied(q1) THEN CleanupGameServerBySocket(t.socket)
                                            ELSE game_servers
          /\ user_sessions' = IF Applied(q2) THEN CleanupUserSessionBySocket(t.socket)
                                             ELSE user_sessions
    /\ reply' = NoReply
    /\ UNCHANGED accounts

DropMalformed(t) == reply' = NoReply /\ UNCHANGED tables

-----------------------------------------------------------------------------
(* The thread and the life of the process.                                 *)

ProcessTask(t) ==
    \/ t.kind = "Login" /\ HandleLoginRequest(t)
    \/ t.kind = "Logout" /\ HandleLogoutRequest(t)
    \/ t.kind = "CreateAccount" /\ HandleCreateAccountRequest(t)
    \/ t.kind = "CreateGameServer" /\ HandleCreateGameServerRequest(t)
    \/ t.kind = "GameServerList" /\ HandleGameServerListRequest(t)
    \/ t.kind = "JoinGameServer" /\ HandleJoinGameServerRequest(t)
    \/ t.kind = "CloseGameServer" /\ HandleCloseGameServerRequest(t)
    \/ t.kind = "ClientDisconnected" /\ HandleClientDisconnected(t)
    \/ t.kind = "Malformed" /\ DropMalformed(t)

\* One turn of Run: the thread works as long as _is_running
Run == /\ phase \in {"running", "stopping"}
       /\ \E t \in Tasks : ProcessTask(t)
       /\ UNCHANGED phase

AllOffline == [u \in UserIds |-> Offline]

\* InitializeUserSessions resets the sessions a crash left; game_servers is not touched
ConnectDB ==
    /\ phase \in {"stopped", "crashed"}
    /\ \E q \in QueryOutcomes :
          /\ user_sessions' = IF Applied(q) THEN AllOffline ELSE user_sessions
          /\ phase' = IF Succeeded(q) THEN "running" ELSE phase
    /\ reply' = NoReply
    /\ UNCHANGED <<accounts, game_servers>>

\* First half of Stop, on the thread that stops the server, between two tasks
DisconnectAllUsers ==
    /\ phase = "running"
    /\ \E q1, q2 \in QueryOutcomes :
          /\ user_sessions' = IF Applied(q1) THEN AllOffline ELSE user_sessions
          /\ game_servers' = IF Applied(q2) THEN Deactivate(ServerIds) ELSE game_servers
    /\ phase' = "stopping"
    /\ reply' = NoReply
    /\ UNCHANGED accounts

\* Second half of Stop: _is_running.store(false)
Stop == phase = "stopping" /\ phase' = "stopped" /\ reply' = NoReply /\ UNCHANGED tables

\* The process dies; the database stays
Crash == /\ phase \in {"running", "stopping"}
         /\ phase' = "crashed"
         /\ reply' = NoReply
         /\ UNCHANGED tables

\* A database created by DBQuary.txt, with any accounts in it
InitTables ==
    /\ users \in [UserIds -> Names \cup {NoName}]
    /\ \A u, v \in UserIds : u # v /\ users[u] = users[v] => users[u] = NoName
    /\ player_data = {u \in UserIds : users[u] # NoName}
    /\ player_inventory = player_data
    /\ user_sessions = AllOffline
    /\ game_servers = [s \in ServerIds |-> NoServer]

Init == InitTables /\ phase = "stopped" /\ reply = NoReply

Next == Run \/ ConnectDB \/ DisconnectAllUsers \/ Stop \/ Crash

Spec == Init /\ [][Next]_vars
-----------------------------------------------------------------------------
(* Type and safety invariants.                                             *)

\* Every table and the response have the shape of DBQuary.txt and Packet.h.
TypeOK ==
    /\ users \in [UserIds -> Names \cup {NoName}]
    /\ player_data \subseteq UserIds
    /\ player_inventory \subseteq UserIds
    /\ user_sessions \in [UserIds -> Session]
    /\ game_servers \in [ServerIds -> GameServer]
    /\ phase \in {"stopped", "running", "stopping", "crashed"}
    /\ reply \in Reply \cup {NoReply}

\* is_online and client_socket are written by six statements of five functions:
\* they never disagree, and no session belongs to an account that does not exist.
\* The cleanup of a socket finds a session only through both columns.
SessionBound ==
    \A u \in UserIds :
        /\ user_sessions[u].is_online <=> user_sessions[u].client_socket # NoSocket
        /\ user_sessions[u].is_online => users[u] # NoName

\* A game server row belongs to an account that exists, whatever id the request
\* carried, and names a socket whose disconnection will deactivate it.
ServerBound ==
    \A s \in ServerIds :
        /\ game_servers[s].is_active => ServerExists(s)
        /\ ServerExists(s) => /\ game_servers[s].owner_socket # NoSocket
                              /\ game_servers[s].owner_user_id \in UserIds
                              /\ users[game_servers[s].owner_user_id] # NoName

\* No two active servers have the same name, which the statement that creates one
\* sees to (DatabaseThread.cpp:915); not an invariant, see CreationKeepsNamesUnique.
ActiveNamesUnique ==
    \A s, r \in ServerIds :
        /\ s # r
        /\ game_servers[s].is_active
        /\ game_servers[r].is_active
        => game_servers[s].server_name # game_servers[r].server_name

-----------------------------------------------------------------------------
(* Action properties.                                                      *)

Acknowledged(kind) == reply # NoReply /\ reply.task.kind = kind /\ reply.result = "SUCCESS"

\* the tables are what the response says
Truthful ==
    /\ Acknowledged("Login") =>
          /\ users[reply.id] = reply.task.name
          /\ user_sessions[reply.id] = NewSession(reply.task.socket)
    /\ Acknowledged("CreateGameServer") /\ reply.id # NoId =>
          game_servers[reply.id] = [server_name |-> reply.task.server_name,
                                    owner_user_id |-> reply.task.user,
                                    owner_socket |-> reply.task.socket,
                                    is_active |-> TRUE]
    /\ Acknowledged("JoinGameServer") => game_servers[reply.task.server].is_active
    /\ Acknowledged("CloseGameServer") => ~game_servers[reply.task.server].is_active

\* What a SUCCESS tells a client is true of the tables when it is sent, whichever
\* statements failed: a login opened the session at the client's socket, a created
\* or reactivated server is listed as the client's, a closed one is closed.  (Of a task
\* into which the statements of a Stop fall, nothing is said.)
TruthfulSuccess == [][Truthful']_vars

NotTakenOver ==
    \A u \in UserIds :
        user_sessions[u].is_online /\ user_sessions'[u].is_online
        => user_sessions'[u].client_socket = user_sessions[u].client_socket

\* A session is never handed from one socket to another: it ends first, so the
\* first client is logged out before a second one may be logged in.
NoSessionTakeover == [][NotTakenOver]_vars

\* the answered request is one of the owner of s, at the socket s is bound to
ActivatedByOwner(s) ==
    /\ reply' # NoReply
    /\ game_servers'[s].owner_socket = reply'.task.socket
    /\ game_servers'[s].owner_user_id = reply'.task.user
    /\ \A r \in ServerIds \ {s} : game_servers'[r] = game_servers[r]

OnlyOwnersActivate ==
    \A s \in ServerIds :
        ~game_servers[s].is_active /\ game_servers'[s].is_active => ActivatedByOwner(s)

\* A game server becomes active only on a request of its owner, bound to the socket
\* that request came from, and only one becomes active at a time.
ActivationBindsSocket == [][OnlyOwnersActivate]_vars

OnlyRejoinsDuplicate ==
    ActiveNamesUnique /\ ~ActiveNamesUnique'
    => reply' # NoReply /\ reply'.task.kind = "JoinGameServer"

\* Only an owner's rejoin can bring a second active server of a name: creation
\* itself never does.
CreationKeepsNamesUnique == [][OnlyRejoinsDuplicate]_vars

-----------------------------------------------------------------------------
(* The sessions as SessionLifecycle sees them.                             *)

location == [u \in UserIds |-> IF user_sessions[u].is_online
                               THEN user_sessions[u].client_socket ELSE NoSocket]

Lifecycle == INSTANCE SessionLifecycle WITH Users <- UserIds, Nowhere <- NoSocket

\* Sessions begin and end one user or one socket or all at a time, as promised there.
ImplementsLifecycle == Lifecycle!Spec
=============================================================================
