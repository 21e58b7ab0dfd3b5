CONSTANTS
    Sockets = {k1, k2}
    UserIds = {u1}
    ServerIds = {s1}
    Names = {n1}
    ServerNames = {m1}
    NoSocket = NoSocket
    NoName = NoName
    NoId = NoId
    NoReply = NoReply
    Kinds <- AllKinds
    QueryOutcomes = {"ok"}
    Conns = {c1, c2}
    Workers = {w1, w2}
    Handler = handler
    NoThread = NoThread
    NoConn = NoConn
    NoItem = NoItem
    MaxClients = 1
    Settings <- EverySetting
    MaxRequests = 2
SPECIFICATION ServerSpec
INVARIANT ServerTypeOK
INVARIANT CleanupCoversUndisturbed
INVARIANT RemovedOnce
INVARIANT NothingAfterDisconnect
PROPERTY DisconnectHitsOwnSessions
SYMMETRY Symmetry
VIEW Moment
CHECK_DEADLOCK FALSE
