CONSTANTS
    Sockets = {k1, k2, k3}
    UserIds = {u1}
    ServerIds = {}
    Names = {n1}
    ServerNames = {}
    NoSocket = NoSocket
    NoName = NoName
    NoId = NoId
    NoReply = NoReply
    Kinds = {"Login", "Logout", "ClientDisconnected"}
    QueryOutcomes = {"ok"}
    Clients = {c1, c2}
    Username <- SharedAccount
    NoClient = NoClient
    NoCommand = NoCommand
    MaxMishaps = 1
    MaxQueue = 2
SPECIFICATION ClientSpec
INVARIANT ClientTypeOK
INVARIANT OwnAnswer
PROPERTY SessionEndsByName
PROPERTY LetIn
CHECK_DEADLOCK FALSE
