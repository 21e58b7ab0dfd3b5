CONSTANTS
    Sockets = {k1, k2}
    UserIds = {u1, u2}
    ServerIds = {s1, s2}
    Names = {n1, n2}
    ServerNames = {m1, m2}
    NoSocket = NoSocket
    NoName = NoName
    NoId = NoId
    NoReply = NoReply
    Kinds <- TaskKinds
    QueryOutcomes = {"ok", "error", "lost", "fresh"}
SYMMETRY Symmetry
VIEW Tables
SPECIFICATION Spec
INVARIANT TypeOK
INVARIANT SessionBound
INVARIANT ServerBound
PROPERTY TruthfulSuccess
PROPERTY NoSessionTakeover
PROPERTY ImplementsLifecycle
PROPERTY ActivationBindsSocket
PROPERTY CreationKeepsNamesUnique
CHECK_DEADLOCK TRUE
