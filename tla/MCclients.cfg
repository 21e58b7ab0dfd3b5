CONSTANTS
    Clients = {c1, c2, c3, c4}
    Worker = worker
    Handler = handler
    NoClient = NoClient
    MaxClients = 4
SPECIFICATION Spec
INVARIANT TypeOK
INVARIANT ListSound
INVARIANT CountTracks
INVARIANT SafeAlone
SYMMETRY Symmetry
CHECK_DEADLOCK FALSE
