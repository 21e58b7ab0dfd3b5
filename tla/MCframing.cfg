CONSTANTS
    Packets = 3
    Size <- TwoOrOne
    MaxSize = 2
    SendRetries = 2
    RecvRetries = 2
SPECIFICATION Spec
INVARIANT InStep
PROPERTY Arrives
PROPERTY EndNoticed
CHECK_DEADLOCK FALSE
