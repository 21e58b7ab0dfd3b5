CONSTANTS
    Workers = {w1, w2}
    Consoles = {p1}
    NoWorker = NoWorker
SPECIFICATION Spec
INVARIANT TypeOK
INVARIANT ThreadsGone
INVARIANT PointerGood
INVARIANT OneOnConnection
INVARIANT LeftOnline
PROPERTY StopEnds
CHECK_DEADLOCK FALSE
