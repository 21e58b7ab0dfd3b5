CONSTANTS
    Workers = {w1, w2}
    Consoles = {p1}
    NoWorker = NoWorker
SPECIFICATION Spec
INVARIANT QueuesOutliveDatabaseThread
CHECK_DEADLOCK FALSE
