CONSTANTS
    Producers = {p1, p2}
    MaxItems = 3
    Nodes = {n1, n2, n3, n4}
    Null = Null
    Reuse = TRUE
    Spurious = TRUE
SYMMETRY Symmetry
SPECIFICATION Spec
INVARIANT TypeOK
INVARIANT SafeWithOneProducer
INVARIANT OnlyLastDeletedTwice
INVARIANT NothingLeaks
PROPERTY ImplementsFifo
CHECK_DEADLOCK FALSE
