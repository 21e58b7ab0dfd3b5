CONSTANTS
    Producers = {p1, p2}
    MaxItems = 3
    Nodes = {n1, n2, n3, n4, n5}
    Null = Null
    Reuse = FALSE
    Spurious = FALSE
SYMMETRY Symmetry
SPECIFICATION Spec
INVARIANT NoUseAfterFree
CHECK_DEADLOCK FALSE
