\* Three producers, three messages that are pushed again and again.
SPECIFICATION Spec
CONSTANTS
    p1 = p1
    p2 = p2
    p3 = p3
    n1 = n1
    n2 = n2
    n3 = n3
    Producers = {p1, p2, p3}
    Nodes = {n1, n2, n3}
    Stub = Stub
    NULL = NULL
INVARIANTS
    ChainIntact
PROPERTIES
    RefinesFifo
