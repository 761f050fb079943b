CONSTANTS
    Cell = {c1, c2, c3}
    NULL = NULL
    Address = {0, 1, 2}
SPECIFICATION Spec
INVARIANTS
    TypeOK
    Linked
    NoLeak
PROPERTIES
    ImplementsQueue
    CallsEnd
