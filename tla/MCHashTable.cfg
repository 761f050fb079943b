CONSTANTS
    k1 = k1
    k2 = k2
    k3 = k3
    Width = 20
    Thread = {analyzer, other}
    Inserter = analyzer
    Cell = {c1, c2, c3}
    NULL = NULL
    Key = {k1, k2, k3}
    Value = {"orig", "cc"}
    Slots = 2
    hash <- SlotOf
SPECIFICATION Spec
INVARIANTS
    TypeOK
    ChainsLinked
    NoLeak
PROPERTIES
    ImplementsMap
    CallsEnd
