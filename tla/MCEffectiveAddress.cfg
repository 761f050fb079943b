CONSTANTS
    Span <- Spans
    Values <- MCValues
    Insns <- MCInsns
    content <- Memory
    FSBase = 9
SPECIFICATION Spec
INVARIANTS
    TypeOK
    TargetExact
