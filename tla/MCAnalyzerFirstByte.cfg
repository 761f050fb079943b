CONSTANTS
    NO_BOUND = 9
    NULL = NULL
    MaxAddr = 6
    MaxLen = 2
    Window = 9
    MaxStack = 2
    Programs <- PrefixedSite
    Garbled <- GarbledInsns
SPECIFICATION Spec
INVARIANT
    TrapsAtFirstBytes
