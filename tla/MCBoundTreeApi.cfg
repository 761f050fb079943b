CONSTANTS
    NO_BOUND = 9
    NULL = NULL
    MaxKey = 5
    MaxNodes = 4
SPECIFICATION Spec
INVARIANTS
    TypeOK
    SearchOrder
    EntriesDistinct
    LeftBoundExact
PROPERTIES
    NothingLost
    SearchEnds
