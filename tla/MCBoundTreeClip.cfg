CONSTANTS
    NO_BOUND = 9
    NULL = NULL
    MaxKey = 3
    MaxNodes = 3
SPECIFICATION Spec
PROPERTY
    InsertClips
