CONSTANTS
    Byte = 9
    Nibble = 3
    Half = 2
    Word = 4
    Xword = 6
    Power <- Powers
    Native = "lsb"
    Sizes <- StructSizes
    Files <- Executables
    Objects <- ObjectLists
    func_name <- Main
SPECIFICATION Spec
INVARIANTS
    TypeOK
    FoundIsLast
    FindsGlobal
    TablesRead
    LinkedFilesRead
    StraysAsListed
PROPERTIES
    LookupEnds
