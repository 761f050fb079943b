CONSTANTS
    Thread = {t1, t2}
    Site = {a1, a2}
    MaxFlag = 1
    MaxPlants = 2
SPECIFICATION Spec
INVARIANTS
    TypeOK
    Recoverable
    FlagCounts
PROPERTIES
    HandlersReturn
