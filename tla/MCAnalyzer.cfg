CONSTANTS
    NO_BOUND = 9
    NULL = NULL
    MaxAddr = 6
    MaxLen = 2
    Window = 4
    MaxStack = 2
    Programs <- AllPrograms
    Garbled <- GarbledInsns
SPECIFICATION Spec
INVARIANTS
    TypeOK
    TrapsRecorded
    PlantedBytesSurvive
    ShutdownRestores
    HandlerNeverBusy
    WorklistComplete
    SitesArmed
    ExecutedInspected
PROPERTIES
    ImplementsWorklist
    LeavesOnlyOutOfSight
    AnalysisEnds
