SPECIFICATION FairSpec
CONSTANTS
    k1 = k1
    Tables = {"file", "function", "type", "call", "boundary"}
    BasisOf <- RowBases
    Requests = {k1}
    Remembered <- CallsRemembered
    Closed = {"call"}
    Unsaved = {"b"}
    Processors = 2
    MaxOthers = 1
    Touched = {k1}
    Phases <- FilesThenChains
    TablesOf <- StageTables
    FirstReported = {"symbols"}
INVARIANTS
    RowsOfOneResponse
PROPERTIES
    SerialOrder
    EveryWalkReturns
CHECK_DEADLOCK FALSE
