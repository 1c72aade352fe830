SPECIFICATION Spec
CONSTANTS
    Questions = {1, 2, 3}
    Rows = {1, 2}
    Catalogues <- TwoCatalogues
    MaxRows = 2
    MaxQuestions = 2
    MaxInputBytes = 10
    RowBytes = 2
    QuestionBytes = 1
    RefusedCells <- OneRefused
    MaxRuns = 3
    MaxFaults = 2
INVARIANTS
    NoRequestRepeated
    EveryCellAccounted
    SiblingsAfterFirst
PROPERTIES
    DecidedOnce
