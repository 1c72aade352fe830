SPECIFICATION FairSpec
CONSTANTS
    Count = 4
    AdapterOf <- ThreeLanes
    Faulty = {1, 2, 3, 4}
    Interruptible = TRUE
INVARIANTS
    RefusalReported
    ReportComplete
    CutTargetsUnreported
    FailuresContained
PROPERTIES
    StoppedRunReturns
