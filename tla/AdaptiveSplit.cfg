SPECIFICATION FairSpec
CONSTANTS
    Rows = 3
    Begin <- Whole
    Fits = 2
    Owners <- TwoOwners
    Touched <- Parents
    MaxOthers = 1
INVARIANTS
    Cover
    AskedOnce
PROPERTIES
    PaidOnce
    EveryRunReturns
