SPECIFICATION Spec
CONSTANTS
    Count = 3
    AdapterOf <- GoJSTSGo
    Faulty = {1, 2, 3}
    Interruptible = FALSE
INVARIANTS
    NothingAwaitsAStoppedReduction
