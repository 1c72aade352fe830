SPECIFICATION FairSpec
CONSTANTS
    c1 = c1
    c2 = c2
    c3 = c3
    c4 = c4
    a1 = a1
    a2 = a2
    bad = bad
    k1 = k1
    Callers = {c1, c2, c3, c4}
    Keys = {k1}
    KeyOf <- OneKey
    Answers = {a1}
    Accepts <- Picky
    Recallers = {c3}
    Replays = {c4}
    FirstRecords <- AnyRecord
    DiskFaults = TRUE
INVARIANTS
    OneLiveCall
PROPERTIES
    NoAnswerEvicted
    EveryCallerReturns
