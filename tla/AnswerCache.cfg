SPECIFICATION FairSpec
CONSTANTS
    p1 = p1
    p2 = p2
    r1 = r1
    r2 = r2
    a1 = a1
    NoAnswer = NoAnswer
    Runs = {p1, p2}
    Requests = {r1, r2}
    Answers = {a1}
    MaxHarms = 2
INVARIANTS
    RecordsBacked
    NoFalseCorruption
PROPERTIES
    PaysNoMore
