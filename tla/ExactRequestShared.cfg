SPECIFICATION Spec
CONSTANTS
    c1 = c1
    c2 = c2
    c3 = c3
    c4 = c4
    a1 = a1
    a2 = a2
    bad = bad
    k1 = k1
    Callers = {c1, c2, c3, c4}
    Keys = {k1}
    KeyOf <- OneKey
    Answers = {a1, a2, bad}
    Accepts <- Alike
    Recallers = {c4}
    Replays = {}
    FirstRecords <- UsableRecords
    DiskFaults = FALSE
INVARIANTS
    CancellationStaysOwn
    RecallReadsItsLeader
PROPERTIES
    OneAnswerShown
