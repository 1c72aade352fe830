SPECIFICATION Spec
CONSTANTS
    b1 = b1
    b2 = b2
    Stages = {b1, b2}
    FirstLayer = {b1}
    Calls <- TwoAndOne
    Concurrency = 2
    Answers <- AllAnswers
PROPERTIES
    NoStartAfterRefusal
