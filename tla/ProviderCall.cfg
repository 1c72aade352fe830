SPECIFICATION FairCallSpec
CONSTANTS
    c1 = c1
    c2 = c2
    Calls = {c1, c2}
    ControllerLimit = 0
    Concurrency <- MCConcurrency
    Intervals = {0}
    Cooldowns = {1}
    MaxTime = 12
    MaxEpoch = 12
    MaxAttempts = 3
    AnswerKinds = {"ok", "rate", "rateRefused", "rateExpired", "noAnswer", "http500"}
    Timed = {c1}
    SplitHTTP500 = {c1}
    Pooled = {c1}
    Cancelable = {c2}
    CancelWins = {c2}
INVARIANTS
    RetryDiscipline
PROPERTIES
    NoStartInsideCooldown
    EveryCallReturns
