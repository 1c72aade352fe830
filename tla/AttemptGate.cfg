SPECIFICATION Spec
CONSTANTS
    c1 = c1
    c2 = c2
    Calls = {c1, c2}
    ControllerLimit = 0
    Concurrency <- MCConcurrency
    Intervals = {0, 2}
    Cooldowns = {1, 2}
    MaxTime = 4
    MaxEpoch = 3
INVARIANTS
    LeasesCounted
    NoLostWakeup
    RecoveryEarned
PROPERTIES
    ReopensAfterCooldown
    StartsSpaced
    BackoffHonoured
