CONSTANTS
    Commands = {c1, c2}
    Workers = {w1, w2}
    MaxAttempts = 3
    Lease = 2
    RetryBase = 1
    RetryMax = 3
    NoCommand = NoCommand
SPECIFICATION FairSpec
INVARIANTS
    StartsBounded
PROPERTIES
    OutcomeFinal
    LiveClaimProtected
    EveryCommandDecided
CHECK_DEADLOCK FALSE
