SPECIFICATION FairSpec
CONSTANTS
    Jobs = {r1}
    Workers = {w1, w2}
    MaxRounds = 2
    MaxAttempts = 2
    Lease = 1
    Deadline = 3
    LastDay = 2
    Allocation = 2
    Costs = {1, 3}
    DayMax = 2
    MonthMax = 4
    RunMax = 4
    NoJob = NoJob
INVARIANTS
    CallPaidOnce
    BudgetIsTheSum
    SpendWithinLimits
PROPERTIES
    NothingAfterCancel
    RunEnds
CHECK_DEADLOCK FALSE
