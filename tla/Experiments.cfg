SPECIFICATION FairSpec
CONSTANTS
    t1 = t1
    t2 = t2
    k1 = k1
    k2 = k2
    Jobs <- MCJobs
    Trials <- MCTrials
    Requests <- MCRequests
    Cancellable <- MCCancellable
    Workers = {w1, w2}
    MaxAttempts = 2
    Lease = 1
    Deadline = 2
    CandidateLimit = 2
    NoJob = NoJob
    NoTrial = NoTrial
INVARIANTS
    CompletedJobHasResult
PROPERTIES
    HoldoutFrozen
    TrialDecided
CHECK_DEADLOCK FALSE
