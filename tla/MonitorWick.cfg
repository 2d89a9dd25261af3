SPECIFICATION Spec
CONSTANTS
    Wicks = 1
    MaxRev = 3
    MaxSnapshots = 3
    MaxBoots = 2
    MaxAttempts = 2
    Passes = FALSE
INVARIANTS RevisionsAgree EndingsAreTold
CHECK_DEADLOCK FALSE
