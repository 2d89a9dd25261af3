SPECIFICATION FairSpec
CONSTANTS
    Wicks = 0
    MaxRev = 0
    MaxSnapshots = 3
    MaxBoots = 2
    MaxAttempts = 2
    Passes = TRUE
INVARIANT AcceptedOnce
PROPERTIES NothingAfterTakenBack OldOpportunitiesSilent NoticesSettle
CHECK_DEADLOCK FALSE
