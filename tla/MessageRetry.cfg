CONSTANTS
    Replicas = {a}
    Home = a
    Retryable = TRUE
    StableIds = TRUE
    SameText = TRUE
    Slow = FALSE
    MaxAttempts = 2
    MaxSends = 3
    MaxCrashes = 1
SPECIFICATION FairSpec
INVARIANT OneSendAtATime
INVARIANT ScheduledCanRetry
 
CHECK_DEADLOCK FALSE
