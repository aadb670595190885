CONSTANTS
    Replicas = {a}
    Home = a
    Retryable = TRUE
    StableIds = TRUE
    SameText = TRUE
    Slow = FALSE
    MaxAttempts = 2
    MaxSends = 2
    MaxCrashes = 0
SPECIFICATION Spec
CHECK_DEADLOCK FALSE
PROPERTY DeliveryAdvances
