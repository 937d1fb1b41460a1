SPECIFICATION FairSpec
CONSTANTS
    MaxAttempts = 3
    RetryStrategy = "fixedCount"
INVARIANTS
    TypeOK
    AsIfExecutedOnce
    InvocationsBounded
PROPERTIES
    Returns
CHECK_DEADLOCK FALSE
