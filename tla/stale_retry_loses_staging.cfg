SPECIFICATION Spec
CONSTANTS
    NSites = 1
    NFiles = 2
    Concurrency = 1
    MaxAttempts = 2
    RecoverLimit = 2
    MaxFolder = 6
    Budget <- OneRetry
INVARIANT
    RetryMeansStaged
CHECK_DEADLOCK FALSE
