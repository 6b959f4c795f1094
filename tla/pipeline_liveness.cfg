SPECIFICATION FairSpec
CONSTANTS
    NSites = 2
    NFiles = 1
    Concurrency = 1
    MaxAttempts = 2
    RecoverLimit = 2
    MaxFolder = 6
    Budget <- CrashAndRetry
PROPERTIES
    EverySubmissionSettles
    KeepsPromise
CHECK_DEADLOCK FALSE
