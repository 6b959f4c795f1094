SPECIFICATION Spec
CONSTANTS
    NSites = 1
    NFiles = 2
    Concurrency = 1
    MaxAttempts = 2
    RecoverLimit = 2
    MaxFolder = 6
    Budget <- NoEvent
INVARIANT
    OneFolderPerSubmission
CHECK_DEADLOCK FALSE
