SPECIFICATION Spec
CONSTANTS
    NSites = 1
    NFiles = 1
    MaxSuffix = 1
    MaxNumber = 4
    local = local
    channel = channel
    Drives <- LocalAndChannel
    TestRoot <- local
    HasSidecar = TRUE
    MaxTries = 2
    Budget <- OneCall
    MaxKinds = 1
INVARIANTS
    EmptyFolderIsUsed
CHECK_DEADLOCK FALSE
