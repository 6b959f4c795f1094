SPECIFICATION FairSpec
CONSTANTS
    NSites = 2
    NFiles = 2
    MaxSuffix = 1
    MaxNumber = 9
    local = local
    channel = channel
    Drives <- LocalAndChannel
    TestRoot <- local
    HasSidecar = TRUE
    MaxTries = 2
    Budget <- OneOfEach
    MaxKinds = 2
INVARIANTS
    FoldersAreNotMixed
    FiledFilesStay
    CalmSyncsFileAll
PROPERTIES
    NothingIsOverwritten
    SyncsReturn
CHECK_DEADLOCK FALSE
