CONSTANTS
    Files <- FileIDs
    KeyOf <- KeyOfFiles
    Creates <- Requests
    Mapping <- MappingOfRequests
    Configs <- AllConfigs
    Default = "D"
    Adverse = {"lookup", "add", "commit", "emit", "restart"}
    MaxAdverse = 2
    None = None
SPECIFICATION FairSpec
INVARIANTS TypeOK ReadIffCompatible CancelFollowsFile CreatedIsFound
PROPERTIES EventuallyRouted EventuallyAnnounced
CHECK_DEADLOCK FALSE
