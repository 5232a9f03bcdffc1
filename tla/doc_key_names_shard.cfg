CONSTANTS
    Files <- FileIDs
    KeyOf <- KeyOfFiles
    Creates <- Requests
    Mapping <- MappingOfRequests
    Configs <- SpannerConfigs
    Default = "D"
    Adverse = {}
    MaxAdverse = 0
    None = None
SPECIFICATION FairSpec
PROPERTY KeyMayNameShard
CHECK_DEADLOCK FALSE
