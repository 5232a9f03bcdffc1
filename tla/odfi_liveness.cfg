CONSTANTS
    Files <- Spoiled
    ShardOf <- ShardOfFiles
    PathOf <- PathOfFiles
    MaxVersions = 1
    ShardNames <- BothShards
    Shards <- KnownShards
    Content <- ContentOfFiles
    Unparsable = {"bad"}
    ZeroByte = {}
    Enabled = {"incoming"}
    Matches <- MatchesByPath
    Excludes = {}
    Produce <- BothEvents
    Audit = TRUE
    Retry = TRUE
    KeepRemoteFiles = FALSE
    RemoveZeroByteFiles = FALSE
    CleanupLocalDirectory = FALSE
    Requests = {r1, r2}
    Adverse = {"event", "delete"}
    MaxAdverse = 1
    Nothing = Nothing
SPECIFICATION FairSpec
PROPERTIES EventuallyAnnounced EventuallyDeleted TriggerAnswered
CHECK_DEADLOCK FALSE
