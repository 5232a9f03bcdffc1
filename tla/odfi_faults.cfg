CONSTANTS
    Files <- ReturnAndEmpty
    ShardOf <- ShardOfFiles
    PathOf <- PathOfFiles
    MaxVersions = 2
    ShardNames <- WithUnknown
    Shards <- KnownShards
    Content <- ContentOfFiles
    Unparsable = {}
    ZeroByte = {"zero"}
    Enabled <- AllProcessors
    Matches <- MatchesByPath
    Excludes <- ExcludePrenotes
    Produce <- BothEvents
    Audit = TRUE
    Retry = TRUE
    KeepRemoteFiles = FALSE
    RemoveZeroByteFiles = TRUE
    CleanupLocalDirectory = TRUE
    Requests = {}
    Adverse <- AnyFailure
    MaxAdverse = 3
    Nothing = Nothing
SPECIFICATION Spec
INVARIANTS DeletedWasAnnounced EmittedWasAudited
CHECK_DEADLOCK FALSE
