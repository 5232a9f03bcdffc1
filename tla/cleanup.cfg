CONSTANTS
    a = a
    b = b
    w1 = w1
    NoMessage = NoMessage
    Files <- TwoFiles
    Workers <- OneWorker
    Messages <- QueueTwo
    Kind <- KindOfQueueTwo
    FileOf <- FileOfQueueTwo
    AutoCommit = FALSE
    Repository = "sql"
    KeysOf <- KeysOfFiles
    Rank <- RankOfFiles
    NeedsOpts = {}
    MaxCutoffs = 2
    Adverse <- Survivable
    MaxAdverse = 2
SPECIFICATION FairCleanupSpec
INVARIANT AcceptedFileKept
PROPERTY EventuallyCleaned
