CONSTANTS
    a = a
    b = b
    w1 = w1
    w2 = w2
    NoMessage = NoMessage
    Files <- TwoFiles
    Workers <- TwoWorkers
    Messages <- QueueAndCancel
    Kind <- KindOfQueueAndCancel
    FileOf <- FileOfQueueAndCancel
    AutoCommit = FALSE
    Repository = "sql"
    KeysOf <- KeysOfFiles
    Rank <- RankOfFiles
    NeedsOpts = {}
    MaxCutoffs = 2
    Adverse = {"crash"}
    MaxAdverse = 1
SPECIFICATION Spec
INVARIANT AcceptedFileKept
