CONSTANTS
    a = a
    b = b
    w1 = w1
    w2 = w2
    NoMessage = NoMessage
    Files <- OneFile
    Workers <- TwoWorkers
    Messages <- AboutOneFile
    Kind <- KindOfAboutOneFile
    FileOf <- FileOfAboutOneFile
    AutoCommit = FALSE
    Repository = "sql"
    KeysOf <- KeysOfOneFile
    Rank <- RankOfOneFile
    NeedsOpts = {}
    MaxCutoffs = 2
    Adverse = {"crash", "open", "send"}
    MaxAdverse = 1
SPECIFICATION FairSpec
PROPERTIES EventuallyCommitted PendingIsTaken CutoffEnds LedgerSpec
