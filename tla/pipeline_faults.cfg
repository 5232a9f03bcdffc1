CONSTANTS
    a = a
    b = b
    w1 = w1
    w2 = w2
    NoMessage = NoMessage
    Files <- TwoFiles
    Workers <- TwoWorkers
    Messages <- AndNoFile
    Kind <- KindOfAndNoFile
    FileOf <- FileOfAndNoFile
    AutoCommit = TRUE
    Repository = "sql"
    KeysOf <- KeysOfFiles
    Rank <- RankOfFiles
    NeedsOpts = {}
    MaxCutoffs = 2
    Adverse <- AnyFault
    MaxAdverse = 2
SPECIFICATION Spec
SYMMETRY WorkersAreAlike
INVARIANTS TypeOK UploadedOnce AnnouncedWasUploaded SucceededIsComplete
PROPERTIES LedgerSpec LossIsReported
