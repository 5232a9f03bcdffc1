CONSTANTS
    a = a
    b = b
    w1 = w1
    w2 = w2
    NoMessage = NoMessage
    Files <- TwoFiles
    Workers <- TwoWorkers
    Messages <- AndUnreadable
    Kind <- KindOfAndUnreadable
    FileOf <- FileOfAndUnreadable
    AutoCommit = FALSE
    Repository = "spanner"
    KeysOf <- KeysOfFiles
    Rank <- RankOfFiles
    NeedsOpts = {b}
    MaxCutoffs = 2
    Adverse <- Survivable
    MaxAdverse = 2
SPECIFICATION Spec
SYMMETRY WorkersAreAlike
INVARIANTS AcceptedFileKept CanceledStaysBehind
