CONSTANTS
    Messages <- Traffic
    MaxSent = 2
    Source <- SourceOfTraffic
    Kind <- KindOfTraffic
    FileIDs <- Names
    FileOf <- FileOfTraffic
    Trim <- TrimOfNames
    Capacity = 1
    AutoCommit = FALSE
    Adverse = {"receive", "network", "reconnect", "process", "shutdown", "body", "publish"}
    MaxAdverse = 2
    None = None
SPECIFICATION FairSpec
INVARIANTS CommittedIsHandled ListenerNeverBlocks AnswerIsTrue
PROPERTIES EventuallyCommitted StreamStaysRead
CHECK_DEADLOCK FALSE
