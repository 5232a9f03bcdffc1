CONSTANTS
    Shards <- OneShard
    Windows <- TwoWindows
    FirstWindow = "morning"
    Days <- TwoDays
    AllDays = FALSE
    Cleanup <- OneShard
    Requests <- TwoRequests
    Targets <- TargetsOfTwo
    MaxConnects = 2
    Adverse = {"merge", "map", "connect", "environment", "adminBind"}
    MaxAdverse = 1
    None = None
SPECIFICATION FairSpec
INVARIANTS NoClientAtShutdown OkMeansCutOff OneCutoffPerTrigger
PROPERTIES EventuallyAnswered EventuallyServed EventuallyExits
CHECK_DEADLOCK FALSE
