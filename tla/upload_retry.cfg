CONSTANTS
    Size = 3
    MaxRetries = 2
    Senders <- ThreeSenders
    MaxNotifyRetries = 2
    Alerters <- TwoAlerters
SPECIFICATION FairSpec
INVARIANTS SuccessMeansWhole ErrorMeansExhausted EverySenderTried
PROPERTY EventuallyReturns
CHECK_DEADLOCK FALSE
