SPECIFICATION FairSpec
CONSTANTS
    Nodes = {n1,n2}
    MaxGeneration = 2
    RetriesUntilFail = 1
    UpdateAttempts = 2
    Limit <- LimitZero
    Faults = {"crash","watch"}
    MaxFaults = 1
    MaxNodes = 12
    Negative = 2
    MaxValue = 105
CHECK_DEADLOCK FALSE
PROPERTY InvalidLimitFails
PROPERTY NoValueBlocksTheRollout
PROPERTY PercentageIsRoundedUp
PROPERTY LimitGrowsWithTheRollout
