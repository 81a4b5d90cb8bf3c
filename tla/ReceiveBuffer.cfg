SPECIFICATION FairSpec
CONSTANTS
    MaxId = 2
    MaxSequences = 4
    CanFlush = TRUE
CHECK_DEADLOCK FALSE
INVARIANTS
    HeadIsRegistered
    RunningIsReachable
    UpgradeWaits
PROPERTIES
    PackReturns
