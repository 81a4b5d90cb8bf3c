SPECIFICATION FairSpec
CONSTANTS
    MaxSends = 2
    MaxAckErrors = 1
    MaxRetries = 2
    MaxUpdates = 2
    CanClose = TRUE
INVARIANTS
    ReturnedOnce
PROPERTIES
    SentInOrder
    AckedUnlessAckFails
CHECK_DEADLOCK FALSE
