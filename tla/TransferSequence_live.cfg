SPECIFICATION FairSpec
CONSTANTS
    MaxSeq = 2
    MaxGen = 1
    Bytes <- OneByteEach
    ResendQueueMaxByteCount = 2
    ReceiveQueueMaxByteCount = 4
    SelectiveAckExpires = TRUE
    Duplicating = FALSE
PROPERTIES
    EventuallyAcked
CHECK_DEADLOCK FALSE
