SPECIFICATION Spec
CONSTANTS
    MaxSeq = 5
    MaxGen = 1
    Bytes <- LaterAreLarge
    ResendQueueMaxByteCount = 3
    ReceiveQueueMaxByteCount = 5
    SelectiveAckExpires = FALSE
    Duplicating = TRUE
INVARIANTS
    PausedIsHeld
CHECK_DEADLOCK FALSE
