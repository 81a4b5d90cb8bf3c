SPECIFICATION Spec
CONSTANTS
    MaxSeq = 3
    MaxGen = 2
    Bytes <- OneByteEach
    ResendQueueMaxByteCount = 3
    ReceiveQueueMaxByteCount = 2
    SelectiveAckExpires = TRUE
    Duplicating = TRUE
INVARIANTS
    AckedWasReceived
    InOrderWithoutGap
    CallbackOnce
    NoMissingItem
PROPERTIES
    ImplementsChannel
CHECK_DEADLOCK FALSE
