SPECIFICATION Spec
CHECK_DEADLOCK FALSE
CONSTANTS
    MaxContracts = 2
    MaxNacks = 1
    MaxGen = 2
    MinMessageByteCount = 1
    Sizes <- SmallAndLarge
    TransferByteCounts <- TooSmallAndRoomy
    Settings <- LongAndTroubled
INVARIANTS
    NoBadAccounting
    ReceiverWithinSender
    PendingHasContract
    NackContractKnown
    SenderClosesOnce
