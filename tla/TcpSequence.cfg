SPECIFICATION Spec
CHECK_DEADLOCK FALSE
CONSTANTS
    SeqSpace = 8
    Scenarios <- FewScenarios
    MaxRead = 2
    PacketSize = 1
    SequenceBufferSize = 1
INVARIANTS
    AckedIsCarried
    WithinWindow
    NoLostWakeup
    NoGapToPeer
