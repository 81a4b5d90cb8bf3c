SPECIFICATION FairSpec
CHECK_DEADLOCK FALSE
CONSTANTS
    Callers = {c1, c2}
    NoCaller = NoCaller
    Keys = {k1}
    MaxSequences = 4
    SequenceBufferSize = 1
    ResendQueueMax = 1
    Stalls = FALSE
    WaitsForever = FALSE
    CallerCancels = TRUE
INVARIANTS
    AcceptedIsKept
    SequenceLifetime
PROPERTIES
    PackIsAnswered
