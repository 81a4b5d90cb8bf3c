SPECIFICATION Spec
CHECK_DEADLOCK FALSE
SYMMETRY Symmetry
CONSTANTS
    Buffers = {b1, b2}
    CountBits = 2
    PoolSizes = {0, 1}
    Callers = {c1, c2}
    NoCaller = NoCaller
    NoBuffer = NoBuffer
    MaxSequences = 4
    SequenceBufferSize = 1
    RouteSize = 1
INVARIANTS
    PooledIsUnheld
    CountsReferences
    SequenceLifetime
