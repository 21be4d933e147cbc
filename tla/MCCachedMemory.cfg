SPECIFICATION Spec
CONSTANTS
    S = 2
    B = 8
    E = 1
    W = 4
    INT = 2
    BITS = 2
    NULL = NULL
    MemSize = 32
    Block <- MCBlock
    ZeroBlock <- MCZeroBlock
    Words <- MCWords
    Image <- MCImage
    DELAY = 3
    CYCLE_MOD = 16
    NULL_ADDR = 0
    ReadAddrs = {8, 12, 16, 24}
    WriteAddrs = {8, 24}
    MaxHits = 20
    MaxMisses = 40
CHECK_DEADLOCK FALSE
INVARIANTS
    TypeOK
    CleanLinesMatchMemory
    StallProtocol
    PreconditionHolds
PROPERTIES
    ImplementsFlat
