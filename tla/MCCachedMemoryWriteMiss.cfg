SPECIFICATION Spec
CONSTANTS
    S = 2
    B = 8
    E = 1
    W = 4
    INT = 2
    BITS = 2
    NULL = NULL
    MemSize = 24
    Block <- MCBlock
    ZeroBlock <- MCZeroBlock
    Words <- MCWords
    Image <- MCImage
    DELAY = 2
    CYCLE_MOD = 16
    NULL_ADDR = 0
    ReadAddrs = {8}
    WriteAddrs = {8, 12}
    MaxHits = 16
    MaxMisses = 40
CHECK_DEADLOCK FALSE
PROPERTIES
    StoresOnlyTheirWord
