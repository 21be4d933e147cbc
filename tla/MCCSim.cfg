SPECIFICATION PairSpec
CONSTANTS
    S = 2
    B = 2
    E = 2
    ELarge = 3
    Block <- MCBlock
    ZeroBlock = "zero"
    NULL = NULL
    Addrs = {0, 2, 5, 8, 12}
    MaxRefs = 6
CHECK_DEADLOCK FALSE
INVARIANTS
    TypeOK
    LinesDistinct
    TimesPast
    EvictionAccounting
    Inclusion
    MoreLinesNeverHurt
PROPERTIES
    DirtyUntilEvicted
    ImplementsLru
