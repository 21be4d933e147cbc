SPECIFICATION Spec
CONSTANTS
    N = 16
    P = 15
    Regs = {1, 30}
    Instrs <- MCInstrs
    RetMain = 15
    Programs <- MCPrograms
    CacheSets = 1
    CacheLines = 2
    BlockBytes = 4
    W = 2
    INT = 1
    BITS = 2
    Encode <- MCEncode
    DELAY = 2
    CYCLE_MOD = 65536
    NULL = NULL
    MaxCalls = 40
\* The processor stops when main returns.
CHECK_DEADLOCK FALSE
INVARIANTS
    TypeOK
    CallIsAccess
    Drained
PROPERTIES
    ImplementsPipeline
    CallsComplete
    FetchResumes
    Returns
