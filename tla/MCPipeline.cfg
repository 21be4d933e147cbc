CONSTANTS
    N = 6
    P = 5
    Regs = {1, 30}
    Instrs <- BothInstrs
    RetMain = 5
    Allowed = {}
    Loaded <- MCLoaded
    Programs <- DataAndControlPrograms
SPECIFICATION Spec
\* The processor stops when main returns.
CHECK_DEADLOCK FALSE
INVARIANTS
    TypeOK
    HeldByMemory
PROPERTIES
    ImplementsIsa
    WrongPathSquashed
