CONSTANTS
    N = 5
    P = 4
    Regs = {30}
    Instrs <- SquashInstrs
    RetMain = 4
    Allowed = {"ret_at_target"}
    Loaded <- PlainLoaded
    Programs <- SquashPrograms
SPECIFICATION Spec
\* The processor stops when main returns.
CHECK_DEADLOCK FALSE
PROPERTIES
    WrongPathSquashed
