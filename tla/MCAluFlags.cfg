SPECIFICATION Spec
CONSTANTS
    w = 4
    Operands <- MCOperands
INVARIANTS
    FlagsAsDocumented
