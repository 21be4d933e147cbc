SPECIFICATION Spec
CONSTANTS
    w = 4
    Operands <- MCOperands
INVARIANTS
    TypeOK
    ResultsAgree
    FlagsOfSums
    BranchesCompare
