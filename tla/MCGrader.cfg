SPECIFICATION FairSpec
CONSTANTS
    N = 2
    weight <- MCWeight
    Measures = {"hits", "misses"}
    Answers <- MCAnswers
    Garbage <- MCGarbage
    MaxGradings = 2
CHECK_DEADLOCK FALSE
INVARIANTS
    TypeOK
    OwnResults
    Marks
PROPERTIES
    GradingEnds
