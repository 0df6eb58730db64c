SPECIFICATION Spec
CONSTANTS
    U32Max = 7
    MaxValues = 4
    MaxPos = 2
    MaxIterations = 3
    SpillCost = 1
    ConflictCost = 20
    Lists <- MCLists
    RegSet <- MCRegSet
INVARIANTS
    CostsMatch
    BestIsConflictFree
    VerifierAccepts
    SpillsAreForced
PROPERTIES
    ImplementsFirstCome
CHECK_DEADLOCK FALSE
