SPECIFICATION Spec
CONSTANTS
    U32Max = 7
    Values = {1, 2, 3, 4}
    MaxPos = 3
    RegSet <- MCRegSet
INVARIANTS
    TypeOK
    VerifierAccepts
    SpillsAreMinimal
PROPERTIES
    Terminates
CHECK_DEADLOCK FALSE
