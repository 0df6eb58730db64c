SPECIFICATION Spec
CONSTANTS
    U32Max = 7
    HalfRange = 4
    Programs <- MCPrograms
INVARIANTS
    DominatorsAreExact
    DominatorsAreKept
    LivenessIsExact
    LivenessIsSound
    OnePassPerBlockIsEnough
    LiveTogetherInterfere
    IntervalsCoverEdges
PROPERTIES
    Terminates
CHECK_DEADLOCK FALSE
