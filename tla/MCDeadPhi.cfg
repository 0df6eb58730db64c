SPECIFICATION Spec
CONSTANTS
    U32Max = 191
    HalfRange = 4
    Programs <- MCDeadPhi
    Inputs = {0, 3}
    StepLimit = 14
    RegSet <- MCRegSet
    SlotIndices <- MCSlotIndices
    I32Max = 95
    MaxFrameBytes = 64
    Garbage = 9
INVARIANTS
    ResultsAgree
CHECK_DEADLOCK FALSE
