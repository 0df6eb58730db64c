SPECIFICATION Spec
CONSTANTS
    U32Max = 255
    HalfRange = 8
    Inputs = {}
    StepLimit = 60
    RegSet <- MCRegSet
    I32Max = 127
    MaxFrameBytes = 112
    Garbage = 9
    Cases <- MCCases
INVARIANTS
    ExamplesPass
