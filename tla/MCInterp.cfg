SPECIFICATION Spec
CONSTANTS
    HalfRange = 4
    Programs <- MCPrograms
    Inputs = {0, 2}
    StepLimit = 12
INVARIANTS
    ValidatedNeverFails
PROPERTIES
    Terminates
CHECK_DEADLOCK FALSE
