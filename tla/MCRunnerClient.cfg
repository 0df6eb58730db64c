SPECIFICATION Spec
CONSTANTS
    MAX_CODE_SIZE = 2
    MAX_SPEC_SIZE = 2
    MAX_CASES = 2
    MaxArity = 6
    PipeCapacity = 1
    Specs <- MCSpecs
INVARIANTS
    OkMeansComplete
    NothingLeftBehind
    SpecFileOutlivesRead
    HarmlessCodeIsAnswered
PROPERTIES
    ParentReturns
    ChildEnds
CHECK_DEADLOCK FALSE
