SPECIFICATION Spec
CONSTANTS
    HalfRange = 4
    Lines <- MCLines
    parse_block_id <- MCBlockId
    NoId <- MCNoId
    MaxLines = 7
INVARIANTS
    ReadsTheText
    LabelsNameBlocks
PROPERTIES
    RefusalsAreFinal
CHECK_DEADLOCK FALSE
