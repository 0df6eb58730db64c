SPECIFICATION MCSpec
CONSTANTS
    Registers = {r1, r2, r3, r4}
    Slots = {s1, s2}
    Temporary = t1
    Temporary2 = t2
    Sources = {r1, r2, r3, r4, s1, s2}
    MaxMoves = 4
INVARIANTS
    TypeOK
    ActsInParallel
    PendingReadsIntact
CHECK_DEADLOCK FALSE
