CONSTANTS
    Modulus = 4
    TestCycles = 2
    Blocks = 2
    Depth = 2
    MaxCount = 7
SPECIFICATION Spec
INVARIANTS
    TypeOK
    NotBeforeService
    GoesOn
    ReadsAgree
CHECK_DEADLOCK FALSE
