CONSTANTS
    Reads <- PreemptionReads
    Modulus = 8
    TestCycles = 2
    MaxCount = 9
SPECIFICATION Spec
INVARIANTS
    Inv
    SnapshotConsistent
PROPERTY ReturnsAfterHandler
CHECK_DEADLOCK FALSE
