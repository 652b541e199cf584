CONSTANTS
    Reads <- ProcessingReads
    Modulus = 8
    TestCycles = 2
    MaxCount = 9
SPECIFICATION Spec
INVARIANTS
    FlagIsPrivate
    HandshakeHolds
PROPERTY NeverAccused
CHECK_DEADLOCK FALSE
