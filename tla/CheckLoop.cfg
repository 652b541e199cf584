SPECIFICATION CheckSpec
CONSTANTS
    Tests = 2
    MaxFaults = 2
INVARIANTS
    NoFalseSuccess
    NothingLeftBehind
    GreenMeansAllOk
    VerdictsAgree
PROPERTIES
    LoopEnds
CHECK_DEADLOCK FALSE
