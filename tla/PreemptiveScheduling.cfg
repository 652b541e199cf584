\* The chain of workers, cut by the reporting thread anywhere; the total of
\* the counters passes the width of unsigned long twice.
CONSTANTS
    Modulus = 9
    TestCycles = 2
    MaxCount = 5
SPECIFICATION Spec
INVARIANTS
    Staircase
    BackAfterTheChain
PROPERTIES
    AccusedOnlyByWrap
    PeriodTotalExact
CHECK_DEADLOCK FALSE
