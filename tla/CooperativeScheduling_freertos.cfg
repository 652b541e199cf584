\* FreeRTOS: do the counters stay within the tolerance of the test?
CONSTANTS
    Modulus = 64
    TestCycles = 1
    MaxCount = 4
SPECIFICATION RingSpec
PROPERTY NeverAccused
CHECK_DEADLOCK FALSE
