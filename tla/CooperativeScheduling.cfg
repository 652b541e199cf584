\* Both builds: ThreadX, and FreeRTOS with its time slices.
CONSTANTS
    Modulus = 64
    TestCycles = 1
    MaxCount = 3
SPECIFICATION RingSpec
INVARIANTS
    RoundRobin
PROPERTY AlarmJustified
CHECK_DEADLOCK FALSE
