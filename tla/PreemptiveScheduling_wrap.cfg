\* The default configuration: no end, so the total wraps some day.
CONSTANTS
    Modulus = 16
    TestCycles = 0
    MaxCount = 6
SPECIFICATION Spec
PROPERTY NoFalseAlarm
CHECK_DEADLOCK FALSE
