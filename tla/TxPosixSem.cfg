SPECIFICATION SemFairSpec
CONSTANTS
    t1 = t1
    t2 = t2
    Threads <- Threads2
    Prio <- Prio2
    Sched = Sched
    Timer = Timer
    None = None
    SemCap = 2
INVARIANTS
    StopsOutsideSemaphores
    NoLostWakeUp
PROPERTIES
    DispatchCompletes
