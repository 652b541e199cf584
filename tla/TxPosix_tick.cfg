SPECIFICATION Spec
CONSTANTS
    t1 = t1
    t2 = t2
    t3 = t3
    Threads <- Threads2
    Prio <- Prio2
    Sched = Sched
    Timer = Timer
    None = None
    SemCap = 2
INVARIANTS
    TickIsAPeriod
