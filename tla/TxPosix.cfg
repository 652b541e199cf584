SPECIFICATION FairSpec
CONSTANTS
    t1 = t1
    t2 = t2
    t3 = t3
    Threads <- Threads3
    Prio <- Prio3
    Sched = Sched
    Timer = Timer
    None = None
    SemCap = 2
INVARIANTS
    TypeOK
    OneThreadAtATime
    NoThreadDuringIsr
    NoSpuriousExit
    AckPairing
    NoStaleResume
    WakeMatchesBlock
    NoStaleToken
    PostureRestored
PROPERTIES
    PreemptionRespected
    ImplementsOneCpu
    TimerKeepsTicking
    SelectedRuns
