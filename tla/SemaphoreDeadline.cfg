SPECIFICATION SemSpec
CONSTANTS
    a = a
    b = b
    c = c
    Idle = Idle
    sem = sem
    Thread = {a, b}
    MinPriority = 2
    TimesliceTicks = 1
    CountMod = 2
    WaitQueue = {sem}
    MaxSuspend = 1
    MaxWakeup = 0
    MaxTicks = 1
    InitCount = 0
    MaxCount = 2
    Ops = {"twait", "trywait", "post", "tick"}
    BasePriority <- RankedPriority
INVARIANTS TimedWaitHasTimer
