SPECIFICATION SemSpec
CONSTANTS
    a = a
    b = b
    c = c
    Idle = Idle
    sem = sem
    Thread = {a, b, c}
    MinPriority = 2
    TimesliceTicks = 1
    CountMod = 2
    WaitQueue = {sem}
    MaxSuspend = 1
    MaxWakeup = 0
    MaxTicks = 1
    InitCount = 0
    MaxCount = 2
    Ops = {"release", "kill", "tick", "wait", "twait", "trywait", "post"}
    BasePriority <- RankedPriority
INVARIANTS SemTypeOK SleepersAreQueued NoLostPost
