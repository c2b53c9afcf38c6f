SPECIFICATION Spec
CONSTANTS
    a = a
    b = b
    c = c
    Idle = Idle
    Thread = {a, b}
    MinPriority = 2
    TimesliceTicks = 1
    CountMod = 2
    WaitQueue = {}
    MaxSuspend = 1
    MaxWakeup = 1
    MaxTicks = 1
    Ops = {"suspend", "resume", "kill", "set_priority", "counted", "yield", "rotate_queue", "delay0", "tick"}
    BasePriority <- SplitPriority
INVARIANTS TypeOK RunQueuesConsistent BestThreadRuns SleepersCanBeWoken SuspendCountAgrees NoStaleTimer KilledNeverReturns
PROPERTIES DeathIsFinal
