SPECIFICATION FairSpec
CONSTANTS
    a = a
    b = b
    c = c
    Idle = Idle
    Thread = {a, b, c}
    MinPriority = 1
    TimesliceTicks = 2
    CountMod = 4
    WaitQueue = {}
    MaxSuspend = 0
    MaxWakeup = 0
    MaxTicks = 1
    Ops = {"release", "tick"}
    BasePriority <- EqualPriority
PROPERTIES EqualsTakeTurns
