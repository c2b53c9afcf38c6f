SPECIFICATION FlagSpec
CONSTANTS
    a = a
    b = b
    c = c
    Idle = Idle
    flagq = flagq
    Thread = {a, b}
    Bits = {1, 2}
    MinPriority = 2
    TimesliceTicks = 1
    CountMod = 2
    WaitQueue = {flagq}
    MaxSuspend = 0
    MaxWakeup = 0
    MaxTicks = 1
    Ops = {"release", "kill", "tick", "setbits", "maskbits", "poll", "fwait", "ftimed", "destroy"}
    BasePriority <- RankedPriority
INVARIANTS NoMatchingSleeper BreakXorResult
PROPERTIES ClearedEventsTakenOnce WaitOrderKept
