SPECIFICATION MboxSpec
CONSTANTS
    a = a
    b = b
    c = c
    Idle = Idle
    getq = getq
    putq = putq
    None = None
    Thread = {a, b}
    Item = {1, 2}
    Size = 2
    MinPriority = 2
    TimesliceTicks = 1
    CountMod = 2
    WaitQueue = {getq, putq}
    MaxSuspend = 0
    MaxWakeup = 0
    MaxTicks = 1
    Ops = {"release", "kill", "tick", "get", "tget", "tryget", "put", "tput", "tryput"}
    BasePriority <- RankedPriority
INVARIANTS MboxTypeOK MboxWaitersQueued NoStrandedMessage NoStrandedSlot
PROPERTIES ImplementsFifo
