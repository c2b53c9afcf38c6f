SPECIFICATION MutexSpec
CONSTANTS
    a = a
    b = b
    c = c
    mtx = mtx
    cv = cv
    Idle = Idle
    None = None
    Thread = {a, b, c}
    Mutexes = {mtx}
    Condvars = {}
    Protocols = {"INHERIT"}
    FirstProtocol = "INHERIT"
    Ceilings = {0}
    MaxHeld = 1
    MinPriority = 3
    TimesliceTicks = 1
    CountMod = 2
    WaitQueue = {mtx}
    MaxSuspend = 0
    MaxWakeup = 0
    MaxTicks = 1
    Ops = {"delay", "release", "tick", "lock", "trylock"}
    BasePriority <- RankedPriority
INVARIANTS NoLostWakeup OwnerIsUrgent PriorityGivenBack
PROPERTIES BasePriorityKept
