SPECIFICATION MutexSpec
CONSTANTS
    a = a
    b = b
    c = c
    mtx = mtx
    cv = cv
    Idle = Idle
    None = None
    Thread = {a, b}
    Mutexes = {mtx}
    Condvars = {cv}
    Protocols = {"INHERIT", "CEILING"}
    FirstProtocol = "INHERIT"
    Ceilings = {0, 1}
    MaxHeld = 1
    MinPriority = 2
    TimesliceTicks = 1
    CountMod = 2
    WaitQueue = {mtx, cv}
    MaxSuspend = 0
    MaxWakeup = 0
    MaxTicks = 1
    Ops = {"release", "kill", "tick", "lock", "mutex_release", "set_ceiling", "set_protocol", "cond", "ctimed"}
    BasePriority <- SplitPriority
INVARIANTS MutexCountAgrees WaitersAreQueued
PROPERTIES CondWaitReturnsOwner
