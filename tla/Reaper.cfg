SPECIFICATION ReaperSpec
CONSTANTS
    a = a
    b = b
    c = c
    reaper = reaper
    Idle = Idle
    getq = getq
    putq = putq
    cleanup_sem = cleanup_sem
    None = None
    Thread = {a, b, c, reaper}
    Item = {a, b, c}
    Size = 2
    MinPriority = 3
    TimesliceTicks = 1
    CountMod = 2
    WaitQueue = {getq, putq, cleanup_sem}
    MaxSuspend = 0
    MaxWakeup = 0
    MaxTicks = 1
    Ops = {"get", "put", "wait", "post", "delay", "tick"}
    BasePriority <- AroundReaper
INVARIANTS FreedIsGone PostStillComing
PROPERTIES EveryThreadReaped
