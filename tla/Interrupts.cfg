SPECIFICATION InterruptsSpec
CONSTANTS
    a = a
    b = b
    clk = clk
    eth = eth
    Idle = Idle
    Thread = {a, b}
    Intr = {clk, eth}
    MaxLock = 2
    MaxPost = 2
INVARIANTS DsrsNeverNested LockIsPerThread EveryPostCounted NoDsrLeftBehind
PROPERTIES EveryDsrRuns
