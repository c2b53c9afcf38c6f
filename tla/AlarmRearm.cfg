SPECIFICATION AlarmsSpec
CONSTANTS
    p = p
    q = q
    Alarm = {p, q}
    TickMod = 16
    MaxCounter = 5
    Times = {1, 2, 3, 5, 8}
    Intervals = {0, 2}
    MaxDepth = 5
    RearmInside = TRUE
    EnableAhead = {2}
INVARIANTS QueuedIffEnabled
