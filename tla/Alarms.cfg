SPECIFICATION AlarmsSpec
CONSTANTS
    p = p
    q = q
    Alarm = {p, q}
    TickMod = 16
    MaxCounter = 5
    Times = {1, 2, 3, 5, 8}
    Intervals = {0, 1, 2, 3}
    MaxDepth = 5
    RearmInside = FALSE
    EnableAhead = {1, 2}
INVARIANTS QueuedIffEnabled InPhase
PROPERTIES NoAlarmMissed
