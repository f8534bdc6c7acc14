SPECIFICATION Spec
CONSTANTS
    Idle = idle
    Si = si
    Setters = {}
    DayLen = 2
    HourLen = 1
    Days = 2
    Tick = 2
    OsWrap = 9
    HourWrap = 4
    TensWrap = 3
    BootTime = 2
    Broadcasts = {1}
    ManualTimes = {3}
    Offsets <- Zones
    Late = 3
    Span = 4
INVARIANT BroadcastTimeKept
