SPECIFICATION Spec
CONSTANTS
    Idle = idle
    Si = si
    Setters = {ui}
    DayLen = 2
    HourLen = 1
    Days = 2
    Tick = 2
    OsWrap = 6
    HourWrap = 3
    TensWrap = 2
    BootTime = 1
    Broadcasts = {1}
    ManualTimes = {1}
    Offsets <- West
    Late = 3
    Span = 3
INVARIANTS TypeOK NoDrift
PROPERTY ImplementsClock
