SPECIFICATION Spec
CONSTANTS
    Notifiers = {idle}
    Ticker = idle
    DayLen = 3
    BootTime = 4
    SetTimes = {}
    PartTimes = {}
    Advances = {1}
    Horizon = 5
    NJobs = 3
    DaysPerWeek = 2
    QueueLen = 1
    JobInputs <- TableJobs
    GarbageTimes = {0}
INVARIANTS ArmedSound NoOverlap Mirror NoMissedAction
