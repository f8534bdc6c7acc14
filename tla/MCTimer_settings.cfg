SPECIFICATION Spec
CONSTANTS
    Notifiers = {idle, si}
    Ticker = idle
    DayLen = 2
    BootTime = 1
    SetTimes = {1, 2}
    PartTimes = {}
    Advances = {1}
    Horizon = 0
    NJobs = 2
    DaysPerWeek = 2
    QueueLen = 1
    JobInputs <- BackJobs
    GarbageTimes = {0}
INVARIANT Covered
PROPERTIES KeepsFutureJobs HoldEnds
