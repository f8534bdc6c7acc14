SPECIFICATION Spec
CONSTANTS
    Notifiers = {idle}
    Ticker = idle
    DayLen = 3
    BootTime = 2
    SetTimes = {}
    PartTimes = {}
    Advances = {1}
    Horizon = 4
    NJobs = 2
    DaysPerWeek = 2
    QueueLen = 1
    JobInputs <- SleepJobs
    GarbageTimes = {0}
INVARIANT SleepTimerCleaned
