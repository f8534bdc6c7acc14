SPECIFICATION FairSpec
CONSTANTS
    Notifiers = {idle, si}
    Ticker = idle
    DayLen = 2
    BootTime = 1
    SetTimes = {2}
    PartTimes = {}
    Advances = {1}
    Horizon = 2
    NJobs = 2
    DaysPerWeek = 2
    QueueLen = 1
    JobInputs <- MeetJobs
    GarbageTimes = {0}
PROPERTIES NotifyReturns TaskReturns
