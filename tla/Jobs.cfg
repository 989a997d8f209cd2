SPECIFICATION FairSpec
CONSTANTS
    w1 = w1
    w2 = w2
    a = a
    s1 = s1
    Containers = {w1, w2}
    Projects = {a}
    Schedules = {s1}
    DailyJobs = {"exports"}
    DayLen = 2
    MaxHours = 2
    MaxRows = 1
    MaxFaults = 1
INVARIANTS AlarmedOnce AnomaliesAccounted MissedDaysHaveCauses
PROPERTIES DatabasesRenew
CHECK_DEADLOCK FALSE
