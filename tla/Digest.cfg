\* Two members; day 1 is a Monday, day 2 the first of a month.
SPECIFICATION FairSpec
CONSTANTS
    Users = {u1, u2}
    NoOne = NoOne
    MaxDays = 2
    WeeklyDue = {1}
    MonthlyDue = {2}
    MaxSubs = 2
    MaxFaults = 1
INVARIANTS
    LedgerMeansMailed
    TwiceNeedsACause
PROPERTY
    DueDigestIsRecorded
