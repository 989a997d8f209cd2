SPECIFICATION Spec
CONSTANTS
    Users = {u1}
    NoOne = NoOne
    MaxDays = 1
    WeeklyDue = {1}
    MonthlyDue = {}
    MaxSubs = 1
    MaxFaults = 1
INVARIANT
    UnsubscribeHonored
