\* Two requests at a time, three events of two subscriptions, one failure.
SPECIFICATION FairSpec
CONSTANTS
    Paid = {pro}
    FreePlan = FreePlan
    NoPlan = NoPlan
    Subs = {s1, s2}
    Requests = {r1, r2}
    MaxEvents = 3
    MaxFaults = 1
INVARIANTS
    AppliedOnce
    AckedIsApplied
    PlanIsStripes
PROPERTY
    EveryEventIsApplied
