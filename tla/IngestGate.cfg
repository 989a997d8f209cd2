\* One replica, two requests racing for its caches, a batch of two steps over a
\* cutoff, two cutoffs and no limit to change between.
SPECIFICATION FairSpec
CONSTANTS
    Keys = {k1}
    Replicas = {p1}
    Requests = {q1, q2}
    None = None
    MaxBatch = 2
    Cutoffs = {1, 2}
    Unlimited = Unlimited
    Full = 3
INVARIANT
    QuotaHolds
PROPERTIES
    RevokedKeyDies
    PlanTakesHold
