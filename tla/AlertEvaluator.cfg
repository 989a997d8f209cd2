\* Two rules, one in hand while the other is patched or deleted; as many
\* failures as one notification has attempts.
SPECIFICATION FairSpec
CONSTANTS
    Rules = {r1, r2}
    NoRule = NoRule
    MaxMoves = 2
    MaxFaults = 3
INVARIANTS
    OneOpenEvent
    ChannelTellsTheState
    AnnouncedOnce
PROPERTY
    EventsFollowTheMetric
