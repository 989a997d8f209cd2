SPECIFICATION OrgSpec
CONSTANTS
    u1 = u1
    u2 = u2
    u3 = u3
    s1 = s1
    s2 = s2
    Users = {u1, u2, u3}
    Slots = {s1, s2}
    Budget = 2
    MaxTokens = 2
SYMMETRY Symmetry
INVARIANT OverspendIsBounded
PROPERTY OwnersAnswerForOwners
