SPECIFICATION Spec
CONSTANTS
    None = None
    w1 = w1
    w2 = w2
    Sockets = {w1, w2}
    DayLen = 2
    WeekLen = 2
    MaxCopies = 2
    MaxRows = 3
    Rows <- MCRows
    Periods <- MCPeriods
    Funnels <- MCFunnels
    Goals <- MCGoals
INVARIANTS TypeOK ScopesHold CopiesDoNotCount AnswersAddUp SocketsAreServed
CHECK_DEADLOCK FALSE
