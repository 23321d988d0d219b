\* Two session threads on the unlocked counter, two epochs of the limit, a reset, the end of a day.
CONSTANTS
    a1 = a1  a2 = a2
    Clients = {a1, a2}
    Limit = 2
    Period = 1
    Day = 3
    MaxCalls = 4
    MaxTime = 3
SPECIFICATION LimiterSpec
INVARIANTS LimiterTypeOK LimitExact
CHECK_DEADLOCK FALSE
