CHECK_DEADLOCK FALSE
SPECIFICATION Spec
CONSTANTS
    Deliveries = {d1, d2}
    Refused = {d1}
    Staff = {a1}
    DailyLimit = 1
    Passes = {p1, p2}
    MaxCrashes = 2
    None = None
INVARIANTS DailyLimitHolds
