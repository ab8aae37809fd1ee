CONSTANTS
    r1 = r1
    r2 = r2
    r3 = r3
    u1 = u1
    Requests = {r1, r2}
    Users = {u1}
    UserOf <- OneUser
    Limits <- OneLimit
    Default <- DefaultOne
    NoRow = NoRow
    NoWindow = NoWindow
    Minute = 1
    Day = 2
    TTL = 1
    MaxTime = 4
SPECIFICATION Spec
CHECK_DEADLOCK FALSE
INVARIANT LimitHolds
