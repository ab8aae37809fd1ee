CONSTANTS
    r1 = r1
    r2 = r2
    r3 = r3
    u1 = u1
    Requests = {r1, r2, r3}
    Users = {u1}
    UserOf <- OneUser
    Limits <- TwoLimits
    Default <- DefaultTwo
    NoRow = NoRow
    NoWindow = NoWindow
    Minute = 1
    Day = 2
    TTL = 1
    MaxTime = 4
SPECIFICATION Spec
SYMMETRY RequestSymmetry
CHECK_DEADLOCK FALSE
INVARIANTS
    TypeOK
    WindowsWithinLimit
    AdmissionsRemembered
    OverLimitNeedsOrphan
PROPERTIES
    LiveWindowKept
    LogIsKept
