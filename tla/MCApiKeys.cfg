CONSTANTS
    Keys = {k1, k2, k3, k4}
    Calls = {c1, c2}
    Admins = {a1, a2}
    UserIds = {u1}
    Roles = {"admin"}
    NoUser = NoUser
    Terms = {soon}
    Never = Never
    NoKey = NoKey
    MaxKeys = 2
SPECIFICATION Spec
SYMMETRY KeySymmetry
INVARIANTS
    TypeOK
    KeysBounded
    AnsweredIsRevoked
    DeadKeyRefused
    BannedNeedsOverwrite
