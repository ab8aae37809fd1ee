CONSTANTS
    Keys = {k1}
    Calls = {c1}
    Admins = {a1, a2}
    UserIds = {u1}
    Roles = {"admin"}
    NoUser = NoUser
    Terms = {soon}
    Never = Never
    NoKey = NoKey
    MaxKeys = 1
SPECIFICATION Spec
INVARIANT BannedOwnerRefused
