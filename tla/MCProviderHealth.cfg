CONSTANTS
    p1 = p1
    p2 = p2
    Providers = {p1}
    Requests = {r1}
    ComboItems <- ComboOne
    Serving = {p1}
    HasURL = {p1}
    Edited = {p1}
    Target = p1
    DirectTicks = 1
    ComboTicks = 2
    ComboTicksCap = 2
    HealthTicks = 1
    HealthThreshold = 2
    MaxAttempts = 3
    MaxBackoff = 2
    BumpsBackoff = TRUE
    StoreMayFail = TRUE
    StatementsEnd = TRUE
SPECIFICATION Spec
INVARIANTS
    TypeOK
    CooldownHasDeadline
PROPERTIES
    CooldownEnteredOnlyBy
    CooldownLiftedOnlyBy
    DisabledLeftOnlyBy
