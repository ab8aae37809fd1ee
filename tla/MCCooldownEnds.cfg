CONSTANTS
    p1 = p1
    p2 = p2
    Providers = {p1}
    Requests = {r1}
    ComboItems <- ComboNone
    Serving = {p1}
    HasURL = {p1}
    Edited = {}
    Target = p1
    DirectTicks = 1
    ComboTicks = 1
    ComboTicksCap = 1
    HealthTicks = 1
    HealthThreshold = 2
    MaxAttempts = 3
    MaxBackoff = 2
    BumpsBackoff = TRUE
    StoreMayFail = FALSE
    StatementsEnd = TRUE
SPECIFICATION BusySpec
PROPERTY CooldownEnds
