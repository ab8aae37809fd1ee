CONSTANTS
    p1 = p1
    p2 = p2
    Providers = {p1, p2}
    Requests = {r1}
    ComboItems <- ComboBoth
    Serving = {p1, p2}
    HasURL = {}
    Edited = {}
    Target = p1
    DirectTicks = 1
    ComboTicks = 1
    ComboTicksCap = 1
    HealthTicks = 1
    HealthThreshold = 2
    MaxAttempts = 2
    MaxBackoff = 1
    BumpsBackoff = FALSE
    StoreMayFail = TRUE
    StatementsEnd = TRUE
SPECIFICATION FairSpec
PROPERTIES
    RequestsFinish
    GetsCloser
