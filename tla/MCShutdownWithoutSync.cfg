CONSTANTS
    Requests = {r1}
    Probes = {p1}
    OnlineSync = FALSE
SPECIFICATION FairSpec
CHECK_DEADLOCK FALSE
PROPERTY ShutdownEnds
