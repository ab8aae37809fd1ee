CONSTANTS
    Requests = {r1, r2}
    Probes = {p1, p2}
    OnlineSync = TRUE
SPECIFICATION FairSpec
CHECK_DEADLOCK FALSE
INVARIANTS
    TypeOK
    RequestsAreDrained
PROPERTIES
    NoWorkAfterStop
    ShutdownEnds
