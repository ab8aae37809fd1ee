CONSTANTS
    Requests = {r1, r2}
    Caps = {0, 1}
    MaxTokens = 1
    MaxUsed = 3
    NoQuota = NoQuota
    NoEdit = NoEdit
SPECIFICATION Spec
SYMMETRY RequestSymmetry
INVARIANTS
    TypeOK
    BoundedOvershoot
    LedgerExact
    CutIsTold
    EndedIsRecorded
    EventsMatchAnswers
PROPERTIES
    AnswersKept
