CONSTANTS
    Signals = {a, b, c}
    Passes = {w1, w2}
    Views = {v1}
    MaxBusy = 2
    Quota = 1
    MaxPending = 1
    PageSize = 2
    MaxPublished = 3
    MaxFailures = 1
SYMMETRY Symmetric
SPECIFICATION Spec
CHECK_DEADLOCK FALSE
INVARIANTS
    ChargedIffReceived
    OvershootIsConcurrency
    RepeatsOverlap
    NoticeIsTried
    RepeatedOnlyByRace
