CONSTANTS
    a = a
    b = b
    c = c
    d = d
    Venues = {a, b, c, d}
    Pools = {d}
    Levels = {100, 115, 130}
    Setups <- MCSetups
    MaxSane = 20
    CrossDeviation = 10
    MadK = 5
    Window = 3
    Warmup = 2
SPECIFICATION Spec
INVARIANTS
    CacheAgrees
    ConfirmedIsBelieved
PROPERTY
    DelistedOnEvidence
