CONSTANTS
    Providers = {paid, public}
    Primary = {paid}
    Sound = {public}
    Calls = {read, probe}
    FailThreshold = 2
    RetireThreshold = 5
    CooldownBase = 2
    CooldownMax = 3
    Hedge = 1
    MaxPerCall = 2
SPECIFICATION FairSpec
INVARIANTS
    FailsOnlyExhausted
PROPERTIES
    BreakerCycle
    ServesAgain
