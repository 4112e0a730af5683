CONSTANTS
    u1 = u1
    Users = {u1}
    Purchases = {p1}
    None = None
    Handlers = {h1, h2}
    HandlerUser <- MCHandlerUser
    Staff = {s1, s2}
    MaxTaps = 2
    MaxOrders = 1
    Jobs = {j1}
    Threshold = 1
    MaxPresses = 3
SPECIFICATION BackofficeSpec
CHECK_DEADLOCK FALSE
INVARIANTS
    DecisionStands
    TwoPersonRule
PROPERTY OnboardingAdvances
