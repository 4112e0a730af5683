CONSTANTS
    u1 = u1
    t1 = t1
    t2 = t2
    h1 = h1
    i1 = i1
    i2 = i2
    Users = {u1}
    MaxPurchases = 1
    Invoices = {i1, i2}
    Taps = {t1}
    Hooks = {h1}
    Reconciler = Reconciler
    TapUser <- MCTapUser
    firstPrice = 100
    Prices = {100}
    ComingSoon = ComingSoon
    None = None
    MaxCrashes = 0
SPECIFICATION Spec
CHECK_DEADLOCK FALSE
INVARIANT ChargedIsGranted
