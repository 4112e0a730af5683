CONSTANTS
    okx = okx
    bybit = bybit
    spot = spot
    carry = carry
    pair = pair
    Venues = {okx, bybit}
    Routes = {spot}
    VenuesOf <- MCVenuesOf
    PairOf <- MCPairOf
    TTL <- MCTTL
    Cooldown <- MCCooldown
    Rolling = {carry}
    Nets = {1, 3}
    Threshold = 2
SPECIFICATION FairSpec
CHECK_DEADLOCK FALSE
INVARIANTS
    ListedIsActive
    ArchivedOnce
PROPERTIES
    KeepsContract
    EveryLifeEnds
