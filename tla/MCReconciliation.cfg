CONSTANTS
    btc = btc
    ada = ada
    wif = wif
    Symbols = {btc, ada, wif}
    Feeds <- MCFeeds
    Rankings <- MCRankings
    Cex = {"c1", "c2"}
    Pools = {"p1", "p2", "p3"}
    Chain <- Networks
    Market <- Books
    Carried <- Rates
    Base <- Cadences
    Backoff = 2
    IdleAfter = 1
    Worlds <- MCWorlds
    MaxFails = 1
SPECIFICATION FairNetSpec
CHECK_DEADLOCK FALSE
INVARIANTS
    SeenInTime
    NoChangeLost
    BoundedBypass
PROPERTY
    RankedAreServed
