CONSTANTS
    Kinds = {"cex", "dex"}
    Shards = {s1, s2}
    Recovery = 3
    FailMax = 3
    Stale <- MCStale
    OfflineAfter = 3
    IdleWindow = 2
    MaxAge = 4
    NoData = NoData
SPECIFICATION FairHealthSpec
CHECK_DEADLOCK FALSE
PROPERTIES
    RecoveryEarned
    FreshVenueStays
    DeadFeedLeaves
    LiveFeedReturns
