SPECIFICATION FairPoolSpec
CONSTANTS
    Pairs = {"eth", "btc"}
    Tiers = {1, 2}
    Curated <- CuratedPool
    Calls = 2
    Batch = 3
    Interval = 1
    MaxBlock = 1
INVARIANTS
    OneBlock
PROPERTIES
    BestPoolReturns
