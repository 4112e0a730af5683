SPECIFICATION CandidateSpec
CONSTANTS
    Cex = {"c1", "c2", "c3"}
    Pools = {"p1", "p2", "p3"}
    Chain <- Chains
    Setups <- Four
    TakerFee <- Fee1
    Withdrawal <- Draw1
    Bridges <- Bridge1
    BridgeFee <- One
    BridgeTime = 400
    MaxBridge = 1200
    SlowBridge = 300
    FastBridge = 120
    Sure <- Weights1
    Ranks <- Weights2
    Thresholds <- Tiers1
    ProfitReference <- Fifty
    MinConfidence = 55
    MaxSpread <- Max1
    GasFloor <- Floor1
    BridgeFloor <- Floor1
    Notional <- Lot
    Hold <- Week
    MinAnnual <- Annual1
    QuoteAge = 0
    BookAge = 1
    PoolAge = 1
    FundingAge = 1
    Oldest = 2
    MinNet <- One
    MinRoi <- MinRoi1
    MinSize <- Twenty
    Tolerance <- Tolerances
    MinDepth <- Depths
    DepthReference <- Deep1
    MinScore <- Score1
    MaxGasShare <- Eighth
    Implausible <- Far
INVARIANTS
    DroppedIsRejected
    ClaimIsCash
    PublishedIsSound
    DegradedRanksBelow
    CollapseEndsSignal
