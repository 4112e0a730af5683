------------------------------- MODULE Pricing -------------------------------
(* What a round trip between two venues earns, and whether that is enough:    *)
(* scanner/profit/ (legs, engine, fee inputs), scanner/liquidity/analyzer.py, *)
(* the book and pool mathematics of scanner/mathx.py and the gates of         *)
(* scanner/validation/validator.py. Rates and tolerances are fractions, not   *)
(* percents. The bisections of mathx are replaced by what they converge to.   *)
(* Left out: the cross-quote conversion (every pair is quoted in USDT).       *)
EXTENDS Integers, Sequences, FiniteSets, Fractions

CONSTANTS
    MinNet, MinRoi,        \* min_net_profit_usd, min_roi_pct
    MinSize,               \* min_tradeable_size_usd
    Tolerance, MinDepth,   \* max_slippage_*_pct and min_liquidity_*_usd, per type
    DepthReference,        \* liquidity_reference_usd
    MinScore,              \* liquidity_score_floor, of 100
    MaxGasShare,           \* max_gas_pct_of_gross
    Implausible,           \* implausible_spread_pct
    MinConfidence          \* confidence_threshold

None == <<>>               \* no fill, or a fee that is not known
Types == {"CEX", "DEX"}

Amount == {a \in Fraction : Nil \preceq a}
Price  == {a \in Fraction : Nil \prec a}

ASSUME PricingAssumption ==
    /\ MinNet \in Amount /\ MinRoi \in Amount /\ MinScore \in Fraction
    /\ DepthReference \in Price
    /\ \A t \in Types : Tolerance[t] \in Price

(* A book: [type |-> "CEX", asks, bids] with levels <<price, quantity>>, best *)
(* first (domain/market.py:92), or [type |-> "DEX", base, quote, fee], the    *)
(* reserves of a pool.                                                        *)
Shelf == Seq(Price \X Price) \ {<<>>}
IsBook(b) ==
    CASE b.type = "CEX" ->
            /\ b.asks \in Shelf /\ b.bids \in Shelf
            /\ \A i, j \in DOMAIN b.asks : i <= j => b.asks[i][1] \preceq b.asks[j][1]
            /\ \A i, j \in DOMAIN b.bids : i <= j => b.bids[j][1] \preceq b.bids[i][1]
      [] b.type = "DEX" ->
            b.base \in Price /\ b.quote \in Price /\ b.fee \in Amount /\ b.fee \prec One
      [] OTHER -> FALSE

Spot(b)       == b.quote \oslash b.base
Levels(b, side) == IF side = "buy" THEN b.asks ELSE b.bids
Best(b, side) == IF b.type = "DEX" THEN Spot(b) ELSE Levels(b, side)[1][1]

(* vwap_fill_price: the average price of `size` coins, None past the depth.   *)
Take(acc, l, coins) == [left |-> acc.left \ominus coins,
                        paid |-> acc.paid \oplus coins \otimes l[1]]
Fill(acc, l) == Take(acc, l, Least(acc.left, l[2]))
Walked(levels, size) ==
    LET after[i \in 0..Len(levels)] ==
            IF i = 0 THEN [left |-> size, paid |-> Nil] ELSE Fill(after[i - 1], levels[i])
    IN  after
Walk(levels, size) == Walked(levels, size)[Len(levels)]
Average(walk, size) == IF walk.left = Nil THEN walk.paid \oslash size ELSE None
Vwap(levels, size)  == Average(Walk(levels, size), size)

(* max_fillable_within_slippage: up to where the average price is as bad as   *)
(* `limit`, a tolerance worse than the best one.                              *)
Worse(side, a, b)       == IF side = "buy" THEN b \prec a ELSE a \prec b
Limit(side, best, tol)  == IF side = "buy" THEN best \oplus best \otimes tol
                           ELSE best \ominus best \otimes tol
Magnitude(a)            == <<Size(a[1]), a[2]>>
(* The coins at price l[1] that bring the average to the limit.               *)
Part(acc, l, limit) ==
    Magnitude((acc.coins \otimes limit \ominus acc.paid)
                  \otimes (One \oslash Magnitude(l[1] \ominus limit)))
Filled(acc, l, all, limit, side) ==
    IF acc.full THEN acc
    ELSE IF Worse(side, all.paid \oslash all.coins, limit)
    THEN [acc EXCEPT !.coins = @ \oplus Part(acc, l, limit), !.full = TRUE]
    ELSE all
Deepen(acc, l, limit, side) ==
    Filled(acc, l, [coins |-> acc.coins \oplus l[2], full |-> FALSE,
                    paid |-> acc.paid \oplus l[2] \otimes l[1]], limit, side)
Deepened(levels, limit, side) ==
    LET after[i \in 0..Len(levels)] ==
            IF i = 0 THEN [coins |-> Nil, paid |-> Nil, full |-> FALSE]
            ELSE Deepen(after[i - 1], levels[i], limit, side)
    IN  after
MaxCoins(levels, limit, side) == Deepened(levels, limit, side)[Len(levels)].coins

(* amm_output, and amm_max_size_within_slippage: the fee is skimmed off the   *)
(* input and does not count as impact.                                        *)
Kept(b) == One \ominus b.fee
Swapped(in, out, amount) == out \otimes (amount \oslash (in \oplus amount))
AmmOut(in, out, amount, kept) == Swapped(in, out, amount \otimes kept)
MaxInput(in, kept, tol) == Least(in, (tol \otimes in) \oslash kept)

(* LiquidityLeg: sizes are in dollars at the best price.                      *)
CexUsd(levels, best, tol, side) ==
    MaxCoins(levels, Limit(side, best, tol), side) \otimes best
MaxUsd(b, side) ==
    IF b.type = "CEX"
    THEN CexUsd(Levels(b, side), Best(b, side), Tolerance["CEX"], side)
    ELSE IF side = "buy" THEN MaxInput(b.quote, Kept(b), Tolerance["DEX"])
    ELSE MaxInput(b.base, Kept(b), Tolerance["DEX"]) \otimes Spot(b)

(* fill_price, as what it is used for: the price paid for `usd`, and what     *)
(* `coins` bring in.                                                          *)
BuyFill(b, usd) ==
    IF b.type = "CEX" THEN Vwap(b.asks, usd \oslash Best(b, "buy"))
    ELSE usd \oslash AmmOut(b.quote, b.base, usd, Kept(b))
Proceeds(walk) == IF walk.left = Nil THEN walk.paid ELSE None
Received(b, coins) ==
    IF b.type = "DEX" THEN AmmOut(b.base, b.quote, coins, Kept(b))
    ELSE Proceeds(Walk(b.bids, coins))

PoolFee(b, usd) == IF b.type = "DEX" THEN b.fee \otimes usd ELSE Nil

------------------------------------------------------------------------------
(* FeeInputs: [buy, sell] are rates on the notional; withdrawal, gas and      *)
(* bridge are dollars, None when they could not be resolved.                  *)
OrZero(x) == IF x = None THEN Nil ELSE x
Resolved(fees) == None \notin {fees.withdrawal, fees.gas, fees.bridge}

(* The coins that are bought at the fill price are the coins that are sold.   *)
(* Mutant: the quantity is taken at the best price, as it once was.           *)
BoughtAtBest(usd, buyBest, buyFill) == usd \oslash buyBest
Bought(usd, buyBest, buyFill) == usd \oslash buyFill

(* compute_at_size: what moves the price, and what is charged, for coins that *)
(* are bought for `usd` and sold for `received`.                              *)
Effects(usd, coins, buyBest, sellBest, buyFill, received, fees) ==
    [usd |-> usd, coins |-> coins,
     gross    |-> coins \otimes (sellBest \ominus buyBest),
     buySlip  |-> Most(Nil, (buyFill \ominus buyBest) \otimes coins),
     sellSlip |-> Most(Nil, coins \otimes sellBest \ominus received),
     worth    |-> coins \otimes sellBest,
     rates    |-> usd \otimes fees.buy \oplus received \otimes fees.sell,
     flat     |-> OrZero(fees.withdrawal) \oplus OrZero(fees.gas) \oplus OrZero(fees.bridge),
     gas      |-> OrZero(fees.gas),
     spread   |-> (sellBest \ominus buyBest) \oslash buyBest]
(* Both books price a pool's fee in; it is shown as a fee, not as slippage.   *)
PoolPart(e, buy, sell) == Least(PoolFee(buy, e.usd), e.buySlip)
                              \oplus Least(PoolFee(sell, e.worth), e.sellSlip)
Breakdown(e, pools, net) ==
    [usd |-> e.usd, coins |-> e.coins, gross |-> e.gross, net |-> net,
     roi |-> net \oslash e.usd, trading |-> e.rates \oplus pools,
     slippage |-> (e.buySlip \oplus e.sellSlip) \ominus pools, flat |-> e.flat,
     gas |-> e.gas, spread |-> e.spread]
Accounted(e, buy, sell) ==
    Breakdown(e, PoolPart(e, buy, sell),
              e.gross \ominus e.buySlip \ominus e.sellSlip \ominus e.rates \ominus e.flat)
Sale(usd, coins, buyFill, received, buy, sell, fees) ==
    IF received = None THEN None
    ELSE Accounted(Effects(usd, coins, Best(buy, "buy"), Best(sell, "sell"),
                           buyFill, received, fees), buy, sell)
Purchase(usd, buyFill, coins, buy, sell, fees) ==
    Sale(usd, coins, buyFill, Received(sell, coins), buy, sell, fees)
AtFill(usd, buyFill, buy, sell, fees) ==
    IF buyFill = None THEN None
    ELSE Purchase(usd, buyFill, Bought(usd, Best(buy, "buy"), buyFill), buy, sell, fees)
AtSize(usd, buy, sell, fees) == AtFill(usd, BuyFill(buy, usd), buy, sell, fees)

Depth(buy, sell) == Least(MaxUsd(buy, "buy"), MaxUsd(sell, "sell"))

(* optimize: a quarter, half, three quarters and all of the thinner leg.      *)
Sizes(depth, buy, sell, fees) ==
    {AtSize(depth \otimes Frac(i, 4), buy, sell, fees) : i \in 1..4} \ {None}
Sweep(buy, sell, fees) == Sizes(Depth(buy, sell), buy, sell, fees)
Richest(s) == CHOOSE b \in s : \A c \in s :
    c.net \prec b.net \/ (c.net = b.net /\ b.usd \preceq c.usd)
Largest(s) == CHOOSE b \in s : \A c \in s : c.usd \preceq b.usd

EligibleSizes(s) == {b \in s : MinRoi \preceq b.roi}
Recommended(s) == Richest(IF EligibleSizes(s) = {} THEN s ELSE EligibleSizes(s))
Profitable(s)    == {b \in s : MinNet \preceq b.net}
MaxPosition(s) == IF Profitable(s) = {} THEN Recommended(s).usd
                  ELSE Largest(Profitable(s)).usd

(* LiquidityAnalyzer.score: depth against the reference and balance, 3 to 1,  *)
(* and a fifth for how little the prices disperse, once that is known.        *)
Scored(b, s) ==
    Whole(25) \otimes (Whole(3) \otimes Least(One, Least(b, s) \oslash DepthReference)
                           \oplus (Whole(2) \otimes Least(b, s)) \oslash (b \oplus s))
Score(buy, sell, noise) ==
    IF noise = None THEN Scored(MaxUsd(buy, "buy"), MaxUsd(sell, "sell"))
    ELSE Frac(4, 5) \otimes Scored(MaxUsd(buy, "buy"), MaxUsd(sell, "sell"))
             \oplus Most(Nil, Whole(20) \ominus Frac(2, 5) \otimes noise)

(* validate: the gates in their order, each with the reason it rejects for,   *)
(* over what the assembler measured of a candidate. That a DEX token is       *)
(* verified, that a bridge has a route and that the trading rates are known   *)
(* holds for every candidate.                                                 *)
FeesResolved(fees) == Resolved(fees)
Gates(m) ==
    << <<Implausible \prec m.spread, "IMPLAUSIBLE_SPREAD">>,
       <<~m.bridged, "BRIDGE_TIME_EXCEEDED">>,
       <<m.net \prec MinNet \/ m.roi \prec MinRoi, "BELOW_MIN_PROFIT">>,
       <<m.depth \prec m.floor \/ m.score \prec MinScore \/ m.usd \prec MinSize,
         "INSUFFICIENT_LIQUIDITY">>,
       <<m.position \prec MinSize, "NO_VIABLE_SIZE">>,
       <<~FeesResolved(m.fees), "MISSING_FEE_DATA">>,
       <<m.net \preceq Nil, "UNPROFITABLE_AFTER_FEES">>,
       <<Nil \prec m.gross /\ m.gross \otimes MaxGasShare \prec m.gas,
         "GAS_EXCEEDS_LIMIT">>,
       <<~m.warm, "NOT_WARMED_UP">>,
       <<~m.fresh, "STALE_DATA">>,
       <<~m.up, "EXCHANGE_NOT_ONLINE">>,
       <<m.conf < MinConfidence, "LOW_CONFIDENCE">> >>
Failed(gates) == {i \in DOMAIN gates : gates[i][1]}
First(s)      == CHOOSE i \in s : \A j \in s : i <= j
Reason(gates) == IF Failed(gates) = {} THEN "SIGNAL" ELSE gates[First(Failed(gates))][2]
Validate(m)   == Reason(Gates(m))

------------------------------------------------------------------------------
(* The reference: the dollars that exactly these coins cost, order by order.  *)
Paid(b, coins) ==
    IF b.type = "CEX" THEN Walk(b.asks, coins).paid
    ELSE (b.quote \otimes coins) \oslash ((b.base \ominus coins) \otimes Kept(b))
==============================================================================
