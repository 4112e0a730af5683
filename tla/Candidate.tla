------------------------------ MODULE Candidate ------------------------------
(* From a tick to a verdict: the five detectors (scanner/detectors/), the     *)
(* assembler (scanner/assembler.py) and what the engine does with its answer  *)
(* (engine.py, _process_symbol and _handle_candidate), for one pair.          *)
(*                                                                            *)
(* A tick reads every venue at one instant; a candidate with a DEX leg then   *)
(* waits for gas prices while time, quotes and venues move, and is judged on  *)
(* the books it took before. The live signals are those of SignalLifecycle,   *)
(* here only their routes; outages are those of VenueHealth.                  *)
(*                                                                            *)
(* Abstracted: the candidates of a tick are handled in any order; equal       *)
(* quotes are told apart by CHOOSE as the program does by iteration order;    *)
(* the price history, the quality of the venues and the hit rate of the route *)
(* are one of the setup's records when a candidate is judged, and venues are  *)
(* warmed up. Of a venue, quote and book age together.                        *)
EXTENDS Pricing, Ranking

CONSTANTS
    Cex, Pools, Chain,     \* the venues, and the network of each pool
    Setups,                \* named: [states, gas, lead, silent, failing, evidence]
    TakerFee, Withdrawal,  \* per CEX
    Bridges,               \* pairs of networks with a route
    BridgeFee, BridgeTime, \* the flat fee and the time of one
    MaxBridge, SlowBridge, \* max_bridge_time_sec, and when it is a risk
    MaxSpread,             \* max_plausible_cex_spread_pct
    GasFloor,              \* detector_gas_estimate_usd per amortised dollar
    BridgeFloor,           \* the flat bridge fee per amortised dollar
    Notional, Hold,        \* funding_position_size_usd, the horizon in years
    MinAnnual,             \* funding_min_annualized_spread
    QuoteAge, BookAge, PoolAge, FundingAge, Oldest   \* freshness limits

AllVenues == Cex \cup Pools

IsDex(v)  == v \in Pools
(* An AMM takes its fee out of the swap; only a CEX charges one on top.       *)
Flat(v)   == IF IsDex(v) THEN Nil ELSE TakerFee[v]
Breakeven(buy, sell) ==
    (MinNet \oslash Notional \oplus Flat(buy) \oplus Flat(sell)) \oslash Hold

ASSUME CandidateAssumption ==
    /\ Cex \cap Pools = {}
    /\ QuoteAge \in Nat /\ BookAge \in Nat /\ PoolAge \in Nat /\ FundingAge \in Nat
    /\ Oldest \in Nat /\ QuoteAge <= BookAge /\ BookAge < Oldest /\ PoolAge < Oldest
    /\ \A v \in Cex : TakerFee[v] \in Amount /\ Withdrawal[v] \in Amount \cup {None}
    /\ BridgeFee \in Amount /\ GasFloor \in Amount /\ BridgeFloor \in Amount
    /\ Notional \in Price /\ Hold \in Price /\ MinAnnual \in Amount

(* What a venue can send, and what a candidate can be judged by. Evidence:    *)
(* per venue the last prices and funding rates, and the points that errors    *)
(* and latency cost (trouble); the archive of the route and whether it was    *)
(* looked up; whether the next rate is published.                             *)
IsState(v, s) ==
    /\ IsBook(s.book) /\ s.book.type = IF IsDex(v) THEN "DEX" ELSE "CEX"
    /\ ~IsDex(v) => /\ s.bid \in Price /\ s.ask \in Price
                    /\ s.rate \in (Fraction \X Nat) \cup {None}
Evidence == [window : [AllVenues -> Seq(Nat \ {0})], rates : [Cex -> Seq(Int)],
             degraded : SUBSET AllVenues, trouble : [AllVenues -> Nat],
             known : BOOLEAN, rows : Seq([reason : STRING, life : Nat]),
             predicted : BOOLEAN]
IsSetup(here, s) ==
    /\ here \subseteq AllVenues /\ IsFiniteSet(here)
    /\ \A v \in here : \A state \in s.states[v] : IsState(v, state)
    /\ \A price \in s.gas : \A v \in here \cap Pools : price[Chain[v]] \in Amount \cup {None}
    /\ s.evidence \subseteq Evidence
ASSUME SetupsAssumption == \A i \in DOMAIN Setups : IsSetup(DOMAIN Setups[i].states, Setups[i])

(* What the detectors charge for a swap or a bridge is a lower bound of what  *)
(* it costs at the size it is amortized over, and no book takes more than     *)
(* that (scanner_config.py:112, :117). What breaks even a carry is above the  *)
(* noise floor of rates (base.py:169): 36% a year to 5% as shipped.           *)
ASSUME FloorsAssumption ==
    /\ \A i \in DOMAIN Setups : \A v \in DOMAIN Setups[i].states \cap Pools :
          \A state \in Setups[i].states[v], side \in {"buy", "sell"} :
              /\ BridgeFloor \otimes MaxUsd(state.book, side) \preceq BridgeFee
              /\ \A price \in Setups[i].gas : price[Chain[v]] # None =>
                    GasFloor \otimes MaxUsd(state.book, side) \preceq price[Chain[v]]
    /\ \A u, v \in Cex : MinAnnual \preceq Breakeven(u, v)

VARIABLES
    setup,    \* which of them the program runs in
    market,   \* per venue: [bid, ask, rate, book]; a pool has only a book
    since,    \* per venue: since its last message
    down,     \* venues that may not carry a signal
    leaving,  \* ... whose signals have not been expired yet
    live,     \* routes with an active signal
    queue,    \* candidates of the tick not handled yet
    waiting,  \* the candidate that waits for gas, with the books it took
    said      \* what the last step decided, None after any other step

candidateVars == <<setup, market, since, down, leaving, live, queue, waiting, said>>
outside == <<setup, market, since, down, leaving>>

Now      == Setups[setup]
Here     == DOMAIN Now.states

Up(v)    == v \notin down
Book(v)  == market[v].book
Route(c) == <<c.type, {c.buy, c.sell}, c.chain>>

CandidateInit ==
    /\ setup \in DOMAIN Setups
    /\ market \in [Here -> UNION {Now.states[v] : v \in Here}]
    /\ \A v \in Here : market[v] \in Now.states[v]
    /\ since = [v \in Here |-> 0]
    /\ down = {} /\ leaving = {} /\ live = {} /\ queue = {}
    /\ waiting = None /\ said = None

------------------------------------------------------------------------------
(* DetectionContext                                                           *)
Quoting == {v \in Cex \cap Here : Up(v) /\ since[v] <= QuoteAge}
Pooling == {v \in Pools \cap Here : Up(v)}
Spread(buy, sell) == (sell \ominus buy) \oslash buy

Active(c) == Route(c) \in live
Fixed(c)  == CASE c.type = "CEX_CEX" -> Nil
               [] c.type = "CROSS_CHAIN" -> GasFloor \oplus BridgeFloor
               [] OTHER -> GasFloor
ClearsFloor(c) ==
    IF c.type = "FUNDING"
    THEN Most(MinAnnual, Breakeven(c.buy, c.sell)) \preceq c.spread
    ELSE Flat(c.buy) \oplus Flat(c.sell) \oplus Fixed(c) \oplus MinRoi \preceq c.spread

Opportunity(type, buy, sell, chain, spread) ==
    [type |-> type, buy |-> buy, sell |-> sell, chain |-> chain, spread |-> spread]

(* CexCexDetector: the lowest ask and the highest bid of all venues.          *)
Lowest(S, f(_))  == CHOOSE v \in S : \A w \in S : f(v) \preceq f(w)
Highest(S, f(_)) == CHOOSE v \in S : \A w \in S : f(w) \preceq f(v)
CexCex ==
    IF Cardinality(Quoting) < 2 THEN {}
    ELSE LET buy  == Lowest(Quoting, LAMBDA v : market[v].ask)
             sell == Highest(Quoting, LAMBDA v : market[v].bid)
             c    == Opportunity("CEX_CEX", buy, sell, None,
                                 Spread(market[buy].ask, market[sell].bid))
         IN  IF buy # sell /\ c.spread \preceq MaxSpread THEN {c} ELSE {}

(* CexDexDetector: the better direction of every CEX with every pool.         *)
CexDex ==
    LET Out(v, p)  == Opportunity("CEX_DEX", v, p, Chain[p],
                                  Spread(market[v].ask, Spot(Book(p))))
        Back(v, p) == Opportunity("CEX_DEX", p, v, Chain[p],
                                  Spread(Spot(Book(p)), market[v].bid))
    IN  {IF Back(v, p).spread \preceq Out(v, p).spread THEN Out(v, p) ELSE Back(v, p) :
            v \in Quoting, p \in Pooling}

(* DexDexDetector: two pools of one network, bought where the spot is lower.  *)
Cheaper(p, q) == Spot(Book(p)) \prec Spot(Book(q))
Apart(p, q)   == Spread(Spot(Book(p)), Spot(Book(q)))
DexDex ==
    {Opportunity("DEX_DEX", e[1], e[2], Chain[e[1]], Apart(e[1], e[2])) :
        e \in {f \in Pooling \X Pooling : Cheaper(f[1], f[2]) /\ Chain[f[1]] = Chain[f[2]]}}

(* CrossChainDetector: two pools whose networks a known bridge connects.      *)
CrossChain ==
    {Opportunity("CROSS_CHAIN", e[1], e[2], None, Apart(e[1], e[2])) :
        e \in {f \in Pooling \X Pooling :
                  Cheaper(f[1], f[2]) /\ {Chain[f[1]], Chain[f[2]]} \in Bridges}}

(* FundingDetector: rates of any age, of venues that are up. A rate is per    *)
(* settlement interval, and the legs are chosen by it; the spread is annual.  *)
Rated == {v \in Cex \cap Here : Up(v) /\ market[v].rate # None}
Annual(v) == market[v].rate[1] \otimes Whole(market[v].rate[2])
Funding ==
    IF Cardinality(Rated) < 2 \/ ~Now.lead THEN {}
    ELSE LET low  == Lowest(Rated, LAMBDA v : market[v].rate[1])
             high == Highest(Rated, LAMBDA v : market[v].rate[1])
         IN  IF low = high THEN {}
             ELSE {Opportunity("FUNDING", low, high, None,
                               Annual(high) \ominus Annual(low))}

Spots == CexCex \cup CexDex \cup DexDex \cup CrossChain
Seen  == {c \in Spots : Nil \prec c.spread} \cup Funding
Passes(c) == ClearsFloor(c) \/ Active(c)

Detect ==
    /\ queue = {} /\ waiting = None
    /\ queue' = {c \in Seen : Passes(c)}
    /\ said' = [kind |-> "tick"]
    /\ UNCHANGED <<outside, live, waiting>>

------------------------------------------------------------------------------
(* The assembler.                                                             *)
(* Mutant: the least profit is spread over the smallest size.                 *)
PreGatedAtMinSize(c) == c.spread \prec Flat(c.buy) \oplus Flat(c.sell)
                            \oplus MinRoi \oplus (MinNet \oslash MinSize)
PreGated(c) == c.spread \prec Flat(c.buy) \oplus Flat(c.sell) \oplus MinRoi
NeedsGas(c) == IsDex(c.buy) \/ IsDex(c.sell)

(* _resolve_fees: a purchase on a CEX is withdrawn from it; one on a DEX that *)
(* is sold on a CEX costs the withdrawal of the proceeds.                     *)
WithdrawalOf(c) ==
    CASE c.type = "CEX_CEX" -> Withdrawal[c.buy]
      [] c.type = "CEX_DEX" -> Withdrawal[IF IsDex(c.buy) THEN c.sell ELSE c.buy]
      [] OTHER -> Nil
Fees(c, gas) == [buy |-> Flat(c.buy), sell |-> Flat(c.sell),
                 withdrawal |-> WithdrawalOf(c), gas |-> gas,
                 bridge |-> IF c.type = "CROSS_CHAIN" THEN BridgeFee ELSE Nil]

(* _gas_estimate: one swap on the network of each pool, or unknown.           *)
GasOf(c, price) ==
    LET known == {v \in {c.buy, c.sell} : IsDex(v)}
    IN  IF \E v \in known : price[Chain[v]] = None THEN None
        ELSE (IF IsDex(c.buy) THEN price[Chain[c.buy]] ELSE Nil)
                 \oplus (IF IsDex(c.sell) THEN price[Chain[c.sell]] ELSE Nil)

MaxAge(c) == IF NeedsGas(c) THEN PoolAge ELSE BookAge
Oldness(w) == IF w.age[1] < w.age[2] THEN w.age[2] ELSE w.age[1]

(* What `optimize` and the liquidity analyzer make of two books; no size may   *)
(* fill.                                                                      *)
Sizing(s, buy, sell) ==
    [best |-> IF s = {} THEN None ELSE Recommended(s),
     position |-> IF s = {} THEN None ELSE MaxPosition(s),
     depth |-> Depth(buy, sell)]
Sized(w, fees) == Sizing(Sweep(w.buy, w.sell, fees), w.buy, w.sell)

NoiseOf(c, e)   == WorseNoise(Noise(e.window[c.buy]), Noise(e.window[c.sell]))
HealthAt(v, e)  == Health(Up(v), v \in e.degraded, e.trouble[v])
HealthOf(c, e)  == Least(HealthAt(c.buy, e), HealthAt(c.sell, e))
SpotConfidence(c, e, old, score, spread) ==
    Confidence([fresh |-> Freshness(old, BookAge), liquidity |-> score,
                stability |-> SpreadStability(NoiseOf(c, e), All \otimes spread),
                health |-> HealthOf(c, e), reliability |-> Reliability(e),
                completeness |-> All])
CarryConfidence(c, e, old) ==
    FundingConfidence([fresh |-> Freshness(old, FundingAge),
                       stability |-> Least(RateStability(e.rates[c.buy]),
                                           RateStability(e.rates[c.sell])),
                       health |-> HealthOf(c, e),
                       completeness |-> Announced(e.predicted, TRUE)])

(* The rank a signal is published with.                                       *)
Ranked(risk, score, c) == [risk |-> risk, score |-> score,
                           tier |-> Tier(score, c.type, BridgeTime)]
AtRisk(risk, c, m) == Ranked(risk, Composite(m.net, m.score, m.conf, risk), c)
RankOf(c, e, m) ==
    AtRisk(Risk(Penalty(c.type, c.type = "CROSS_CHAIN" /\ BridgeTime > SlowBridge,
                        m.depth \prec Whole(2) \otimes m.floor,
                        IF c.type = "FUNDING" THEN 1 ELSE Len(e.window[c.buy]))), c, m)

(* What the validator is given; w has the books that were taken and their     *)
(* ages.                                                                      *)
(* Mutant: the venues are checked when the books are taken, before the wait.  *)
VenuesUpThen(c, w) == w.up
VenuesUp(c, w) == Up(c.buy) /\ Up(c.sell)
Assessed(c, w, gas, e, sized, best, score) ==
    IF best = None THEN None
    ELSE [best |-> best, fees |-> Fees(c, gas), spread |-> best.spread,
          net |-> best.net, roi |-> best.roi, usd |-> best.usd,
          gross |-> best.gross, gas |-> best.gas, position |-> sized.position,
          depth |-> sized.depth, score |-> score,
          floor |-> MinDepth[IF NeedsGas(c) THEN "DEX" ELSE "CEX"],
          bridged |-> c.type = "CROSS_CHAIN" => BridgeTime <= MaxBridge,
          warm |-> TRUE,
          fresh |-> Oldness(w) <= MaxAge(c), up |-> VenuesUp(c, w),
          conf |-> SpotConfidence(c, e, Oldness(w), score, best.spread)]
Measured(c, w, gas, e, sized) ==
    Assessed(c, w, gas, e, sized, sized.best, Score(w.buy, w.sell, NoiseOf(c, e)))
Result(m) == IF m = None THEN "NO_VIABLE_SIZE" ELSE Validate(m)

(* _funding_liquidity: the floors, and what two spot books prove beyond them. *)
FundingBooks(c) == since[c.buy] <= BookAge /\ since[c.sell] <= BookAge
CarryLiquidity(c, e) ==
    IF FundingBooks(c)
    THEN [depth |-> Most(MinDepth["CEX"], Depth(Book(c.buy), Book(c.sell))),
          score |-> Most(MinScore, Score(Book(c.buy), Book(c.sell), NoiseOf(c, e)))]
    ELSE [depth |-> MinDepth["CEX"], score |-> MinScore]

(* _assemble_funding: the carry over the horizon against one round trip.      *)
Carry(c, e, gross, net, liquidity) ==
    [best |-> None, fees |-> Fees(c, Nil), spread |-> c.spread, net |-> net,
     roi |-> net \oslash (Whole(2) \otimes Notional), usd |-> Notional,
     gross |-> gross, gas |-> Nil, position |-> Notional,
     depth |-> liquidity.depth, score |-> liquidity.score,
     floor |-> MinDepth["CEX"], bridged |-> TRUE, warm |-> TRUE,
     fresh |-> since[c.buy] <= FundingAge /\ since[c.sell] <= FundingAge,
     up |-> Up(c.buy) /\ Up(c.sell),
     conf |-> CarryConfidence(c, e, IF since[c.buy] < since[c.sell] THEN since[c.sell]
                                    ELSE since[c.buy])]
CarryOf(c, e, gross, fee) == Carry(c, e, gross, gross \ominus fee, CarryLiquidity(c, e))
CarryMeasured(c, e) == CarryOf(c, e, Notional \otimes c.spread \otimes Hold,
                                  Notional \otimes (Flat(c.buy) \oplus Flat(c.sell)))
CarryResult(m) == IF m.net \preceq Nil THEN "UNPROFITABLE_AFTER_FEES" ELSE Validate(m)

(* _handle_candidate: a signal is admitted, and a route that no longer earns  *)
(* enough is closed.                                                          *)
(* Mutant: only a loss closes a route, not a profit that is too small.        *)
ClosingAtALoss == {"UNPROFITABLE_AFTER_FEES"}
Closing == {"BELOW_MIN_PROFIT", "UNPROFITABLE_AFTER_FEES"}
Handle(c, result) ==
    live' = IF result = "SIGNAL" THEN live \cup {Route(c)}
            ELSE IF result \in Closing THEN live \ {Route(c)} ELSE live
Conclude(c, result, m, w, e) ==
    /\ Handle(c, result)
    /\ said' = [kind |-> "verdict", of |-> c, result |-> result, m |-> m, w |-> w,
                evidence |-> e, rank |-> IF result = "SIGNAL" THEN RankOf(c, e, m) ELSE None]
Judge(c, m, w, e) == Conclude(c, Result(m), m, w, e)
Settle(c, m, e)   == Conclude(c, CarryResult(m), m, None, e)
Verdict(c, w, gas, sized) ==
    \E e \in Now.evidence : Judge(c, Measured(c, w, gas, e, sized), w, e)

(* Rejected by the spread alone, before any book is looked at.                *)
Skip(c) ==
    /\ c \in queue /\ waiting = None /\ c.type # "FUNDING" /\ PreGated(c)
    /\ queue' = queue \ {c}
    /\ Conclude(c, "BELOW_MIN_PROFIT", None, None, None)
    /\ UNCHANGED <<outside, waiting>>

HasBook(v) == IsDex(v) \/ since[v] <= BookAge
Taken(c) == [of |-> c, buy |-> Book(c.buy), sell |-> Book(c.sell),
             age |-> <<since[c.buy], since[c.sell]>>, up |-> Up(c.buy) /\ Up(c.sell)]

NoBook(c) ==
    /\ c \in queue /\ waiting = None /\ c.type # "FUNDING" /\ ~PreGated(c)
    /\ ~(HasBook(c.buy) /\ HasBook(c.sell))
    /\ queue' = queue \ {c}
    /\ Conclude(c, "STALE_DATA", None, None, None)
    /\ UNCHANGED <<outside, waiting>>

Assemble(c) ==
    /\ c \in queue /\ waiting = None /\ c.type # "FUNDING" /\ ~PreGated(c)
    /\ HasBook(c.buy) /\ HasBook(c.sell)
    /\ queue' = queue \ {c}
    /\ IF NeedsGas(c)
       THEN waiting' = Taken(c) /\ said' = None /\ UNCHANGED live
       ELSE Verdict(c, Taken(c), Nil, Sized(Taken(c), Fees(c, Nil))) /\ UNCHANGED waiting
    /\ UNCHANGED outside

GasArrives ==
    /\ waiting # None
    /\ waiting' = None
    /\ \E price \in Now.gas :
        Verdict(waiting.of, waiting, GasOf(waiting.of, price),
                Sized(waiting, Fees(waiting.of, GasOf(waiting.of, price))))
    /\ UNCHANGED <<outside, queue>>

AssembleCarry(c) ==
    /\ c \in queue /\ waiting = None /\ c.type = "FUNDING"
    /\ queue' = queue \ {c}
    /\ \E e \in Now.evidence : Settle(c, CarryMeasured(c, e), e)
    /\ UNCHANGED <<outside, waiting>>

------------------------------------------------------------------------------
(* Meanwhile: a venue sends a new state, time passes (a setup names the       *)
(* venues that may fall silent and those that may go down), a venue that is   *)
(* down has its signals expired, a signal reaches the end of its life.        *)
Send(v) ==
    /\ v \in Here
    /\ \E s \in Now.states[v] : market' = [market EXCEPT ![v] = s]
    /\ since' = [since EXCEPT ![v] = 0]
    /\ said' = None
    /\ UNCHANGED <<setup, down, leaving, live, queue, waiting>>

Older(n) == IF n < Oldest THEN n + 1 ELSE n
Pass ==
    /\ since' = [v \in Here |-> IF v \in Now.silent THEN Older(since[v]) ELSE since[v]]
    /\ waiting' = IF waiting = None THEN None
                  ELSE [waiting EXCEPT !.age = <<Older(@[1]), Older(@[2])>>]
    /\ said' = None
    /\ UNCHANGED <<setup, market, down, leaving, live, queue>>

GoDown(v) ==
    /\ v \in Now.failing /\ Up(v)
    /\ down' = down \cup {v} /\ leaving' = leaving \cup {v}
    /\ said' = None
    /\ UNCHANGED <<setup, market, since, live, queue, waiting>>
Leave(v) ==
    /\ v \in leaving
    /\ leaving' = leaving \ {v}
    /\ live' = {r \in live : v \notin r[2]}
    /\ said' = None
    /\ UNCHANGED <<setup, market, since, down, queue, waiting>>
ComeUp(v) ==
    /\ v \in down \ leaving
    /\ down' = down \ {v}
    /\ said' = None
    /\ UNCHANGED <<setup, market, since, leaving, live, queue, waiting>>
Lapse(r) ==
    /\ r \in live
    /\ live' = live \ {r}
    /\ said' = None
    /\ UNCHANGED <<outside, queue, waiting>>

CandidateNext ==
    \/ Detect
    \/ \E c \in queue : Skip(c) \/ NoBook(c) \/ Assemble(c) \/ AssembleCarry(c)
    \/ GasArrives
    \/ \E v \in AllVenues : Send(v) \/ GoDown(v) \/ Leave(v) \/ ComeUp(v)
    \/ Pass
    \/ \E r \in live : Lapse(r)

CandidateSpec == CandidateInit /\ [][CandidateNext]_candidateVars

------------------------------------------------------------------------------
(* What the floors drop, the whole pipeline would reject: a candidate that a  *)
(* detector prunes or the pre-gate skips could not be published at any size,  *)
(* whatever the gas (scanner_config.py:103, assembler.py:215). It holds where *)
(* a venue's quote is the top of its book, and of gas that is not below the   *)
(* detectors' estimate.                                                       *)
Told(kind) == IF said = None THEN FALSE ELSE said.kind = kind
TopIsQuoted(v) == IsDex(v) \/ /\ market[v].ask = Book(v).asks[1][1]
                              /\ market[v].bid = Book(v).bids[1][1]
Confident(m) == IF m = None THEN None ELSE [m EXCEPT !.conf = 100]
Rejected(c, gas, sized) == \A e \in Now.evidence :
    Result(Confident(IF c.type = "FUNDING" THEN CarryMeasured(c, e)
                     ELSE Measured(c, Taken(c), gas, e, sized))) # "SIGNAL"
DroppedIsRejected == Told("tick") => \A c \in Seen :
    /\ ~Passes(c) \/ (c.type # "FUNDING" /\ PreGated(c))
    /\ TopIsQuoted(c.buy) /\ TopIsQuoted(c.sell)
    => \A price \in Now.gas :
          Rejected(c, GasOf(c, price), Sized(Taken(c), Fees(c, GasOf(c, price))))

(* No profit is overstated: what a published spot signal claims is at most    *)
(* what its coins bring in less what they cost, order by order, less every    *)
(* fee on top; and the costs it itemises add up to what lies between its      *)
(* gross and its net (profit/engine.py:43, :78).                              *)
Published == IF Told("verdict") THEN said.result = "SIGNAL" ELSE FALSE
Spot_(m)  == m.best # None
ClaimIsCash == (Published /\ Spot_(said.m)) =>
    LET b == said.m.best
        w == said.w
        proceeds == Received(w.sell, b.coins)
        fees     == said.m.fees
    IN  /\ b.net \preceq proceeds \ominus Paid(w.buy, b.coins)
                    \ominus b.usd \otimes fees.buy \ominus proceeds \otimes fees.sell
                    \ominus b.flat
        /\ b.gross \ominus b.net = b.trading \oplus b.slippage \oplus b.flat

(* A signal is published only on what is still true after the wait: both      *)
(* venues may carry one, the books are within their age, and the gas it needs *)
(* is known. A live route of a venue that went down is about to be expired.   *)
PublishedIsSound ==
    /\ Published => LET c == said.of IN
         /\ Up(c.buy) /\ Up(c.sell)
         /\ None \notin {said.m.fees.gas, said.m.fees.withdrawal, said.m.fees.bridge}
         /\ c.type # "FUNDING" => Oldness(said.w) <= MaxAge(c)
    /\ \A r \in live : r[2] \cap down \subseteq leaving

(* The pipeline implements LiveSignals too: a verdict publishes nothing on a  *)
(* venue that went down during its wait (validator.py:118), and the outages   *)
(* and expiries it meets are ones that the lifecycle's contract allows.       *)
Terms == INSTANCE LiveSignals WITH
    Venues <- AllVenues,
    live   <- {<<r, r[2]>> : r \in live},
    out    <- down,
    owed   <- leaving
KeepsTerms == Terms!Spec

(* A venue that is only degraded keeps its signals, but they rank below the   *)
(* same ones of a fully fresh venue (health_registry.py:224): never above,    *)
(* and below unless the other venue is in trouble itself, or one is in so     *)
(* much trouble (more than 55 points) that degraded its health is zero.       *)
ConfidenceOf(c, e, m, w) ==
    IF c.type = "FUNDING"
    THEN CarryConfidence(c, e, IF since[c.buy] < since[c.sell] THEN since[c.sell]
                                                               ELSE since[c.buy])
    ELSE SpotConfidence(c, e, Oldness(w), m.score, m.spread)
FullyFresh(c, e, m, w) ==
    RankOf(c, e, [m EXCEPT !.conf = ConfidenceOf(c, [e EXCEPT !.degraded = {}], m, w)])
Below_(c, e, score, better) ==
    /\ score \preceq better
    /\ (\E v \in {c.buy, c.sell} \cap e.degraded :
            /\ \A u \in {c.buy, c.sell} \ {v} : u \in e.degraded \/ e.trouble[u] = 0
            /\ \A u \in {c.buy, c.sell} : e.trouble[u] <= 55) => score \prec better
DegradedRanksBelow == Published =>
    Below_(said.of, said.evidence, said.rank.score,
           FullyFresh(said.of, said.evidence, said.m, said.w).score)

(* A spread that fell under the profit it needs ends its signal: a live route *)
(* that a detector still proposes reaches the assembler however small its     *)
(* spread is (detectors/base.py:171), and a verdict leaves it live only if it *)
(* passed the pre-gate and, where a profit was computed at all, earns enough  *)
(* (lifecycle/manager.py:150). The one exception is a spread so wide that the *)
(* gate before takes it for an error.                                         *)
Plausible(m) == m.spread \preceq Implausible
CollapseEndsSignal ==
    /\ Told("tick") => \A c \in Seen : Active(c) => c \in queue
    /\ Told("verdict") /\ Active(said.of) =>
          /\ said.of.type = "FUNDING" \/ ~PreGated(said.of)
          /\ said.m # None /\ Plausible(said.m) =>
                MinNet \preceq said.m.net /\ MinRoi \preceq said.m.roi

------------------------------------------------------------------------------
(* What the documentation says and the code does not do.                      *)

(* detectors/base.py:174: the candidate of a live route "has to reach the     *)
(* assembler so a collapsed spread promptly expires the live signal". A       *)
(* detector returns before its exemption where the spread is gone altogether, *)
(* and the CEX one where another pair of venues is the better one: the signal *)
(* lives on to the end of its time.                                           *)
Collapsed(r) == \A buy, sell \in Cex : r[2] = {buy, sell} =>
    PreGated(Opportunity(r[1], buy, sell, None, Spread(market[buy].ask, market[sell].bid)))
CollapseReachesAssembler == Told("tick") =>
    \A r \in live : r[1] = "CEX_CEX" /\ r[2] \subseteq Quoting /\ Collapsed(r) =>
        \E c \in queue : Route(c) = r
==============================================================================
