------------------------------- MODULE Ranking -------------------------------
(* How sure the program is of a signal, how risky it finds it and where it    *)
(* ranks it: scanner/ranking/, what scanner/assembler.py feeds it with, and   *)
(* the health of a venue (status/health_registry.py). Factors are points of   *)
(* 100; so are the weights, which sum to 100.                                 *)
EXTENDS Integers, Sequences, Fractions, Robust

CONSTANTS
    Sure,            \* f_*, the weights of a spot signal's confidence
    Ranks,           \* w_*, the weights of the composite score
    Thresholds,      \* [top, high, medium]: rank_*_min
    FastBridge,      \* fast_bridge_threshold_sec
    ProfitReference  \* profit_reference_for the pair's priority

(* A degraded venue is meant to cost a point of confidence at least, and that *)
(* a place in the ranking (scanner_config.py:289, :296).                      *)
ASSUME RankingAssumption ==
    /\ \A f \in {"fresh", "liquidity", "stability", "health", "reliability", "completeness"} :
          Sure[f] \in Nat
    /\ \A f \in {"profit", "liquidity", "confidence", "risk"} : Ranks[f] \in Nat
    /\ Sure.health >= 3 /\ Ranks.confidence >= 1
    /\ ProfitReference \in Fraction /\ Nil \prec ProfitReference
    /\ Sure.fresh + Sure.liquidity + Sure.stability + Sure.health
           + Sure.reliability + Sure.completeness = 100
    /\ Ranks.profit + Ranks.liquidity + Ranks.confidence + Ranks.risk = 100

All        == Whole(100)
Clamped(x) == Most(Nil, Least(All, x))
Percent(x) == x \oslash All
Weighed(w, x) == Percent(Whole(w)) \otimes x

(* normalize_scale, whole points of it, so that TLC's integers hold it.       *)
Scaled(x, reference) == Whole(Floor(Clamped(All \otimes (x \oslash reference))))

(* _dispersion_pct, of the worse leg; Unknown from fewer than three prices.   *)
Unknown == <<>>
Noise(w) == IF Len(w) < 3 THEN Unknown
            ELSE Frac(100 * FourMad(w), 2 * TwiceMedian(w))
WorseNoise(a, b) == IF a = Unknown THEN b ELSE IF b = Unknown THEN a ELSE Most(a, b)

(* What is left of a spread (percent) when the noise is taken off it.         *)
SpreadStability(noise, spread) ==
    IF noise = Unknown THEN Whole(50)
    ELSE IF spread \preceq Nil THEN Nil
    ELSE Clamped(All \ominus All \otimes (noise \oslash spread))

(* health_factor: a venue that is degraded starts lower.                      *)
(* Mutant: it does not.                                                       *)
HealthIfOnline(up, degraded, trouble) == IF up THEN Clamped(Whole(100 - trouble)) ELSE Nil
Health(up, degraded, trouble) ==
    IF ~up THEN Nil ELSE Clamped(Whole((IF degraded THEN 55 ELSE 100) - trouble))

Freshness(age, limit) ==
    IF limit = 0 THEN All ELSE All \ominus Frac(100 * (IF age < limit THEN age ELSE limit), limit)

(* type_reliability: of the route's archived signals, the share that held, or *)
(* closed after a plausible lifetime. What ReliabilityCache has not looked up *)
(* yet is the default, which is also that of a route without an archive.      *)
Phantom == 10
Unproven == Whole(60)
Good(row) == \/ row.reason \in {"TTL_EXCEEDED", "FUNDING_SETTLED"}
             \/ row.reason = "SPREAD_CLOSED" /\ row.life >= Phantom
HitRate(rows) == IF rows = <<>> THEN Unproven
                 ELSE Frac(100 * Cardinality({i \in DOMAIN rows : Good(rows[i])}), Len(rows))
Reliability(e) == IF e.known THEN HitRate(e.rows) ELSE Unproven

(* ConfidenceScorer; every fee of a signal is resolved when it gets here.     *)
Confidence(f) ==
    Floor(Weighed(Sure.fresh, f.fresh) \oplus Weighed(Sure.liquidity, f.liquidity)
              \oplus Weighed(Sure.stability, f.stability)
              \oplus Weighed(Sure.health, f.health)
              \oplus Weighed(Sure.reliability, f.reliability)
              \oplus Weighed(Sure.completeness, f.completeness))

(* funding_confidence, of the weaker leg: how steady its rates have been, and *)
(* what the exchange publishes of the next one.                               *)
RateStability(w) ==
    IF Len(w) < 3 THEN Whole(50)
    ELSE IF TwiceMedian(w) = 0
    THEN IF \A i \in DOMAIN w : w[i] = 0 THEN All
         ELSE Clamped(All \ominus Frac(25 * FourMad(w), Kth([i \in DOMAIN w |-> Gap(w[i], 0)], Len(w))))
    ELSE Clamped(All \ominus Frac(50 * FourMad(w), Gap(TwiceMedian(w), 0)))
Announced(predicted, timed) ==
    Whole(50 + (IF predicted THEN 25 ELSE 0) + (IF timed THEN 25 ELSE 0))
FundingConfidence(f) ==
    Floor(Weighed(30, f.fresh) \oplus Weighed(25, f.stability)
              \oplus Weighed(25, f.health) \oplus Weighed(20, f.completeness))

(* classify_risk; a DEX-DEX round trip is one transaction.                    *)
Penalty(type, slow, thin, sources) ==
    (CASE type = "CROSS_CHAIN" -> 45 + 15
       [] type = "CEX_DEX" -> 20 + 15
       [] OTHER -> 0)
    + (IF slow THEN 15 ELSE 0) + (IF thin THEN 20 ELSE 0) + (IF sources < 2 THEN 10 ELSE 0)
Risk(penalty) == IF penalty >= 45 THEN "HIGH" ELSE IF penalty >= 20 THEN "MEDIUM" ELSE "LOW"
Safety == [LOW |-> 90, MEDIUM |-> 60, HIGH |-> 20]

(* RankingEngine                                                              *)
Composite(net, liquidity, confidence, risk) ==
    Weighed(Ranks.profit, Scaled(net, ProfitReference))
        \oplus Weighed(Ranks.liquidity, Whole(Floor(liquidity)))
        \oplus Weighed(Ranks.confidence, Whole(confidence))
        \oplus Weighed(Ranks.risk, Whole(Safety[risk]))
Outscored(score) ==
    IF Whole(Thresholds.top) \preceq score THEN "TOP"
    ELSE IF Whole(Thresholds.high) \preceq score THEN "HIGH"
    ELSE IF Whole(Thresholds.medium) \preceq score THEN "MEDIUM" ELSE "LOW"
Tier(score, type, bridgeTime) ==
    IF type = "CROSS_CHAIN" /\ bridgeTime >= FastBridge /\ Outscored(score) = "TOP"
    THEN "HIGH" ELSE Outscored(score)
==============================================================================
