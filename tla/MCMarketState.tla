---------------------------- MODULE MCMarketState ----------------------------
(* Two set-ups: three CEXs, of which one moves between three levels; and a    *)
(* CEX that is delisted at times, with a DEX whose pool comes and goes.       *)
EXTENDS MarketState

CONSTANTS a, b, c, d

MCSetups == {
    [order  |-> <<a, b, c>>,
     levels |-> (a :> {100, 115, 130}) @@ (b :> {100}) @@ (c :> {100}) @@ (d :> {}),
     moving |-> {}, books |-> {}],
    [order  |-> <<a, d>>,
     levels |-> (a :> {100, 130}) @@ (b :> {}) @@ (c :> {}) @@ (d :> {}),
     moving |-> {a, d}, books |-> {a}]}
==============================================================================
