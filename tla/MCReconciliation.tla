--------------------------- MODULE MCReconciliation ---------------------------
(* Three worlds. "queue": every feed writes, no pass is due; the others: time *)
(* passes, a venue comes and goes and, in one, a feed writes.                 *)
EXTENDS Reconciliation, TLC

CONSTANTS btc, ada, wif

MCFeeds == {<<btc, "cex">>, <<btc, "funding">>, <<ada, "cex">>, <<ada, "dex">>,
            <<wif, "cex">>}

Ranked   == (btc :> 1) @@ (ada :> 2) @@ (wif :> 3)
Promoted == (btc :> 1) @@ (ada :> 2) @@ (wif :> 2)
Demoted  == (btc :> 1) @@ (ada :> 3) @@ (wif :> 2)

MCRankings == {Ranked, Promoted, Demoted}

Networks == [p1 |-> "A", p2 |-> "A", p3 |-> "B"]
Books    == ({"c1"} \X {btc, ada, wif}) \cup ({"c2"} \X {btc}) \cup ({"p1", "p2", "p3"} \X {ada})
Rates    == {"c1", "c2"} \X {btc}
Cadences == [funding |-> 0, cex_cex |-> 0, cex_dex |-> 0, dex_dex |-> 1, cross_chain |-> 1]

MCWorlds ==
    [queue  |-> [pairs |-> {btc, ada, wif}, feeds |-> MCFeeds, flapping |-> {}, watched |-> {<<wif, "dex_dex">>},
                 timed |-> FALSE],
     majors |-> [pairs |-> {btc, ada}, feeds |-> {<<btc, "cex">>}, flapping |-> {"c2"}, timed |-> TRUE,
                 watched |-> {<<btc, "cex_cex">>}],
     pools  |-> [pairs |-> {btc, ada}, feeds |-> {}, flapping |-> {"p2"}, timed |-> TRUE,
                 watched |-> {<<ada, "dex_dex">>, <<ada, "cross_chain">>}]]
===============================================================================
