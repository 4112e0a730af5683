---------------------------- MODULE MCSettlement ----------------------------
EXTENDS Settlement
CONSTANTS u1, t1, t2, h1, i1, i2
MCTapUser == [t \in Taps |-> u1]

(* Prices are interchangeable: the first deployment has the first one, if any. *)
CONSTANTS firstPrice
MCInit == Init /\ offer \in {firstPrice, ComingSoon}
MCSpec == MCInit /\ [][Next]_vars /\ Fairness
=============================================================================
