--------------------------- MODULE MCVenueHealth ---------------------------
(* Two shards, so that one can stream while the other escalates; data of a  *)
(* CEX is stale after one tick, a DEX degrades after two and leaves after   *)
(* three, as 15 s, 60 s and 240 s do in the shipped configuration.          *)
EXTENDS VenueHealth

MCStale == [k \in Kinds |-> IF k = "cex" THEN 1 ELSE 2]
=============================================================================
