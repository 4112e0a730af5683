---------------------------- MODULE MCCexStream ----------------------------
(* Three pairs on two connections of two: a full connection and one with    *)
(* room.  Two configurations: chains of which only the last host answers,   *)
(* and one host with two proxies, as the Binance adapter has.               *)
EXTENDS CexStream

MCWorlds ==
    {[ws |-> <<FALSE, FALSE, TRUE>>, rest |-> <<FALSE, TRUE>>, proxies |-> 0],
     [ws |-> <<TRUE>>, rest |-> <<TRUE>>, proxies |-> 2]}
=============================================================================
