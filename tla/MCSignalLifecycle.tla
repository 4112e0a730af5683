-------------------------- MODULE MCSignalLifecycle --------------------------
(* Instances of SignalLifecycle: a CEX-CEX route with a cooldown (spot) and *)
(* a funding route without one (carry), sharing a venue.                    *)
EXTENDS SignalLifecycle, TLC

CONSTANTS okx, bybit, spot, carry, pair

MCVenuesOf == [r \in Routes |-> IF r = carry THEN {okx} ELSE Venues]
MCPairOf   == [r \in Routes |-> pair]
MCTTL      == [r \in Routes |-> 2]
MCCooldown == [r \in Routes |-> IF r = carry THEN 0 ELSE 1]

=============================================================================
