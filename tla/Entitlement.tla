---------------------------- MODULE Entitlement ----------------------------
(***************************************************************************)
(* What the payment side promises, whatever its handlers do: Pro access is *)
(* granted for a purchase that its buyer has paid, at most once per        *)
(* purchase, to the buyer and to nobody else, and is not taken back.       *)
(***************************************************************************)
CONSTANTS Users, Purchases, None

VARIABLES
    buyer,     \* who opened the purchase (None: not opened)
    charged,   \* purchases the provider was paid for
    granted,   \* purchases whose entitlement was activated
    pro        \* users with Pro access

evars == <<buyer, charged, granted, pro>>

Init ==
    /\ buyer = [p \in Purchases |-> None]
    /\ charged = {} /\ granted = {} /\ pro = {}

Begin(p, u) ==
    /\ buyer[p] = None
    /\ buyer' = [buyer EXCEPT ![p] = u]
    /\ UNCHANGED <<charged, granted, pro>>

Charge(p) ==
    /\ buyer[p] # None
    /\ charged' = charged \cup {p}
    /\ UNCHANGED <<buyer, granted, pro>>

Grant(p) ==
    /\ p \in charged \ granted
    /\ granted' = granted \cup {p}
    /\ pro' = pro \cup {buyer[p]}
    /\ UNCHANGED <<buyer, charged>>

Next == \E p \in Purchases : Charge(p) \/ Grant(p) \/ \E u \in Users : Begin(p, u)

Spec == Init /\ [][Next]_evars
=============================================================================
