----------------------------- MODULE MCDelivery -----------------------------
(* Signals and passes are interchangeable: the properties are safety only. *)
EXTENDS Delivery, TLC

Symmetric == Permutations(Signals) \cup Permutations(Passes)
=============================================================================
