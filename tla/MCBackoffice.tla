---------------------------- MODULE MCBackoffice ----------------------------
(* One customer, who may have two taps under way, two people of the staff,  *)
(* and an audience that is large when it has anyone in it.                  *)
EXTENDS Backoffice
CONSTANTS u1
MCHandlerUser == [h \in Handlers |-> u1]
=============================================================================
