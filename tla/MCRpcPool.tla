------------------------------ MODULE MCRpcPool ------------------------------
(* A paid endpoint that may fail at any time, a public one that answers       *)
(* whenever the network is up, and two callers.                               *)
EXTENDS RpcPool
==============================================================================
