----------------------------- MODULE MCPromise ------------------------------
(* GatewayPromise on the instances of MCGateway. *)
EXTENDS MCGateway, GatewayPromise
=============================================================================
