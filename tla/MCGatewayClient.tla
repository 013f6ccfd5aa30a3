-------------------------- MODULE MCGatewayClient --------------------------
(* Instances of GatewayClient for TLC.                                      *)
EXTENDS GatewayClient, TLC

CONSTANTS r1, r2, c1, c2

Swap == Permutations(Readers)
=============================================================================
