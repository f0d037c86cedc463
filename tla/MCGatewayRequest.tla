-------------------------- MODULE MCGatewayRequest --------------------------
(***************************************************************************)
(* GatewayRequest for TLC: a route with two targets.                       *)
(***************************************************************************)
EXTENDS GatewayRequest

CONSTANTS r1, r2, p1, p2
MCRoute == <<p1, p2>>
=============================================================================
