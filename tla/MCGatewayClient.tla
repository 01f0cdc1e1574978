---------------------------- MODULE MCGatewayClient ----------------------------
(* Instances of GatewayClient for TLC.                                      *)
EXTENDS GatewayClient
===============================================================================
