------------------------- MODULE MCGatewayShutdown -------------------------
(* Small instance of GatewayShutdown: two requests, so that one is open    *)
(* and another is answered when the signal comes.                          *)
EXTENDS GatewayShutdown
=============================================================================
