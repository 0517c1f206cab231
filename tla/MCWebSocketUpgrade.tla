------------------------- MODULE MCWebSocketUpgrade ------------------------
(* Every request with two subprotocols; two peers with as many frames each *)
(* as the cfg says.                                                        *)
EXTENDS WebSocketUpgrade
=============================================================================
