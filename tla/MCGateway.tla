----------------------------- MODULE MCGateway ------------------------------
(* An instance of Gateway for TLC; its constants are in the configuration. *)
EXTENDS Gateway
=============================================================================
