--------------------------- MODULE MCGrpcUpstream ---------------------------
(* Three calls at a backend that takes two at a time, on two connections:  *)
(* one in use and its predecessor or successor.                            *)
EXTENDS GrpcUpstream
=============================================================================
