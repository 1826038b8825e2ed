--------------------------- MODULE MCWsTransport ---------------------------
(* Instances of WsTransport small enough for TLC. *)
EXTENDS WsTransport, TLC

CONSTANTS t1, t2
=============================================================================
