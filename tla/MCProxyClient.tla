---------------------------- MODULE MCProxyClient ----------------------------
(* Calls that share a channel. *)
EXTENDS Clients, TLC

CONSTANTS c1, c2, c3, v1
=============================================================================
