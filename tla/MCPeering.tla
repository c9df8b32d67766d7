------------------------------- MODULE MCPeering -------------------------------
(* TLC instances of Peering. *)
EXTENDS Peering
=============================================================================
