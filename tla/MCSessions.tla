------------------------------- MODULE MCSessions -------------------------------
(* Sessions on small instances. *)
EXTENDS Sessions
=============================================================================
