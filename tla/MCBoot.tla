--------------------------------- MODULE MCBoot ---------------------------------
(* Boot on small instances. *)
EXTENDS Boot, TLC

CONSTANTS ps, pu, pm

MCScopeOf == ps :> "system" @@ pu :> "user" @@ pm :> "user"
MCOmits == ps :> {} @@ pu :> {"pool"} @@ pm :> {"peering", "pool"}
=============================================================================
