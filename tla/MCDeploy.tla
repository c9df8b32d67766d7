-------------------------------- MODULE MCDeploy --------------------------------
(***************************************************************************)
(* Deploy with a local deploy, a remote one and a debug session.           *)
(***************************************************************************)
EXTENDS Deploy

CONSTANTS here, there, dbg, main, extra

\* The remote deploy names the other asset.
MCAsked == [j \in Job |-> IF j = there THEN extra ELSE main]
=============================================================================
