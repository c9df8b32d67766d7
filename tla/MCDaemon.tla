-------------------------------- MODULE MCDaemon --------------------------------
(* TLC instances of Daemon. *)
EXTENDS Daemon

MCIdent == Uid \X Version
=============================================================================
