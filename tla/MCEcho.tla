-------------------------------- MODULE MCEcho --------------------------------
(* Echo on small instances, for TLC. *)
EXTENDS Echo
=============================================================================
