--------------------------- MODULE MCPacketStream ---------------------------
(* PacketStream on small instances, for TLC. *)
EXTENDS PacketStream
=============================================================================
