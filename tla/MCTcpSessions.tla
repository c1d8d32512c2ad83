--------------------------- MODULE MCTcpSessions ---------------------------
(* TcpSessions on small instances, for TLC. *)
EXTENDS TcpSessions, TLC

Symmetric == Permutations(Bev) \cup Permutations(Session)
=============================================================================
