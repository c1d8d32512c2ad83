------------------------------ MODULE MCTimer ------------------------------
(* Timer on small instances, for TLC. *)
EXTENDS Timer, TLC

Symmetric == Permutations(Slot) \cup Permutations(Caller)
=============================================================================
