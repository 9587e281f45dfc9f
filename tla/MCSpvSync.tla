------------------------------ MODULE MCSpvSync ------------------------------
(* Instances of SpvSync for TLC. *)
EXTENDS SpvSync, TLC

SessionPerms == Permutations(Sessions)
=============================================================================
