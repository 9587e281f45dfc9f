------------------------------ MODULE MCVspFee ------------------------------
(* Instances of VspFee for TLC. *)
EXTENDS VspFee, TLC

Perms == Permutations(Threads) \cup Permutations(Payments) \cup Permutations(Txs)
           \cup Permutations(Clients)
=============================================================================
