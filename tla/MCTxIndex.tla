----------------------------- MODULE MCTxIndex -----------------------------
(***************************************************************************)
(* An instance of TxIndex for TLC: two branches, and two transactions of   *)
(* the wallet: the ticket k, which may be relayed before it is mined, and  *)
(* its vote v.                                                             *)
(*                                                                         *)
(*   Genesis -- a1           a1 holds nothing of the wallet                *)
(*         \                                                               *)
(*          b1 -- b2 -- b3   b1 holds k, b3 v; they are attached at once   *)
(***************************************************************************)
EXTENDS TxIndex, TLC

CONSTANTS a1, b3
CONSTANTS k, v

MCBlock == {Genesis, a1, b3}
MCTx == {k, v}
MCHeightOf == (Genesis :> 0) @@ (a1 :> 1) @@ (b3 :> 3)
MCAt == [b \in MCBlock |-> [x \in MCTx |-> IF b # b3 THEN 0 ELSE IF x = k THEN 1 ELSE 3]]
MCSpends == v :> k
=============================================================================
