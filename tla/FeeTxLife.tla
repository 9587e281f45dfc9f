------------------------------ MODULE FeeTxLife ------------------------------
(***************************************************************************)
(* What the fee payment promises about the fee transactions of a ticket,   *)
(* whoever works on them and whatever fails: the wallet keeps a            *)
(* transaction the VSP holds, the VSP gets only transactions the wallet    *)
(* has, and the wallet shows a transaction as published only once the VSP  *)
(* has broadcast it.                                                       *)
(***************************************************************************)
CONSTANTS Txs, NoTx

VARIABLES
  place,     \* where each transaction is: "absent", "unpublished", "published"
  held,      \* the transaction the VSP holds
  onNetwork  \* the VSP has broadcast it

life == <<place, held, onNetwork>>

Init ==
  /\ place = [tx \in Txs |-> "absent"]
  /\ held \in Txs \cup {NoTx}
  /\ onNetwork = FALSE

Move(tx, from, to) ==
  /\ place[tx] = from
  /\ place' = [place EXCEPT ![tx] = to]
  /\ UNCHANGED <<held, onNetwork>>

Make(tx) == tx # held /\ Move(tx, "absent", "unpublished")

Abandon(tx) ==
  tx # held /\ \E from \in {"unpublished", "published"} : Move(tx, from, "absent")

Publish(tx) ==
  tx = held /\ onNetwork /\ \E from \in {"absent", "unpublished"} : Move(tx, from, "published")

\* The VSP takes a transaction of the wallet when it holds none.
Take(tx) ==
  /\ held = NoTx
  /\ place[tx] # "absent"
  /\ held' = tx
  /\ onNetwork' \in BOOLEAN
  /\ UNCHANGED place

Broadcast ==
  /\ held # NoTx
  /\ onNetwork' = TRUE
  /\ UNCHANGED <<place, held>>

\* The VSP fails to broadcast the transaction it holds and gives it up.
LetGo ==
  /\ held' = NoTx
  /\ onNetwork' = FALSE
  /\ UNCHANGED place

Next ==
  \/ \E tx \in Txs : Make(tx) \/ Abandon(tx) \/ Publish(tx) \/ Take(tx)
  \/ Broadcast \/ LetGo

Spec == Init /\ [][Next]_life
=============================================================================
