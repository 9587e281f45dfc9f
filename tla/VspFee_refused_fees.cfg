SPECIFICATION Spec
CONSTANTS
  Clients = {c1}
  Threads = {t1, t2}
  Payments = {p1, p2}
  Txs = {x1, x2}
  NoTx = NoTx
  Unfinished = Unfinished
  NoPay = NoPay
  NoThread = NoThread
  Faults = {"net", "reject", "write"}
SYMMETRY Perms
CHECK_DEADLOCK FALSE
INVARIANTS
  SubmitsFinishedTx
  NoLeakedTx
PROPERTIES
  FeeTxLifeHolds
