SPECIFICATION FairSpec
CONSTANTS
  Clients = {c1}
  Threads = {t1}
  Payments = {p1, p2}
  Txs = {x1, x2}
  NoTx = NoTx
  Unfinished = Unfinished
  NoPay = NoPay
  NoThread = NoThread
  Faults = {"net", "ends", "tooHigh", "cannotVote"}
CHECK_DEADLOCK FALSE
PROPERTIES
  PaymentCompletes
  EndedTicketIsDropped
