SPECIFICATION Spec
CONSTANTS
  a1 = a1
  a2 = a2
  a3 = a3
  a4 = a4
  a5 = a5
  d3 = d3
  d4 = d4
  b2 = b2
  b3 = b3
  b4 = b4
  b5 = b5
  b6 = b6
  e1 = e1
  e2 = e2
  e3 = e3
  cb = cb
  t = t
  u = u
  c = c
  k = k
  v = v
  r = r
  o1 = o1
  o2 = o2
  o3 = o3
  o4 = o4
  o5 = o5
  o6 = o6
  s1 = s1
  x1 = x1
  f1 = f1
  Genesis = Genesis
  None = None
  Block <- MCBlock
  Tx <- MCTx
  Outpoint <- MCOutpoint
  ChainTo <- MCChainTo
  Fetched <- MCFetched
  Announced <- MCAnnounced
  TxsOf <- MCTxsOf
  Approves <- MCApproves
  StakeDiff <- MCStakeDiff
  Inputs <- MCInputs
  Outputs <- MCOutputs
  Owned <- MCOwned
  Worth <- MCWorth
  Price <- MCPrice
  VotesOn <- MCVotesOn
  Expiry <- MCExpiry
  Coinbase = {cb}
  Ticket = {k}
  Vote = {v}
  Ska = {o1, o2, o3}
  MaxBlocksPerRescan = 2
CHECK_DEADLOCK FALSE
INVARIANTS
  UnspentIsListed
