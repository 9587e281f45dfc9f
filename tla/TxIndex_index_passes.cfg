SPECIFICATION FairSpec
CONSTANTS
  a1 = a1
  b3 = b3
  k = k
  v = v
  Genesis = Genesis
  Tx <- MCTx
  Block <- MCBlock
  HeightOf <- MCHeightOf
  At <- MCAt
  Spends <- MCSpends
  MaxReOrg = 1
  BatchSize = 2
  Goroutines = {"sync", "rescan"}
  Rescans = {"rescan"}
  RescanHeights = {0, 3}
CHECK_DEADLOCK FALSE
INVARIANTS
  TypeOK
  NothingLost
  SpenderKept
PROPERTIES
  PassEnds
