SPECIFICATION Spec
CONSTANTS
  MaxStarts = 2
  Starters = {s1}
  IntervalSize = 4
  MaxBuy = 2
  MaxHeight = 7
  FirstTip = 3
  MaxAttach = 2
CHECK_DEADLOCK FALSE
INVARIANTS
  HandlerNeedsNoSender
