SPECIFICATION Spec
CONSTANTS
  Callers = {home}
  Starters = {home}
  Cancellers = {}
  Discoverers = {}
  Sessions = {s1}
  None = None
CHECK_DEADLOCK FALSE
INVARIANTS
  ProgressHasItsData
