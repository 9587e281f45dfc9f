SPECIFICATION Spec
CONSTANTS
  Callers = {home, settings}
  Starters = {home}
  Cancellers = {home, settings}
  Discoverers = {}
  Sessions = {s1, s2}
  None = None
CHECK_DEADLOCK FALSE
INVARIANTS
  TypeOK
  Cancellable
  ClosesOnce
PROPERTIES
  CancelWaits
  SyncSessionHolds
