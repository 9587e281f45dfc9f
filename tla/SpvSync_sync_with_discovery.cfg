SPECIFICATION Spec
CONSTANTS
  Callers = {home, usage}
  Starters = {home}
  Cancellers = {home}
  Discoverers = {usage}
  Sessions = {s1}
  None = None
CHECK_DEADLOCK FALSE
INVARIANTS
  FieldsAreLive
