SPECIFICATION Spec
CONSTANTS
  Caller = {c1}
  Worker = worker
  Slot = {s1, s2}
  Delay = {0, 1}
  Period = {0, 1}
  MaxId = 2
  MaxTime = 2
  SingleDestroy = FALSE
  None = None
INVARIANTS
  HandlerKeepsInstance
CHECK_DEADLOCK FALSE
