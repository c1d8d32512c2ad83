SPECIFICATION FairSpec
CONSTANTS
  Caller = {c1, c2}
  Worker = worker
  Slot = {s1, s2}
  Delay = {0, 1}
  Period = {0, 1}
  MaxId = 3
  MaxTime = 2
  SingleDestroy = TRUE
  None = None
INVARIANTS
  TypeOK
  QueueRefersToLive
  HandlerKeepsInstance
  LiveIsScheduled
  NoLostWakeUp
PROPERTIES
  DestroyIsFinal
  EarliestDeadlineFirst
  DueFires
  DestructorReturns
  ImplementsService
CHECK_DEADLOCK FALSE
