SPECIFICATION FairSpec
CONSTANTS
  Main = main
  Other = {t1, t2}
  Writer = {w1, w2}
  MaxLines = 1
  MaxFailures = 1
  None = None
INVARIANTS
  TypeOK
  LogIsKept
  ThrowsOnlyAfterDispose
PROPERTIES
  CallbackReturns
CHECK_DEADLOCK FALSE
