SPECIFICATION Spec
CONSTANTS
  Bev = {b1, b2, b3}
  Session = {s1, s2, s3, s4}
  Sender = {timer}
  Connects = TRUE
  Listens = TRUE
  NodeStays = TRUE
  None = None
SYMMETRY Symmetric
INVARIANTS
  TypeOK
  MapsAgree
  BoundIsAllocated
  OwnConnection
  PendingWriteIsRight
  AnswersReachTheirSession
CHECK_DEADLOCK FALSE
