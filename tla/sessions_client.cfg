SPECIFICATION Spec
CONSTANTS
  Bev = {b1, b2}
  Session = {s1, s2, s3}
  Sender = {timer}
  Connects = TRUE
  Listens = FALSE
  NodeStays = TRUE
  None = None
SYMMETRY Symmetric
INVARIANTS
  SendReachesItsSession
CHECK_DEADLOCK FALSE
