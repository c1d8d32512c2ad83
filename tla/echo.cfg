SPECIFICATION FairSpec
CONSTANTS
  HEAD_SIZE = 2
  PKG_MAX_SIZE = 3
  Protocol = {1, 3, 5}
  Size = {2, 3, 4}
  MaxPackets = 2
INVARIANTS
  TypeOK
  AnswersInOrder
PROPERTIES
  RequestsAnswered
CHECK_DEADLOCK FALSE
