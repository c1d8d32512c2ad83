SPECIFICATION Spec
CONSTANTS
  HEAD_SIZE = 2
  PKG_MAX_SIZE = 5
  Id = {1}
  Size = {2, 3}
  MaxPackets = 2
INVARIANTS
  NextPacketIsDealtWith
CHECK_DEADLOCK FALSE
