SPECIFICATION FairSpec
CONSTANTS
  HEAD_SIZE = 2
  PKG_MAX_SIZE = 5
  Id = {1}
  Size = {2, 3, 5, 6}
  MaxPackets = 4
INVARIANTS
  TypeOK
  Framed
  ReadToTheEnd
  WatermarkOrigin
PROPERTIES
  ImplementsChannel
  PacketsArrive
CHECK_DEADLOCK FALSE
