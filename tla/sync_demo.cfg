SPECIFICATION Spec
CONSTANTS
  Pkg = {p1, p2, p3, p4}
  FixedDelta = 2
  Interval = 5
  FrameTime = {1, 2, 5, 7}
  MaxTime = 12
  MaxSize = 2
  None = None
INVARIANTS
  TypeOK
  PacketsAreKept
  OnTheClock
PROPERTIES
  ReceivedInOrder
  HoldWins
CHECK_DEADLOCK FALSE
