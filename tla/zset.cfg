SPECIFICATION Spec
CONSTANTS
  Key = {k1, k2, k3}
  Value = {1, 2, 3}
  MaxLevel = 3
  MaxNodes = 3
SYMMETRY Symmetric
INVARIANTS
  TypeOK
  LinksAgree
  SpansMeasure
  ReadsAgree
  MissNeedsTie
PROPERTIES
  SortedUntilMissed
CHECK_DEADLOCK FALSE
