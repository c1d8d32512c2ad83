SPECIFICATION Spec
CONSTANTS
  Key = {k1, k2, k3}
  Value = {1, 2}
  MaxLevel = 3
  MaxNodes = 3
SYMMETRY Symmetric
INVARIANTS
  RankIsFound
CHECK_DEADLOCK FALSE
