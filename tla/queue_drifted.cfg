SPECIFICATION Spec
CONSTANTS
  Node = {n1, n2, n3}
  NULL = NULL
  YieldBound = 3
  EmptyBaseInsert = TRUE
  NullData = TRUE
SYMMETRY CellSymmetry
INVARIANTS
  HeadInStep
  FailsOnlyWhenDrifted
