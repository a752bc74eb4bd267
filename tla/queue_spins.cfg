SPECIFICATION Spec
CONSTANTS
  Node = {n1, n2}
  NULL = NULL
  YieldBound = 3
  EmptyBaseInsert = TRUE
  NullData = FALSE
PROPERTIES
  CallReturns
