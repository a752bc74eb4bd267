SPECIFICATION Spec
CONSTANTS
  Node = {n1, n2, n3}
  NULL = NULL
  YieldBound = 3
  EmptyBaseInsert = FALSE
  NullData = FALSE
INVARIANTS
  TypeOK
  ChainLinked
  NoUseAfterFree
  NoLeak
  HealthCheckRestores
  GeneratorOrder
PROPERTIES
  GeneratorComplete
  ImplementsCursorList
  CallReturns
