SPECIFICATION Spec
CONSTANTS
  Thread = {t1, t2}
  c1 = c1
  c2 = c2
  Config = {c1, c2}
  NoThread = NoThread
  NoConfig = NoConfig
  Method <- MCMethod
  Provided <- MCProvided
  InitMayFail = TRUE
  RequestBound = 1
  ArgBound <- MCArgBound
  ChunkBound = 2
CHECK_DEADLOCK FALSE
INVARIANTS
  TypeOK
  SentComplete
  ResponseWhole
  FirstRequestSound
  ListEndsWithRequest
  NeverAllWait
PROPERTIES
  RequestsReturn
