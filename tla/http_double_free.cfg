SPECIFICATION Spec
CONSTANTS
  Thread = {t1}
  c1 = c1
  c2 = c2
  Config = {c1}
  NoThread = NoThread
  NoConfig = NoConfig
  Method <- MCMethod
  Provided <- MCProvided
  InitMayFail = FALSE
  RequestBound = 1
  ArgBound <- MCArgBound
  ChunkBound = 1
INVARIANTS
  ListNeverDangles
