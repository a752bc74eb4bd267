SPECIFICATION Spec
CONSTANTS
  Thread = {t1, t2}
  Nobody = Nobody
  CallBound = 3
INVARIANTS
  TypeOK
  LinesWhole
  StreamsAgree
  ReasonTold
PROPERTIES
  CallsReturn
