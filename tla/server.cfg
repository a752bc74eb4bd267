SPECIFICATION Spec
CONSTANTS
  c1 = c1
  c2 = c2
  Connection = {c1, c2}
  Request <- MCRequest
  Sends <- MCSends
  Access = {"noauth", "tls_auth"}
  MayFail = {"certificate", "template", "open", "fstat", "create", "header", "queue"}
  RequestBound <- MCRequestBound
INVARIANTS
  TypeOK
  NothingLeft
  SendingHeld
  DescriptorsOwned
  HeadersOfRoute
  DeathExplained
PROPERTIES
  ImplementsExchange
  RequestsEnd
  StopCompletes
