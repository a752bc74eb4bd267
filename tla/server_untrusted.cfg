SPECIFICATION Spec
CONSTANTS
  c1 = c1
  c2 = c2
  Connection = {c1}
  Request <- MCRequest
  Sends <- MCSends
  Access = {"tls_auth"}
  MayFail = {}
  RequestBound <- MCRequestBound
INVARIANTS
  ValidCertificateRequired
