SPECIFICATION Spec
CONSTANTS
  k1 = k1
  k2 = k2
  a = a
  b = b
  Key = {k1, k2}
  Plain = {a, b}
  Value <- MCPlainValue
  Page <- MCPage
  Edits <- MCEdits
  MayFail = {}
  MapBound = 1
  EditBound = 0
  RenderBound = 1
INVARIANTS
  RendersTemplate
