SPECIFICATION Spec
CONSTANTS
  k1 = k1
  k2 = k2
  a = a
  b = b
  Key = {k1, k2}
  Plain = {a, b}
  Value <- MCValue
  Page <- MCPage
  Edits <- MCEdits
  MayFail = {"open", "realloc", "regcomp", "malloc"}
  MapBound = 2
  EditBound = 1
  RenderBound = 2
INVARIANTS
  TypeOK
  OutputSound
  PageFits
  PageHeld
  SearchInside
PROPERTIES
  RendersEnd
