SPECIFICATION Spec
CONSTANT Message <- MCMessage
INVARIANTS
  DecodesBack
  RoomUnlessShort
