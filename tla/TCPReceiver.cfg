CONSTANTS
  Capacity = 4
  StreamLen = 9
  M = 10
  UIntMod = 8
SPECIFICATION Spec
INVARIANTS
  TypeOK
  AckIsFirstMissing
  AssembledInOrder
  RoundTrip
  Nearest
PROPERTIES
  EdgeNeverMovesLeft
  ImplementsReassembly
CHECK_DEADLOCK FALSE
