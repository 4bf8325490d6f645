CONSTANTS
  Capacity = 3
  StreamLen = 8
  Overrun = 4
  UIntMod = 8
SPECIFICATION Spec
INVARIANTS
  Separated
  CountedOnce
  InPlace
  EndsWhenComplete
CHECK_DEADLOCK FALSE
