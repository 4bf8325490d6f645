CONSTANTS
  Capacity = 3
  UIntMod = 8
  MaxLen = 4
  Byte = {a, b}
  Blank = a
SPECIFICATION Spec
INVARIANTS
  RingInv
  CountersAgree
PROPERTY ImplementsFifo
