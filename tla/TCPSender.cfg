CONSTANTS
  SendCapacity = 3
  MaxPayload = 2
  RtTimeout = 2
  FixedIsn = 6
  MaxRetx = 1
  StreamLen = 3
  MaxWindow = 3
  MaxBackoff = 4
  M = 8
  UIntMod = 8
SPECIFICATION Spec
INVARIANTS
  InFlight
  TimerRuns
  SegmentsInPlace
PROPERTY RestartsOnNewData
CHECK_DEADLOCK FALSE
