SPECIFICATION Spec
CONSTANTS
  Segments <- MCSegments
  Deltas = {1, 128, 255}
  MaxWrites = 2
  MaxFaults = 1
  MaxTicks = 1
INVARIANTS Intact NoFalseAlarm OnePeer
PROPERTY PeerIsKept
CHECK_DEADLOCK FALSE
