CONSTANTS
  Client = Client
  Server = Server
  Isn <- MCIsn
  WriteLen <- ClientWritesTwo
  RecvCapacity = 2
  SendCapacity = 2
  RtTimeout = 1
  MaxPayload = 1
  MaxRetx = 1
  LingerTime = 1
  MaxNet = 2
  MaxLost = 0
  MaxBackoff = 1
  Ticking = {Client}
  Reorder = TRUE
  M = 16
  UIntMod = 8
SPECIFICATION Spec
INVARIANTS
  StreamIntact
  AckedIsReceived
  WithinWindow
CHECK_DEADLOCK FALSE
