CONSTANTS
  Client = Client
  Server = Server
  Isn <- MCIsn
  WriteLen <- ClientWrites
  RecvCapacity = 1
  SendCapacity = 2
  RtTimeout = 1
  MaxPayload = 1
  MaxRetx = 1
  LingerTime = 1
  MaxNet = 2
  MaxLost = 0
  MaxBackoff = 1
  Ticking = {Client, Server}
  Reorder = TRUE
  M = 16
  UIntMod = 8
SPECIFICATION Spec
INVARIANTS
  CleanCloseIsComplete
CHECK_DEADLOCK FALSE
