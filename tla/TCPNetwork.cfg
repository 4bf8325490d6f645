CONSTANTS
  Client = Client
  Server = Server
  Isn <- MCIsn
  WriteLen <- ClientWrites
  RecvCapacity = 1
  SendCapacity = 2
  RtTimeout = 1
  MaxPayload = 1
  MaxRetx = 1
  LingerTime = 1
  MaxNet = 2
  MaxLost = 1
  MaxBackoff = 2
  Ticking = {Client, Server}
  Reorder = FALSE
  M = 16
  UIntMod = 8
SPECIFICATION Spec
INVARIANTS
  CleanCloseIsComplete
  NobodyLeftBehind
  NeverStuckInOrder
PROPERTY FollowsDiagram
CHECK_DEADLOCK FALSE
