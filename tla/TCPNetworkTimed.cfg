CONSTANTS
  Client = Client
  Server = Server
  Isn <- MCIsn
  WriteLen <- BothWrite
  RecvCapacity = 1
  SendCapacity = 2
  RtTimeout = 1
  MaxPayload = 1
  MaxRetx = 3
  LingerTime = 10
  MaxNet = 8
  MaxLost = 2
  MaxBackoff = 8
  Ticking = {Client, Server}
  Reorder = FALSE
  M = 16
  UIntMod = 8
  BenchCapacity = 3
  BenchLen = 5
SPECIFICATION BenchSpec
INVARIANT StringsMatch
PROPERTY BothCloseCleanly
CHECK_DEADLOCK FALSE
