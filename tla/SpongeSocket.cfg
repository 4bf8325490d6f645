CONSTANTS
  OwnIsn = 14
  PeerIsn = 3
  InputLen = 1
  PeerLen = 2
  PipeCapacity = 1
  CopyCapacity = 1
  RecvCapacity = 2
  SendCapacity = 2
  RtTimeout = 1
  MaxPayload = 2
  MaxRetx = 1
  LingerTime = 1
  PeerResets = TRUE
  Destructs = TRUE
  M = 16
  UIntMod = 8
SPECIFICATION Spec
INVARIANTS
  EndToEnd
  OnlyAResetBreaksThePipe
PROPERTY OwnerGetsAway
CHECK_DEADLOCK FALSE
