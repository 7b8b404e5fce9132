SPECIFICATION Spec
CONSTANTS
  Peers = {p}
  RingCap = 2
  SeqMod = 16
  MaxBacklog = 3
  FrameLen = 2
  ControlLen = 1
  HeartbeatMs = 1
  StallMs = 1
  SockCap = 2
  FromSeqs = {0, 1, 20}
  MaxPublish = 5
  Junk = TRUE
INVARIANTS TypeOK BacklogBounded
PROPERTY ImplementsMdStream
