SPECIFICATION Spec
CONSTANTS
  Peers = {p}
  RingCap = 2
  SeqMod = 16
  MaxBacklog = 3
  FrameLen = 2
  ControlLen = 1
  HeartbeatMs = 1
  StallMs = 2
  SockCap = 2
  FromSeqs = {0, 1, 2, 20}
  MaxPublish = 5
  Junk = FALSE
INVARIANT DroppedOnlyWhenStalled
