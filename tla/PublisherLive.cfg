SPECIFICATION FairSpec
CONSTANTS
  Peers = {p1, p2}
  RingCap = 1
  SeqMod = 16
  MaxBacklog = 1
  FrameLen = 2
  ControlLen = 1
  HeartbeatMs = 1
  StallMs = 1
  SockCap = 1
  FromSeqs = {1}
  MaxPublish = 2
  Junk = FALSE
INVARIANT NoLostWakeup
PROPERTIES CatchUp NoEndlessStall IdleStreamBeats
