CONSTANTS
  Clients = {c}
  Watchers = {}
  MaxFrames = 3
  ReadBuf = 2
  SockCap = 1
  MaxBacklog = 1
  RingCap = 6
  Junk = TRUE
SPECIFICATION FairSpec
INVARIANTS EachFrameOnce AtRest
PROPERTY EveryFrameAnswered
