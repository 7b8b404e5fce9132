CONSTANTS
  Clients = {c1, c2}
  Watchers = {w}
  MaxFrames = 2
  ReadBuf = 2
  SockCap = 1
  MaxBacklog = 1
  RingCap = 6
  Junk = FALSE
SPECIFICATION Spec
INVARIANTS TypeOK TablesAgree ResponsesInOrder
PROPERTY ClosedForCause
