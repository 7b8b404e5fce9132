SPECIFICATION FairClientSpec
CONSTANTS
  Kinds = {"cpp", "python"}
  RingCap = 2
  LostMod = 64
  FromSeqs = {0, 2, 9}
  MaxHead = 3
  MaxChan = 2
  MaxDrops = 2
  MaxRestarts = 2
INVARIANTS NoSeqJump AccountsAddUp ExactlyOnce
PROPERTY InSync
