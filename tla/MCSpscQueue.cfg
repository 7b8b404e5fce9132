CONSTANTS
  Values = {a, b}
  Capacity = 2
  Laps = 2
SPECIFICATION FairSpec
INVARIANT NoRace
INVARIANT IInv
PROPERTY ImplementsFifo
PROPERTY PushCompletes
PROPERTY PopDelivers
