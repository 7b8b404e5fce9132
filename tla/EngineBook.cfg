CONSTANTS
  Symbols = {S1}
  Sessions = {A}
  MaxOrders = 3
  MaxPrice = 3
  QtyMod = 4
  GenMod = 2
  CmdSymbols = {S1}
  CmdPrices = {1, 2, 3}
  CmdQtys = {1, 2}
  CmdKinds <- EveryEnd
SPECIFICATION ViewSpec
INVARIANTS TypeOK LevelsWellFormed BestWellFormed NeverCrossed PoolWellFormed OwnersKnowTheirOrders RemainingAddsUp
PROPERTY ImplementsOrderBook
