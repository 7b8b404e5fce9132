CONSTANTS
  Symbols = {S1, S2}
  Sessions = {A, B}
  MaxOrders = 2
  MaxPrice = 1
  QtyMod = 4
  GenMod = 3
  CmdSymbols = {S1, S2, S3}
  CmdPrices = {1, 2}
  CmdQtys = {0, 1}
  CmdKinds <- RestOrSweep
SPECIFICATION ViewSpec
PROPERTIES ImplementsOrderBook NewOccupantNewId
