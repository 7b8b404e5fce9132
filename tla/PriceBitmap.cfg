CONSTANTS
  MaxPrice = 9
  WordBits = 4
SPECIFICATION FairSpec
INVARIANT ScanInv
PROPERTY ScanFindsNearest
PROPERTY ScanEnds
