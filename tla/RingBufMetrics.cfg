SPECIFICATION MFairSpec
CONSTANTS
  Byte = {0, 1}
  Capacity = 2
  Wrap = 4
  MaxRequest = 3
INVARIANTS TypeOK DecisionsStayValid NoDataRace OwnersCanRelyOnSize
PROPERTIES FIFO Drain
