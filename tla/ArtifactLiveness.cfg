SPECIFICATION FairSpec
CONSTANTS
  k1 = k1
  k2 = k2
  k3 = k3
  Key = {k1, k2}
  Req = {r1}
  Collector = {g1}
  Size <- UnitSize
  MaxTotal = 0
  Grace = 1
  TTL = 1
  SingleConn = TRUE
  SlowTx = FALSE
  AckLoss = FALSE
  MaxFaults = 2
INVARIANT RowsHaveFiles
PROPERTIES CatalogueRefined GarbageCollected UploadsEnd
