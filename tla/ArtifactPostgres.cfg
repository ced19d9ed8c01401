SPECIFICATION Spec
CONSTANTS
  k1 = k1
  k2 = k2
  k3 = k3
  Key = {k1, k2}
  Req = {r1, r2}
  Collector = {g1, g2}
  Size <- UnitSize
  MaxTotal = 0
  Grace = 1
  TTL = 1
  SingleConn = FALSE
  SlowTx = FALSE
  AckLoss = FALSE
  MaxFaults = 1
SYMMETRY Symmetry
INVARIANTS TypeOK RowsHaveFiles ContentReadable PendingFilesSurvive
