SPECIFICATION Spec
CONSTANTS
  k1 = k1
  k2 = k2
  k3 = k3
  Key = {k1, k2}
  Req = {r1, r2}
  Collector = {g1}
  Size <- MixedSize
  MaxTotal = 2
  Grace = 1
  TTL = 1
  SingleConn = FALSE
  SlowTx = TRUE
  AckLoss = TRUE
  MaxFaults = 1
INVARIANTS QuotaRespected ActiveUploadSurvives
