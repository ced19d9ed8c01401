SPECIFICATION Spec
CONSTANTS
  v1 = v1
  v2 = v2
  v3 = v3
  first = v1
  Rev = {v1}
  Req = {q1, q2}
  Slot = {t1}
  Preview = {}
  MaxBlobs = 2
  MaxPos = 0
  PosLimit = 0
  ZipSize = 1
SYMMETRY Symmetry
PROPERTIES FileReferencesServerOwned
