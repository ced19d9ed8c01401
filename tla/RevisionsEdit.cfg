SPECIFICATION Spec
CONSTANTS
  v1 = v1
  v2 = v2
  v3 = v3
  first = v1
  Rev = {v1, v2}
  Req = {q1, q2}
  Slot = {t1, t2}
  Preview = {p1}
  MaxBlobs = 2
  MaxPos = 0
  PosLimit = 0
  ZipSize = 1
SYMMETRY Symmetry
INVARIANTS TypeOK PublishedHasContent SamplesStaySamples CloneNumberFree ImportPositionsFree
PROPERTIES PublishedImmutable AssignmentsPinned CloneCoherent ImportedOnce
