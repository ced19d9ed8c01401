SPECIFICATION Spec
CONSTANTS
  i1 = i1
  i2 = i2
  i3 = i3
  i4 = i4
  q1 = q1
  q2 = q2
  Item = {i1, i2, i3, i4}
  Request = {q1, q2}
  MaxPos = 4
  PosLimit = 3
SYMMETRY Symmetry
INVARIANTS TypeOK NoCollision
PROPERTIES OrderApplied ListRefined
