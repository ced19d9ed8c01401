SPECIFICATION Spec
CONSTANTS
  a = a
  p = p
  s1 = s1
  s2 = s2
  r = r
  w1 = w1
  w2 = w2
  User = {a, p}
  Admin = {a}
  Owner = a
  Candidate = {p}
  Series = {s1, s2}
  Reader = {r}
  Writer = {w1, w2}
  MaxBusy = 2
  MaxTime = 1
  ContestInput <- MCContests
  SeriesInput <- MCSeries
SYMMETRY Symmetry
INVARIANTS TypeOK
PROPERTIES GrantsGrounded DecisionsExact OrganizersByAdmin
