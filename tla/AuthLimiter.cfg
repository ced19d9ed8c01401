SPECIFICATION FairSpec
CONSTANTS
  ip1 = ip1
  ip2 = ip2
  em1 = em1
  em2 = em2
  em3 = em3
  q1 = q1
  q2 = q2
  Ip = {ip1, ip2}
  Email = {em1, em2, em3}
  Request = {q1, q2}
  Slots = 2
  Limit = 2
  Window = 2
  Cap = 2
  MaxWait = 1
  Watched = em1
INVARIANTS TypeOK WorkBounded TableBounded
PROPERTIES NotLockedOut
