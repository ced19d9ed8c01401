SPECIFICATION FairSpec
CONSTANTS
  p1 = p1
  p2 = p2
  p3 = p3
  Proc = {p1, p2, p3}
  NoProc = NoProc
  MaxCrashes = 1
INVARIANTS TypeOK SchemaReady NoConflict
PROPERTIES RefusedNotDeleted EveryoneServes
CHECK_DEADLOCK FALSE
