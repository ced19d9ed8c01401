SPECIFICATION FairSpec
CONSTANTS
  t1 = t1
  t2 = t2
  Tab = {t1, t2}
  MaxLogins = 2
  Expiring = {1}
  Watched = t2
  Form <- Forms
  Nonces = 3
INVARIANTS TypeOK PageActsAsItself
PROPERTIES SessionKept RefreshHelps
