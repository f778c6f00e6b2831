\* One reconciler, and a worker with a standby.
SPECIFICATION FairSpec
CONSTANTS
  r1 = r1
  w1 = w1
  w2 = w2
  srl1 = srl1
  other = other
  NoProc = NoProc
  Target = {srl1, other}
  Srl = {srl1}
  Reconciler = {r1}
  Worker = {w1, w2}
  enableLeaderElection <- WorkersElect
  StopsInTime = TRUE
  MaxChanges = 3
  MaxMishaps = 2
INVARIANTS TypeOK OneHolder
PROPERTIES DiscoveryIsCurrent BothRun
CHECK_DEADLOCK FALSE
