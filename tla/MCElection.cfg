\* One reconciler and one worker, both with leader election.
SPECIFICATION FairSpec
CONSTANTS
  r1 = r1
  w1 = w1
  w2 = w2
  srl1 = srl1
  other = other
  NoProc = NoProc
  Target = {srl1}
  Srl = {srl1}
  Reconciler = {r1}
  Worker = {w1}
  enableLeaderElection <- AllElect
  StopsInTime = TRUE
  MaxChanges = 1
  MaxMishaps = 0
PROPERTY BothRun
CHECK_DEADLOCK FALSE
