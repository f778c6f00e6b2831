\* Two resources and two workers.
SPECIFICATION FairSpec
CONSTANTS
  k1 = k1
  k2 = k2
  w1 = w1
  w2 = w2
  Key = {k1, k2}
  Worker = {w1, w2}
  NoKey = NoKey
  MaxChanges = 3
INVARIANTS OnePassPerKey NoLostWakeup StaysScheduled
PROPERTIES FetchesInOrder EveryChangeSeen Polled ImplementsSchedule
CHECK_DEADLOCK FALSE
