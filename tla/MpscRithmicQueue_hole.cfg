\* TryPush without crashes against "the queue stays free of sequence holes".
CONSTANTS
  Producers = {t1, t2}
  TryPushers = {t1, t2}
  Capacity = 2
  MaxEvents = 4
  MaxCrashes = 0
SPECIFICATION Spec
INVARIANT NoSequenceHole
CHECK_DEADLOCK FALSE
