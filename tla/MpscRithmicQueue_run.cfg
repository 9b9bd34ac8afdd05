\* One thread pushes with TryPush and may drop, the other waits in Push.  The
\* queue wraps twice and the child may crash once.  A hole stops the consumer for
\* good, so the run may end before Done.
CONSTANTS
  Producers = {t1, t2}
  TryPushers = {t1}
  Capacity = 2
  MaxEvents = 5
  MaxCrashes = 1
SPECIFICATION FairSpec
INVARIANTS ReservedOrder NoDataRace SlotOwnWords
PROPERTY ReservedIsPopped
CHECK_DEADLOCK FALSE
