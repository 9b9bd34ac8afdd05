\* One parser thread; the ring of two ticks wraps.  The bounds end the
\* messages, not the threads.
CONSTANTS
  Parser = parser
  Producers = {parser}
  Capacity = 2
  MaxOffers = 3
  MaxMessages = 3
  NoItem = NoItem
  Fields = {delay, depth}
  MaxWrites = 3
  MaxLevels = 2
  Now = 99
  None = None
SPECIFICATION DispatcherFairSpec
INVARIANTS NoDataRace  SnapshotWhole
PROPERTIES ImplementsFifo AcceptedIsPopped
