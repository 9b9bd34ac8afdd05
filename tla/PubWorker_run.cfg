SPECIFICATION FairSpec
CONSTANTS
  NumShards = 1
  QueueSize = 2
  PoolSize = 2
  MaxEvents = 3
INVARIANTS BuffersIntact EveryEventAccounted FairRoundRobin
PROPERTIES StopReturns
