\* A queue of two slots, so that it fills, wraps and is retried on.  The run
\* ends when main is done, or where the shutdown hangs.
CONSTANTS
  Capacity = 2
  MaxMessages = 4
SPECIFICATION FairSpec
INVARIANTS ParsedAsReceived
PROPERTIES SettledIsParsed QuietShutdownCompletes
CHECK_DEADLOCK FALSE
