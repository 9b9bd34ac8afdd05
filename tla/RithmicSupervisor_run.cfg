\* One restart is allowed in a window of two units; a second child can be
\* spawned, and every spawn may fail.  The collector's threads are fair.  Where
\* the receiver misses its stop the run ends without the destructor.
CONSTANTS
  HeartbeatTimeout = 1
  RestartWindow = 2
  MaxRestarts = 1
  MaxSpawns = 2
  MaxTime = 4
SPECIFICATION FairSpec
INVARIANTS ChildTracked RestartRateBounded
PROPERTIES StrangersLeftAlone DeadIsReplaced ShutdownEnds
CHECK_DEADLOCK FALSE
