SPECIFICATION FairSpec
CONSTANTS
  MaxGroups = 2
  MaxFailures = 2
INVARIANTS OneReconnect OneGroupIsClean
 
