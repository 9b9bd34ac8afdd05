SPECIFICATION Spec
CONSTANTS
  Self = c1
  Instances = {c1, c2}
  Granularities = {"day", "year", "week"}
  Clock = {19722, 19723}
  Days = {19782, 19783}
  MaxFileSize = 5
  MaxFiles = 3
  MaxLevels = 2
  TickSize = 2
  Depths = {1, 2}
  MaxRows = 3
  MaxRuns = 2
CHECK_DEADLOCK FALSE
INVARIANTS RowsInTheirPlace ClosedIsOnDisk StreamIntact  InitSchemaIdempotent 
