--------------------------- MODULE StorageRouter ---------------------------
(***************************************************************************)
(* StorageRouter over its backends: MakeBackend selects one for the whole  *)
(* life of the data, main registers the channel, the parser threads        *)
(* insert, FlushAndClose ends the run; the process may also be killed at   *)
(* any time, and is started again.  Of the DolphinDB backend this module   *)
(* has the connection and the schema; rows, degradation and fallback are   *)
(* in DolphinDBBackend.                                                    *)
(***************************************************************************)
EXTENDS CsvStorage, MmapStorage, DolphinDBSchema

CONSTANTS
  Self,                        \* this collector, among the Instances
  Depths,                      \* depth_level values the configuration may give
  MaxRows, MaxRuns             \* bounds: rows inserted, runs of the process

ASSUME RouterAssumption ==
  Self \in Instances /\ Depths \subseteq Nat /\ MaxRows \in Nat /\ MaxRuns \in Nat

VARIABLES
  engine,                      \* use_engine, as MakeBackend understands it
  phase,                       \* the process: down, running, closed
  registered,                  \* the channel passed the persist_to_disk filters
  depth,                       \* depth_level of the channel in this run
  rows, runs                   \* rows inserted so far; runs so far

routerVars == <<engine, phase, registered, depth, rows, runs>>
vars == <<csvVars, mmapVars, schemaVars, routerVars>>

\* The others of the three backends do nothing.
Only(backend) ==
  /\ engine = backend
  /\ backend # "csv" => UNCHANGED csvVars
  /\ backend # "mmap" => UNCHANGED mmapVars
  /\ backend # "dolphindb" => UNCHANGED schemaVars

Init ==
  /\ engine \in {"csv", "mmap", "dolphindb"}
  /\ phase = "down" /\ registered = FALSE /\ rows = 0 /\ runs = 0
  /\ depth = 0
  /\ CsvInit /\ MmapInit /\ SchemaInit

\* The counters bound the files; a connection to DolphinDB needs no bound.
NextOf(counter, max) ==
  IF engine = "dolphindb" THEN UNCHANGED counter ELSE counter < max /\ counter' = counter + 1

\* The constructor, in which DolphinDBBackend::Configure connects, and
\* RegisterChannel, in a new process.  MmapBackend ignores depth_level.
RegisterChannel ==
  /\ phase = "down" /\ NextOf(runs, MaxRuns)
  /\ phase' = "running"
  /\ registered' \in BOOLEAN
  /\ \/ Only("csv") /\ depth' \in Depths /\ UNCHANGED csvVars
     \/ /\ Only("mmap") /\ UNCHANGED depth
        /\ IF registered' THEN \E opened \in SUBSET Engines : MmapRegister(opened)
           ELSE UNCHANGED mmapVars
     \/ /\ Only("dolphindb") /\ registered' /\ UNCHANGED depth
        /\ \E g \in Granularities : SchemaBegin(Self, g)
  /\ UNCHANGED <<engine, rows>>

\* A Route call; the row's number is its place among all rows of all runs.
\* With DolphinDB it is a row that cannot be inserted, and has the backend
\* reconnect.
Route ==
  /\ phase = "running" /\ NextOf(rows, MaxRows)
  /\ registered
  /\ \/ /\ Only("csv")
        /\ \E k \in Kinds, d \in Days, f \in Kinds \union {"none"} : CsvInsert(k, rows + 1, d, depth, f)
     \/ /\ Only("mmap")
        /\ \E e \in Engines, b, a \in 0..MaxLevels :
             /\ e # "ob" => a = 0 /\ b = 0
             /\ MmapInsert(e, rows + 1, b, a)
     \/ Only("dolphindb") /\ SchemaBegin(Self, sch[Self].granularity)
  /\ UNCHANGED <<engine, phase, registered, depth, runs>>

\* Steps of the backends between calls.
BackendStep ==
  /\ phase = "running"
  /\ \/ Only("csv") /\ \E k \in Kinds : CsvSpill(k)
     \/ Only("mmap") /\ MmapThread
     \/ Only("dolphindb") /\ SchemaStep(Self)
  /\ UNCHANGED routerVars

\* The database server, its clock and the other collectors that use it.
Elsewhere ==
  /\ Only("dolphindb")
  /\ \/ ServerRestart \/ DayPasses
     \/ \E i \in Instances \ {Self} :
          SchemaStep(i) \/ SchemaOff(i) \/ \E g \in Granularities : SchemaBegin(i, g)
  /\ UNCHANGED routerVars

FlushAndClose ==
  /\ phase = "running" /\ phase' = "closed"
  /\ \/ Only("csv") /\ CsvFlushAndClose
     \/ Only("mmap") /\ MmapFlushAndClose
     \/ Only("dolphindb") /\ ~Running(Self) /\ SchemaOff(Self)
  /\ UNCHANGED <<engine, registered, depth, rows, runs>>

\* The process has left main, or was killed.
ProcessEnds ==
  /\ phase # "down" /\ phase' = "down" /\ registered' = FALSE
  /\ \/ Only("csv") /\ CsvRestart
     \/ Only("mmap") /\ MmapRestart
     \/ Only("dolphindb") /\ SchemaOff(Self)
  /\ UNCHANGED <<engine, depth, rows, runs>>

Next == RegisterChannel \/ Route \/ BackendStep \/ Elsewhere \/ FlushAndClose \/ ProcessEnds

Spec == Init /\ [][Next]_vars

-----------------------------------------------------------------------------
(* Properties *)

\* Types of the state, and the mmap engines never leave their mapping.
TypeOK ==
  /\ engine \in {"csv", "mmap", "dolphindb"} /\ phase \in {"down", "running", "closed"}
  /\ registered \in BOOLEAN /\ depth \in Depths \cup {0} /\ rows \in 0..MaxRows /\ runs \in 0..MaxRuns
  /\ CsvTypeOK /\ MmapTypeOK

\* After FlushAndClose, before the process ends, every row that the writer took
\* in this run is in a file on disk.
ClosedIsOnDisk ==
  /\ TypeOK
  /\ phase = "closed" /\ engine = "csv" =>
       csvTaken \subseteq UNION {{File(k, d)[i].id : i \in 1..Len(File(k, d))} : k \in Kinds, d \in Dates}
=============================================================================
