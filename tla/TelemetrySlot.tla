--------------------------- MODULE TelemetrySlot ---------------------------
(***************************************************************************)
(* TelemetrySlot of src/common/telemetry_slot.h: the sequence lock through *)
(* which a parser thread hands its latency and queue depth to the          *)
(* TelemetryAgent, which polls the slot and sets the Prometheus gauges.    *)
(*                                                                         *)
(* One action is one access to the slot.  The fields between the two       *)
(* increments, and between the two loads, are plain and may be accessed in *)
(* any order; they stay between them, as they do in an x86-64 build, where *)
(* an increment is a locked instruction and loads are not reordered.       *)
(* (The C++ memory model alone would not keep them there: the first        *)
(* increment is relaxed.)                                                  *)
(*                                                                         *)
(* A field holds the number of the WriteTelemetrySlot call that wrote it,  *)
(* 0 being the initial content: all that a torn read can show.             *)
(***************************************************************************)
EXTENDS Naturals

CONSTANTS
  Fields,       \* the fields the agent exposes
  MaxWrites     \* bound: calls of WriteTelemetrySlot

VARIABLES
  version,      \* TelemetrySlot::version
  field,        \* the plain fields: which write each one is from
  written,      \* the fields the write in progress has stored
  v1,           \* ReadTelemetrySlot's v1
  got,          \* the fields the read in progress has loaded
  reading,      \* the reader is between its two loads of version
  snapshot,     \* ReadTelemetrySlot's snapshot
  exposed       \* what PollAll has passed on to the exposer last

writerVars == <<version, field, written>>
readerVars == <<v1, got, reading, snapshot, exposed>>
slotVars == <<writerVars, readerVars>>

NoWrite == [f \in Fields |-> 0]

SlotInit ==
  /\ version = 0 /\ field = NoWrite /\ written = {}
  /\ v1 = 0 /\ got = {} /\ reading = FALSE
  /\ snapshot = NoWrite /\ exposed = NoWrite

Odd(n) == n % 2 = 1

-----------------------------------------------------------------------------
(* WriteTelemetrySlot *)

\* version.fetch_add: odd = writing.
BeginWrite ==
  /\ ~Odd(version) /\ version < 2 * MaxWrites
  /\ version' = version + 1
  /\ UNCHANGED <<field, written, readerVars>>

WriteField(f) ==
  /\ Odd(version) /\ f \notin written
  /\ field' = [field EXCEPT ![f] = (version + 1) \div 2]
  /\ written' = written \cup {f}
  /\ UNCHANGED <<version, readerVars>>

\* The second version.fetch_add: even = done.
EndWrite ==
  /\ Odd(version) /\ written = Fields
  /\ version' = version + 1
  /\ written' = {}
  /\ UNCHANGED <<field, readerVars>>

-----------------------------------------------------------------------------
(* ReadTelemetrySlot, and PollAll's calls of the exposer when it returns *)

LoadVersion ==
  /\ ~reading /\ reading' = TRUE
  /\ v1' = version
  /\ UNCHANGED <<got, snapshot, exposed, writerVars>>

ReadField(f) ==
  /\ reading /\ f \notin got
  /\ snapshot' = [snapshot EXCEPT ![f] = field[f]]
  /\ got' = got \cup {f}
  /\ UNCHANGED <<v1, reading, exposed, writerVars>>

\* The loop ends when the version was even and is still the same, and starts
\* over otherwise.  Either way the locals are dead.
ConsistentIfUnchanged(before, now) == before = now
Consistent(before, now) == ~Odd(before) /\ before = now

ReloadVersion ==
  /\ reading /\ got = Fields
  /\ reading' = FALSE
  /\ exposed' = IF Consistent(v1, version) THEN snapshot ELSE exposed
  /\ v1' = 0 /\ got' = {} /\ snapshot' = NoWrite
  /\ UNCHANGED writerVars

-----------------------------------------------------------------------------
WriteTelemetrySlot == BeginWrite \/ (\E f \in Fields : WriteField(f)) \/ EndWrite
ReadTelemetrySlot == LoadVersion \/ (\E f \in Fields : ReadField(f)) \/ ReloadVersion

SlotNext == WriteTelemetrySlot \/ ReadTelemetrySlot
SlotSpec == SlotInit /\ [][SlotNext]_slotVars

-----------------------------------------------------------------------------
(* Properties *)

SlotTypeOK ==
  /\ version \in Nat /\ v1 \in Nat
  /\ field \in [Fields -> Nat] /\ snapshot \in [Fields -> Nat] /\ exposed \in [Fields -> Nat]
  /\ written \subseteq Fields /\ got \subseteq Fields
  /\ reading \in BOOLEAN

\* The latency and the queue depth that PollAll exposes of a slot were written
\* by one and the same call of WriteTelemetrySlot, however the writer's and the
\* reader's accesses interleave.
SnapshotWhole ==
  /\ SlotTypeOK
  /\ \A f, g \in Fields : exposed[f] = exposed[g]
=============================================================================
