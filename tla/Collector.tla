----------------------------- MODULE Collector -----------------------------
(***************************************************************************)
(* The collector process from main to its exit, with the gateway child it  *)
(* spawns, run after run: the order in which main builds, freezes, starts, *)
(* stops and joins its parts, the shared memory that a run creates under a *)
(* fixed name, and what a killed run leaves behind for the next.           *)
(*                                                                         *)
(* One child is followed.  While a child of an earlier run is alive, the   *)
(* current run has a child of its own that is not followed.  CheckHealth   *)
(* is here a monitor that may kill and replace the child at any time; its  *)
(* own steps are in RithmicSupervisor.                                     *)
(***************************************************************************)
EXTENDS RithmicGateway

CONSTANTS
  Crypto, Futures,  \* the channels of the configuration
  MaxRuns           \* bound: runs of the collector

ASSUME CollectorAssumption == MaxRuns \in Nat

VARIABLES
  main,             \* where main is; "down": no process
  gen,              \* the number of the current run, or of the last
  threads,          \* the threads that main has started and not joined
  registry,         \* ChannelRegistry: channels that Lookup finds
  stored, frozen,   \* StorageChannelRegistry of the backend
  closed            \* FlushAndClose has been called

processVars == <<threads, registry, stored, frozen, closed>>
mainVars == <<main, gen, processVars>>
vars == <<gatewayVars, mainVars>>

Init ==
  /\ GatewayInit
  /\ main = "down" /\ gen = 0
  /\ threads = {} /\ registry = {} /\ stored = {} /\ frozen = FALSE /\ closed = FALSE

\* The process ends, and with it all it had in memory.
Exit ==
  /\ main' = "down" /\ gen' = gen
  /\ threads' = {} /\ registry' = {} /\ stored' = {} /\ frozen' = FALSE /\ closed' = FALSE

Goto(from, to) == main = from /\ main' = to /\ gen' = gen

\* main goes on and starts the threads in new.
Starts(from, to, new) ==
  /\ Goto(from, to)
  /\ threads' = threads \union new
  /\ UNCHANGED <<gatewayVars, registry, stored, frozen, closed>>

\* main goes on once the threads in old, told to stop, have ended.
Joins(from, to, old) ==
  /\ Goto(from, to)
  /\ threads' = threads \ old
  /\ UNCHANGED <<gatewayVars, registry, stored, frozen, closed>>

-----------------------------------------------------------------------------
(* Start-up *)

\* ChannelRegistry::Register, and StorageRouter::RegisterChannel, which the
\* backend's registry refuses once it is frozen.
Register(channels) ==
  /\ registry' = registry \union channels
  /\ stored' = IF frozen THEN stored ELSE stored \union channels

\* The configuration, the signal mask and the singletons.
Launch ==
  /\ main = "down" /\ gen < MaxRuns
  /\ main' = "crypto" /\ gen' = gen + 1
  /\ UNCHANGED <<gatewayVars, processVars>>

\* Every enabled symbol of a known exchange gets its channel.
BuildCryptoChannels == Register(Crypto)

\* A collision of two channel ids ends the process.
BuildCryptoSubsystem ==
  \/ /\ Goto("crypto", "freeze")
     /\ BuildCryptoChannels
     /\ UNCHANGED <<gatewayVars, threads, frozen, closed>>
  \/ /\ main = "crypto" /\ Exit
     /\ UNCHANGED gatewayVars

FreezeChannels ==
  /\ Goto("freeze", "rithmic")
  /\ frozen' = TRUE
  /\ UNCHANGED <<gatewayVars, threads, registry, stored, closed>>

\* CreateRithmicManager begins with the futures channels.  A collision ends
\* the loop and is logged; Setup goes on with those that came before it.
RegisterChannels ==
  \E channels \in SUBSET Futures :
    /\ IF channels = {} THEN Goto("rithmic", "parsers") ELSE Goto("rithmic", "shm")
    /\ Register(channels)
    /\ UNCHANGED <<gatewayVars, threads, frozen, closed>>

\* ShmSetup unlinks what an earlier run has left under the name, and creates
\* a segment of its own, or throws; the queues are constructed in it.
CreateShm ==
  /\ \/ Goto("shm", "spawn") /\ named' = gen
     \/ Goto("shm", "parsers") /\ named' = 0
  /\ UNCHANGED <<processVars, pc, loginVars, exitFlag, childReady, home, attached, parent, deathSignal>>

\* Without a child the segment is destroyed, and there is no manager.
SpawnChild ==
  /\ UNCHANGED processVars
  /\ \/ /\ Goto("spawn", "threads")
        /\ IF pc = "exited" THEN Spawn(gen) ELSE UNCHANGED gatewayVars
     \/ /\ Goto("spawn", "parsers")
        /\ named' = 0
        /\ UNCHANGED <<pc, loginVars, exitFlag, childReady, home, attached, parent, deathSignal>>

StartThreads == Starts("threads", "parsers", {"receiver", "monitor"})
RunParsers == Starts("parsers", "network", {"parsers"})
RunNetwork == Starts("network", "pub", {"network"})
StartPub == Starts("pub", "running", {"pub"})

-----------------------------------------------------------------------------
(* Shutdown *)

\* SIGINT or SIGTERM, blocked until now; the network is told to stop.
WaitForShutdown ==
  /\ Goto("running", "stopReceiver")
  /\ UNCHANGED <<gatewayVars, processVars>>

Own == home = gen /\ pc # "exited"

\* RithmicProcessManager::Shutdown: the receiver, the child, the monitor.
StopReceiver ==
  IF "receiver" \in threads
  THEN Joins("stopReceiver", "stopChild", {"receiver"})
  ELSE Joins("stopReceiver", "crypto.stop", {})

StopChild ==
  /\ Goto("stopChild", "reap")
  /\ IF Own THEN Terminate ELSE UNCHANGED gatewayVars
  /\ UNCHANGED processVars

\* The child has exited, or is killed when five seconds are over.
Reap ==
  /\ Goto("reap", "stopMonitor")
  /\ IF Own THEN Kill ELSE UNCHANGED gatewayVars
  /\ UNCHANGED processVars

StopMonitor == Joins("stopMonitor", "crypto.stop", {"monitor"})

\* DrainQueues, and Shutdown of the crypto subsystem.
ShutdownCryptoForgetsParsers == Joins("crypto.stop", "flush", {"network"})
ShutdownCrypto == Joins("crypto.stop", "flush", {"network", "parsers"})

FlushAndClose ==
  /\ Goto("flush", "stopPub")
  /\ closed' = TRUE
  /\ UNCHANGED <<gatewayVars, threads, registry, stored, frozen>>

StopPub == Joins("stopPub", "destroy", {"pub"})

\* The end of main.  A manager kills the child that the monitor may have
\* spawned after Shutdown had killed the last; its segment loses the name.
Destroy ==
  /\ main = "destroy"
  /\ pc' = IF Own THEN "exited" ELSE pc
  /\ named' = IF named = gen THEN 0 ELSE named
  /\ UNCHANGED <<loginVars, exitFlag, childReady, home, attached, parent, deathSignal>>
  /\ Exit

-----------------------------------------------------------------------------
(* The monitor, and the end that comes at any time *)

MonitorKill ==
  /\ "monitor" \in threads /\ Own
  /\ Kill
  /\ UNCHANGED mainVars

MonitorSpawn ==
  /\ "monitor" \in threads
  /\ Spawn(gen)
  /\ UNCHANGED mainVars

\* SIGKILL, a crash, std::terminate: no destructor runs, the name stays.
Crash ==
  /\ main # "down"
  /\ IF home = gen THEN ParentDies ELSE UNCHANGED gatewayVars
  /\ Exit

-----------------------------------------------------------------------------
Main ==
  \/ Launch \/ BuildCryptoSubsystem \/ FreezeChannels \/ RegisterChannels \/ CreateShm
  \/ SpawnChild \/ StartThreads \/ RunParsers \/ RunNetwork \/ StartPub
  \/ WaitForShutdown \/ StopReceiver \/ StopChild \/ Reap \/ StopMonitor
  \/ ShutdownCrypto \/ FlushAndClose \/ StopPub \/ Destroy

Gateway(A) == A /\ UNCHANGED mainVars

Next ==
  \/ Main \/ MonitorKill \/ MonitorSpawn \/ Crash
  \/ Gateway(Process) \/ Gateway(Alerts) \/ Gateway(Poll)

Spec == Init /\ [][Next]_vars

\* The child runs; the API answers each login and lists the agreements.
FairSpec ==
  /\ Spec
  /\ WF_vars(Gateway(Process))
  /\ WF_vars(Gateway(pc = "repWait" /\ RepositoryAlert))
  /\ WF_vars(Gateway(pc = "mdWait" /\ MarketDataAlert))
  /\ WF_vars(Gateway(\E n \in 0..1 : AgreementList(n)))

-----------------------------------------------------------------------------
(* Properties *)

Threads == {"receiver", "monitor", "parsers", "network", "pub"}
Steps == {"down", "crypto", "freeze", "rithmic", "shm", "spawn", "threads", "parsers", "network",
          "pub", "running", "stopReceiver", "stopChild", "reap", "stopMonitor", "crypto.stop",
          "flush", "stopPub", "destroy"}

\* Types of the state.
MainTypeOK ==
  /\ main \in Steps /\ gen \in 0..MaxRuns /\ threads \subseteq Threads
  /\ registry \subseteq Crypto \union Futures /\ stored \subseteq registry
  /\ frozen \in BOOLEAN /\ closed \in BOOLEAN
TypeOK == GatewayTypeOK(MaxRuns) /\ MainTypeOK

\* A gateway process that has mapped shared memory has mapped the segment of
\* the run that spawned it, whatever has been killed and restarted since; the
\* one exception is a child whose collector died before its prctl, which then
\* opens the segment of the next run.  And a child that beats is logged in.
FeedsItsCollector ==
  /\ TypeOK
  /\ BeatsLoggedIn
  /\ Attached /\ parent # "diedEarly" => attached = home

Routing == {"receiver", "parsers"}     \* the threads that dispatch events
LookingUp == Routing \union {"pub"}    \* the threads that read ChannelRegistry

\* channel_mapping.cpp: "Called only during single-threaded init before parser
\* threads start"; the backend's registry keeps still once it is frozen, also
\* for the futures channels that main registers later; and while a thread may
\* still dispatch, neither is storage closed nor is the publisher drained.
Bracketed ==
  main' # "down" =>
    /\ registry' # registry => threads \cap LookingUp = {}
    /\ stored' # stored => ~frozen
    /\ closed' # closed \/ "pub" \in threads \ threads' => threads \cap Routing = {}
ThreadsBracketed == [][Bracketed]_vars
=============================================================================
