------------------------- MODULE RithmicSupervisor -------------------------
(***************************************************************************)
(* RithmicProcessManager and what it supervises: the rithmic_gateway       *)
(* child, its heartbeat in shared memory, the monitor thread that runs     *)
(* CheckHealth, the receiver thread, and the main thread that shuts them   *)
(* down.  Sections under child_mtx_ are single steps, except the one of    *)
(* Shutdown, which waits for the child while it holds the mutex.           *)
(*                                                                         *)
(* Time is discrete.  One unit is the period of the child's heartbeat.     *)
(* Children are numbered in the order in which they are spawned; a number  *)
(* stands for the child's pid.                                             *)
(***************************************************************************)
EXTENDS Integers, Sequences, FiniteSets

CONSTANTS
  HeartbeatTimeout,   \* config_.heartbeat_timeout_sec
  RestartWindow,      \* the 60 seconds of CheckHealth's rate limit
  MaxRestarts,        \* config_.max_restarts_per_min
  MaxSpawns,          \* bound: children that can be spawned in a run
  MaxTime             \* bound: how far the clock runs

ASSUME BoundsAssumption ==
  /\ HeartbeatTimeout \in Nat /\ RestartWindow \in Nat /\ MaxRestarts \in Nat
  /\ MaxSpawns \in Nat \ {0} /\ MaxTime \in Nat \ {0}

VARIABLES
  now,               \* steady_clock
  heartbeat,         \* ShmHeader::heartbeat_ns, 0 before the first one
  procs,             \* what each child is to the system
  childPid,          \* child_pid_, NoChild for -1
  monitorRunning,    \* monitor_running_
  monPc, monNow,     \* the monitor: where it is in CheckHealth, now_ns
  lastRestart, restartCount,   \* last_restart_, restart_count_
  recvPc, recvRunning,         \* the receiver: where it is, running_
  mainPc,            \* the main thread's place in Shutdown and the destructor
  lastSeen,          \* history: when each child was spawned or last beat
  restarts,          \* history: when CheckHealth tried to restart
  strangerKilled     \* history: SIGKILL went to a process that is no child

childVars == <<heartbeat, procs, lastSeen>>
monVars == <<monPc, monNow, lastRestart, restartCount, restarts>>
recvVars == <<recvPc, recvRunning>>
vars == <<now, childVars, childPid, monitorRunning, monVars, recvVars, mainPc, strangerKilled>>

Children == 1..MaxSpawns
NoChild == 0
Live == {"login", "ready", "stalled", "stopping"}
\* Shutdown holds child_mtx_ from its SIGTERM on.
MutexFree == mainPc \notin {"waiting", "probing"}

Spawned == {c \in Children : procs[c] # "unborn"}

\* The state after Setup: the first child is spawned and the threads started.
Init ==
  /\ now = 1
  /\ heartbeat = 0
  /\ procs = [c \in Children |-> IF c = 1 THEN "login" ELSE "unborn"]
  /\ childPid = 1
  /\ monitorRunning = TRUE
  /\ monPc = "loop" /\ monNow = 0
  /\ lastRestart = 1 /\ restartCount = 0
  /\ recvPc = "starting" /\ recvRunning = FALSE
  /\ mainPc = "running"
  /\ lastSeen = [c \in Children |-> 1]
  /\ restarts = << >>
  /\ strangerKilled = FALSE

-----------------------------------------------------------------------------
(* The child, main() of rithmic_gateway *)

\* engine.Start() returns true and the signal handlers are installed.
ChildReady(c) ==
  /\ procs[c] = "login"
  /\ procs' = [procs EXCEPT ![c] = "ready"]
  /\ UNCHANGED <<now, heartbeat, lastSeen, childPid, monitorRunning, monVars, recvVars, mainPc, strangerKilled>>

\* One round of the main loop.
ChildBeat(c) ==
  /\ procs[c] = "ready"
  /\ heartbeat' = now
  /\ lastSeen' = [lastSeen EXCEPT ![c] = now]
  /\ UNCHANGED <<now, procs, childPid, monitorRunning, monVars, recvVars, mainPc, strangerKilled>>

\* The child stops making progress without exiting.
ChildStall(c) ==
  /\ procs[c] = "ready"
  /\ procs' = [procs EXCEPT ![c] = "stalled"]
  /\ UNCHANGED <<now, heartbeat, lastSeen, childPid, monitorRunning, monVars, recvVars, mainPc, strangerKilled>>

\* The child exits: a failed login, a crash, or the end of a graceful stop.
ChildExit(c) ==
  /\ procs[c] \in Live
  /\ procs' = [procs EXCEPT ![c] = "zombie"]
  /\ UNCHANGED <<now, heartbeat, lastSeen, childPid, monitorRunning, monVars, recvVars, mainPc, strangerKilled>>

\* The system gives the pid of a reaped child to another process.
Recycle(c) ==
  /\ procs[c] = "reaped"
  /\ procs' = [procs EXCEPT ![c] = "stranger"]
  /\ UNCHANGED <<now, heartbeat, lastSeen, childPid, monitorRunning, monVars, recvVars, mainPc, strangerKilled>>

\* A child in its main loop beats in every unit of time.
Tick ==
  /\ now < MaxTime
  /\ \A c \in Children : procs[c] = "ready" => lastSeen[c] = now
  /\ now' = now + 1
  /\ UNCHANGED <<childVars, childPid, monitorRunning, monVars, recvVars, mainPc, strangerKilled>>

-----------------------------------------------------------------------------
(* kill and waitpid *)

\* kill(childPid, SIGKILL) and a waitpid that blocks, then child_pid_ = -1.  On
\* a stranger the kill takes effect and waitpid fails.
KillAndReap ==
  /\ procs' = [procs EXCEPT ![childPid] = IF @ = "stranger" THEN @ ELSE "reaped"]
  /\ strangerKilled' = (strangerKilled \/ procs[childPid] = "stranger")
  /\ childPid' = NoChild

-----------------------------------------------------------------------------
(* The monitor thread *)

MonitorLoop ==
  /\ monPc = "loop"
  /\ monPc' = IF monitorRunning THEN "probe" ELSE "exited"
  /\ UNCHANGED <<now, childVars, childPid, monitorRunning, monNow, lastRestart, restartCount, restarts, recvVars, mainPc, strangerKilled>>

\* waitpid(child_pid_, WNOHANG) under the mutex: a zombie is reaped.
MonitorProbeByKill0 ==
  /\ monPc = "probe" /\ MutexFree
  /\ monPc' = IF childPid # NoChild THEN "clock" ELSE "limit"
  /\ UNCHANGED <<now, childVars, childPid, monitorRunning, monNow, lastRestart, restartCount, restarts, recvVars, mainPc, strangerKilled>>

MonitorProbe ==
  /\ monPc = "probe" /\ MutexFree
  /\ \/ /\ childPid # NoChild /\ procs[childPid] \in Live
        /\ monPc' = "clock"
        /\ UNCHANGED <<procs, childPid>>
     \/ /\ childPid # NoChild /\ procs[childPid] = "zombie"
        /\ procs' = [procs EXCEPT ![childPid] = "reaped"]
        /\ childPid' = NoChild
        /\ monPc' = "limit"
     \/ /\ childPid = NoChild
        /\ monPc' = "limit"
        /\ UNCHANGED <<procs, childPid>>
  /\ UNCHANGED <<now, heartbeat, lastSeen, monitorRunning, monNow, lastRestart, restartCount, restarts, recvVars, mainPc, strangerKilled>>

\* The child lives: CheckHealth first reads the clock ...
MonitorClock ==
  /\ monPc = "clock"
  /\ monNow' = now
  /\ monPc' = "heartbeat"
  /\ UNCHANGED <<now, childVars, childPid, monitorRunning, lastRestart, restartCount, restarts, recvVars, mainPc, strangerKilled>>

\* ... then loads the heartbeat.  The difference is unsigned: a heartbeat later
\* than the clock reading makes it enormous.
TimedOut == heartbeat > 0 /\ (heartbeat > monNow \/ monNow - heartbeat > HeartbeatTimeout)

MonitorHeartbeat ==
  /\ monPc = "heartbeat"
  /\ monPc' = IF TimedOut THEN "kill" ELSE "sleep"
  /\ UNCHANGED <<now, childVars, childPid, monitorRunning, monNow, lastRestart, restartCount, restarts, recvVars, mainPc, strangerKilled>>

MonitorKill ==
  /\ monPc = "kill" /\ MutexFree
  /\ IF childPid # NoChild THEN KillAndReap ELSE UNCHANGED <<procs, childPid, strangerKilled>>
  /\ monPc' = "limit"
  /\ UNCHANGED <<now, heartbeat, lastSeen, monitorRunning, monNow, lastRestart, restartCount, restarts, recvVars, mainPc>>

\* The rate limit.  Past the limit the monitor gives up for good.
MonitorLimitForgetsTime ==
  /\ monPc = "limit"
  /\ restartCount' = IF now - lastRestart < RestartWindow THEN restartCount + 1 ELSE 0
  /\ IF restartCount' > MaxRestarts
     THEN monitorRunning' = FALSE /\ monPc' = "sleep" /\ UNCHANGED <<lastRestart, restarts>>
     ELSE monPc' = "spawn" /\ restarts' = Append(restarts, now) /\ UNCHANGED <<lastRestart, monitorRunning>>
  /\ UNCHANGED <<now, childVars, childPid, monNow, recvVars, mainPc, strangerKilled>>

MonitorLimit ==
  /\ monPc = "limit"
  /\ restartCount' = IF now - lastRestart < RestartWindow THEN restartCount + 1 ELSE 0
  /\ IF restartCount' > MaxRestarts
     THEN monitorRunning' = FALSE /\ monPc' = "sleep" /\ UNCHANGED <<lastRestart, restarts>>
     ELSE /\ lastRestart' = now /\ monPc' = "spawn"
          /\ restarts' = Append(restarts, now)
          /\ UNCHANGED monitorRunning
  /\ UNCHANGED <<now, childVars, childPid, monNow, recvVars, mainPc, strangerKilled>>

\* SpawnChild under the mutex.  posix_spawn may fail.  Whether Shutdown began
\* in the meantime is not asked.
MonitorSpawn ==
  /\ monPc = "spawn" /\ MutexFree
  /\ \/ \E c \in Children :
          /\ c = Cardinality(Spawned) + 1
          /\ procs' = [procs EXCEPT ![c] = "login"]
          /\ lastSeen' = [lastSeen EXCEPT ![c] = now]
          /\ childPid' = c
     \/ /\ childPid' = NoChild
        /\ UNCHANGED <<procs, lastSeen>>
  /\ monPc' = "sleep"
  /\ UNCHANGED <<now, heartbeat, monitorRunning, monNow, lastRestart, restartCount, restarts, recvVars, mainPc, strangerKilled>>

MonitorWake ==
  /\ monPc = "sleep"
  /\ monPc' = "loop"
  /\ UNCHANGED <<now, childVars, childPid, monitorRunning, monNow, lastRestart, restartCount, restarts, recvVars, mainPc, strangerKilled>>

Monitor ==
  MonitorLoop \/ MonitorProbe \/ MonitorClock \/ MonitorHeartbeat \/ MonitorKill
    \/ MonitorLimit \/ MonitorSpawn \/ MonitorWake

-----------------------------------------------------------------------------
(* The receiver thread, reduced to the running_ flag that ends its loop *)

ReceiverRun ==
  /\ recvPc = "starting"
  /\ recvRunning' = TRUE
  /\ recvPc' = "polling"
  /\ UNCHANGED <<now, childVars, childPid, monitorRunning, monVars, mainPc, strangerKilled>>

ReceiverExit ==
  /\ recvPc = "polling"
  /\ ~recvRunning
  /\ recvPc' = "exited"
  /\ UNCHANGED <<now, childVars, childPid, monitorRunning, monVars, recvRunning, mainPc, strangerKilled>>

-----------------------------------------------------------------------------
(* The main thread: Shutdown, then the destructor *)

\* Shutdown clears monitor_running_ and the receiver's running_.
BeginShutdownForgetsMonitor ==
  /\ mainPc = "running" /\ mainPc' = "joinReceiver"
  /\ recvRunning' = FALSE
  /\ UNCHANGED <<now, childVars, childPid, monitorRunning, monVars, recvPc, strangerKilled>>

BeginShutdown ==
  /\ mainPc = "running"
  /\ monitorRunning' = FALSE
  /\ recvRunning' = FALSE
  /\ mainPc' = "joinReceiver"
  /\ UNCHANGED <<now, childVars, childPid, monVars, recvPc, strangerKilled>>

JoinReceiver ==
  /\ mainPc = "joinReceiver"
  /\ recvPc = "exited"
  /\ mainPc' = "stopChild"
  /\ UNCHANGED <<now, childVars, childPid, monitorRunning, monVars, recvVars, strangerKilled>>

\* child_mtx_ is taken.  SIGTERM ends a child that has not installed its handler
\* yet; later it starts the child's graceful stop.
TerminateChild ==
  /\ mainPc = "stopChild"
  /\ \/ /\ childPid # NoChild
        /\ procs' = [procs EXCEPT ![childPid] =
                       CASE @ = "login" -> "zombie" [] @ = "ready" -> "stopping" [] OTHER -> @]
        /\ mainPc' = "waiting"
     \/ /\ childPid = NoChild
        /\ mainPc' = "joinMonitor"
        /\ UNCHANGED procs
  /\ UNCHANGED <<now, heartbeat, lastSeen, childPid, monitorRunning, monVars, recvVars, strangerKilled>>

\* One of the fifty waitpid(WNOHANG) calls reaps the child, or none does.
WaitForChild ==
  /\ mainPc = "waiting"
  /\ \/ /\ procs[childPid] = "zombie"
        /\ procs' = [procs EXCEPT ![childPid] = "reaped"]
     \/ UNCHANGED procs
  /\ mainPc' = "probing"
  /\ UNCHANGED <<now, heartbeat, lastSeen, childPid, monitorRunning, monVars, recvVars, strangerKilled>>

\* kill(child_pid_, 0), and SIGKILL when it finds a process.  child_mtx_ is
\* released.
ProbeKeepsReapedPid ==
  /\ mainPc = "probing"
  /\ IF procs[childPid] # "reaped" THEN KillAndReap ELSE UNCHANGED <<procs, childPid, strangerKilled>>
  /\ mainPc' = "joinMonitor"
  /\ UNCHANGED <<now, heartbeat, lastSeen, monitorRunning, monVars, recvVars>>

ProbeAndKill ==
  /\ mainPc = "probing"
  /\ IF procs[childPid] # "reaped"
     THEN KillAndReap
     ELSE childPid' = NoChild /\ UNCHANGED <<procs, strangerKilled>>
  /\ mainPc' = "joinMonitor"
  /\ UNCHANGED <<now, heartbeat, lastSeen, monitorRunning, monVars, recvVars>>

JoinMonitor ==
  /\ mainPc = "joinMonitor"
  /\ monPc = "exited"
  /\ mainPc' = "shutdown"
  /\ UNCHANGED <<now, childVars, childPid, monitorRunning, monVars, recvVars, strangerKilled>>

\* The destructor, when main returns: the threads are joined already.
DestroySkipsKill ==
  /\ mainPc = "shutdown" /\ mainPc' = "destroyed"
  /\ UNCHANGED <<now, childVars, childPid, monitorRunning, monVars, recvVars, strangerKilled>>

Destroy ==
  /\ mainPc = "shutdown"
  /\ IF childPid # NoChild THEN KillAndReap ELSE UNCHANGED <<procs, childPid, strangerKilled>>
  /\ mainPc' = "destroyed"
  /\ UNCHANGED <<now, heartbeat, lastSeen, monitorRunning, monVars, recvVars>>

Shutdown == JoinReceiver \/ TerminateChild \/ WaitForChild \/ ProbeAndKill \/ JoinMonitor \/ Destroy

-----------------------------------------------------------------------------
Next ==
  \/ \E c \in Children :
       ChildReady(c) \/ ChildBeat(c) \/ ChildStall(c) \/ ChildExit(c) \/ Recycle(c)
  \/ Tick
  \/ Monitor
  \/ ReceiverRun \/ ReceiverExit
  \/ BeginShutdown \/ Shutdown

Spec == Init /\ [][Next]_vars

\* The collector's threads run.  Nothing is assumed of the child or the clock,
\* and nobody need ask for the shutdown.
FairSpec ==
  /\ Spec
  /\ WF_vars(Monitor)
  /\ WF_vars(ReceiverRun \/ ReceiverExit)
  /\ WF_vars(Shutdown)

-----------------------------------------------------------------------------
(* Properties *)

\* Types of the state.
TypeOK ==
  /\ now \in 1..MaxTime /\ heartbeat \in 0..now
  /\ procs \in [Children -> Live \cup {"unborn", "zombie", "reaped", "stranger"}]
  /\ childPid \in Children \cup {NoChild}
  /\ monitorRunning \in BOOLEAN
  /\ monPc \in {"loop", "probe", "clock", "heartbeat", "kill", "limit", "spawn", "sleep", "exited"}
  /\ monNow \in 0..now
  /\ lastRestart \in 1..now /\ restartCount \in 0..(MaxRestarts + 1)
  /\ recvPc \in {"starting", "polling", "exited"} /\ recvRunning \in BOOLEAN
  /\ mainPc \in {"running", "joinReceiver", "stopChild", "waiting", "probing",
                 "joinMonitor", "shutdown", "destroyed"}
  /\ lastSeen \in [Children -> 1..now]
  /\ restarts \in Seq(1..now)
  /\ strangerKilled \in BOOLEAN

\* A child that is not reaped is the one in child_pid_: no child is lost track
\* of, and two gateways never feed the queues together, whatever the monitor
\* and Shutdown do to each other.  After the destructor no child is left, alive or
\* zombie, even if CheckHealth respawned one behind Shutdown's back.
ChildTracked ==
  /\ TypeOK
  /\ \A c \in Children :
       procs[c] \in Live \cup {"zombie"} => c = childPid /\ mainPc # "destroyed"

\* CheckHealth tries at most max_restarts_per_min + 1 restarts in any 60 s.
RestartRateBounded ==
  \A i \in 1..Len(restarts) :
    Cardinality({j \in 1..Len(restarts) :
      restarts[i] <= restarts[j] /\ restarts[j] < restarts[i] + RestartWindow}) <= MaxRestarts + 1

\* A child that has died is replaced, unless the monitor gives up or is stopped.
DeadIsReplaced ==
  (childPid # NoChild /\ procs[childPid] = "zombie")
    ~> (~monitorRunning \/ (childPid # NoChild /\ procs[childPid] \in Live))

\* Shutdown and the destructor come to an end if the receiver was in its loop
\* when it was told to stop, however the child and the monitor behave.
ShutdownEnds ==
  (mainPc = "joinReceiver" /\ recvPc = "polling" /\ ~recvRunning) ~> (mainPc = "destroyed")

\* CheckHealth and the destructor never signal a process that was given the pid of
\* a child already reaped: where child_pid_ is set its child was not reaped, except
\* between the two waits of Shutdown, whose probe finds any process of that pid.
StrangersLeftAlone ==
  [][~strangerKilled /\ strangerKilled' => mainPc = "probing"]_vars
=============================================================================
