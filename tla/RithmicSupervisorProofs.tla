---------------------- MODULE RithmicSupervisorProofs ----------------------
(***************************************************************************)
(* The supervisor never loses track of a child, never signals a stranger   *)
(* from CheckHealth or the destructor, and keeps to its restart rate, for  *)
(* every timeout, window, limit and number of children.                    *)
(***************************************************************************)
EXTENDS RithmicSupervisor, RingLemmas, FiniteSetTheorems

Unreaped == Live \cup {"zombie"}

\* Past the limit restart_count_ is never raised again: the monitor is on its
\* way out.
GivenUp ==
  restartCount > MaxRestarts => ~monitorRunning /\ monPc \in {"sleep", "loop", "exited"}

\* Whose child_pid_ is.  It is set only while its child is not reaped, except
\* between the two waits of Shutdown; CheckHealth spawns only where it is unset;
\* the destructor finds the monitor joined.
Custody ==
  /\ \A c \in Children : procs[c] \in Unreaped => c = childPid
  /\ childPid # NoChild => mainPc = "probing" \/ procs[childPid] \in Unreaped
  /\ mainPc \in {"waiting", "probing"} => childPid # NoChild
  /\ monPc \in {"limit", "spawn"} => childPid = NoChild
  /\ mainPc \in {"shutdown", "destroyed"} => monPc = "exited"
  /\ mainPc = "destroyed" => childPid = NoChild

\* Restarts are in the order of time, last_restart_ is the last of them, and
\* restart_count_ is no less than the number of restarts that separate it from
\* any earlier one in its window.
RestartLog ==
  LET n == Len(restarts)
  IN  /\ n > 0 => lastRestart = restarts[n]
      /\ \A a, b \in 1..n : a <= b => restarts[a] <= restarts[b]
      /\ \A a \in 1..n : restarts[n] < restarts[a] + RestartWindow => n - a <= restartCount
      /\ \A a, b \in 1..n :
           a <= b /\ restarts[b] < restarts[a] + RestartWindow => b - a <= MaxRestarts

SupervisorInv == TypeOK /\ GivenUp /\ Custody /\ RestartLog

-----------------------------------------------------------------------------
\* Nothing runs yet and nothing has been restarted.
LEMMA SupervisorStarts == Init => SupervisorInv
<1> SUFFICES ASSUME Init PROVE SupervisorInv
  OBVIOUS
<1>1. procs \in [Children -> Live \cup {"unborn", "zombie", "reaped", "stranger"}]
  BY DEF Init, Live
<1>2. restarts \in Seq(1..now) /\ lastSeen \in [Children -> 1..now]
  BY DEF Init
<1>3. TypeOK
  <2>1. now \in 1..MaxTime /\ childPid \in Children \cup {NoChild}
    BY BoundsAssumption DEF Init, Children
  <2>2. heartbeat \in 0..now /\ monNow \in 0..now /\ lastRestart \in 1..now
        /\ restartCount \in 0..(MaxRestarts + 1)
    BY BoundsAssumption DEF Init
  <2> QED
    BY <1>1, <1>2, <2>1, <2>2, Zenon DEF Init, TypeOK
<1>4. GivenUp /\ Custody /\ RestartLog
  BY BoundsAssumption DEF Init, GivenUp, Custody, RestartLog, Children, NoChild, Unreaped, Live
<1> QED
  BY <1>3, <1>4 DEF SupervisorInv

\* Every step keeps the types, and the monitor's retirement once it gave up.
LEMMA TypeKept == TypeOK /\ GivenUp /\ Custody /\ [Next]_vars => TypeOK' /\ GivenUp'
<1> SUFFICES ASSUME TypeOK, GivenUp, Custody, [Next]_vars PROVE TypeOK' /\ GivenUp'
  OBVIOUS
<1> USE BoundsAssumption DEF TypeOK, GivenUp, Live
<1>1. ASSUME NEW c \in Children, ChildReady(c) PROVE TypeOK' /\ GivenUp'
  BY <1>1 DEF ChildReady, childVars, monVars, recvVars
<1>2. ASSUME NEW c \in Children, ChildBeat(c) PROVE TypeOK' /\ GivenUp'
  BY <1>2 DEF ChildBeat, childVars, monVars, recvVars
<1>3. ASSUME NEW c \in Children, ChildStall(c) PROVE TypeOK' /\ GivenUp'
  BY <1>3 DEF ChildStall, childVars, monVars, recvVars
<1>4. ASSUME NEW c \in Children, ChildExit(c) PROVE TypeOK' /\ GivenUp'
  BY <1>4 DEF ChildExit, childVars, monVars, recvVars
<1>5. ASSUME NEW c \in Children, Recycle(c) PROVE TypeOK' /\ GivenUp'
  BY <1>5 DEF Recycle, childVars, monVars, recvVars
<1>6. CASE Tick
  BY <1>6 DEF Tick, childVars, monVars, recvVars
<1>7. CASE MonitorLoop
  BY <1>7 DEF MonitorLoop, childVars, monVars, recvVars
<1>8. CASE MonitorProbe
  <2>1. /\ procs' \in [Children -> Live \cup {"unborn", "zombie", "reaped", "stranger"}]
        /\ childPid' \in Children \cup {NoChild}
        /\ monPc = "probe" /\ monPc' \in {"clock", "limit"}
        /\ UNCHANGED <<now, heartbeat, lastSeen, monitorRunning, monNow, lastRestart, restartCount,
                       restarts, recvRunning, recvPc, mainPc, strangerKilled>>
    BY <1>8, Zenon DEF MonitorProbe, recvVars
  <2> QED
    BY <2>1, ZenonT(30)
<1>9. CASE MonitorClock
  BY <1>9 DEF MonitorClock, childVars, monVars, recvVars
<1>10. CASE MonitorHeartbeat
  BY <1>10 DEF MonitorHeartbeat, childVars, monVars, recvVars
<1>11. CASE MonitorKill
  BY <1>11, Zenon DEF MonitorKill, childVars, monVars, recvVars, KillAndReap
<1>12. CASE MonitorLimit
  <2>1. restartCount \in 0..MaxRestarts /\ restartCount' \in 0..(MaxRestarts + 1)
    BY <1>12 DEF MonitorLimit
  <2>2. now \in 1..now /\ Append(restarts, now) \in Seq(1..now)
    OBVIOUS
  <2>3. restarts' \in Seq(1..now) /\ lastRestart' \in 1..now
    BY <1>12, <2>2, Zenon DEF MonitorLimit
  <2>4. monitorRunning' \in BOOLEAN /\ monPc' \in {"sleep", "spawn"}
    BY <1>12, Zenon DEF MonitorLimit
  <2>5. restartCount' > MaxRestarts => ~monitorRunning' /\ monPc' = "sleep"
    BY <1>12 DEF MonitorLimit
  <2> QED
    BY <1>12, <2>1, <2>3, <2>4, <2>5 DEF MonitorLimit, childVars, recvVars
<1>13. CASE MonitorSpawn
  <2>1. procs' \in [Children -> Live \cup {"unborn", "zombie", "reaped", "stranger"}]
    BY <1>13 DEF MonitorSpawn
  <2>2. childPid' \in Children \cup {NoChild}
    BY <1>13 DEF MonitorSpawn
  <2>3. now \in 1..now
    OBVIOUS
  <2>4. lastSeen' \in [Children -> 1..now]
    BY <1>13, <2>3 DEF MonitorSpawn
  <2> QED
    BY <1>13, <2>1, <2>2, <2>4 DEF MonitorSpawn, recvVars
<1>14. CASE MonitorWake
  BY <1>14 DEF MonitorWake, childVars, monVars, recvVars
<1>15. CASE ReceiverRun
  BY <1>15 DEF ReceiverRun, childVars, monVars, recvVars
<1>16. CASE ReceiverExit
  BY <1>16 DEF ReceiverExit, childVars, monVars, recvVars
<1>17. CASE BeginShutdown
  BY <1>17, Zenon DEF BeginShutdown, childVars, monVars, recvVars
<1>18. CASE JoinReceiver
  BY <1>18 DEF JoinReceiver, childVars, monVars, recvVars
<1>19. CASE TerminateChild
  BY <1>19, ZenonT(30) DEF TerminateChild, childVars, monVars, recvVars
<1>20. CASE WaitForChild
  BY <1>20 DEF WaitForChild, childVars, monVars, recvVars
<1>21. CASE ProbeAndKill
  BY <1>21, Zenon DEF ProbeAndKill, childVars, monVars, recvVars, KillAndReap
<1>22. CASE JoinMonitor
  BY <1>22 DEF JoinMonitor, childVars, monVars, recvVars
<1>23. CASE Destroy
  BY <1>23, ZenonT(30) DEF Destroy, childVars, monVars, recvVars, KillAndReap
<1>24. CASE UNCHANGED vars
  BY <1>24 DEF vars, childVars, monVars, recvVars
<1> QED
  BY <1>1, <1>2, <1>3, <1>4, <1>5, <1>6, <1>7, <1>8, <1>9, <1>10, <1>11, <1>12, <1>13, <1>14, <1>15, <1>16, <1>17, <1>18, <1>19, <1>20, <1>21, <1>22, <1>23, <1>24, ZenonT(30)
  DEF Next, Monitor, Shutdown

\* Every step keeps track of the child.
LEMMA CustodyKept == TypeOK /\ Custody /\ [Next]_vars => Custody'
<1> SUFFICES ASSUME TypeOK, Custody, [Next]_vars PROVE Custody'
  OBVIOUS
<1>0. /\ procs \in [Children -> Unreaped \cup {"unborn", "reaped", "stranger"}]
      /\ childPid \in Children \cup {NoChild}
  BY DEF TypeOK, Unreaped
<1>00. NoChild \notin Children
  BY BoundsAssumption DEF NoChild, Children
<1> USE <1>0, <1>00 DEF Custody, Unreaped, Live
<1>1. ASSUME NEW c \in Children, ChildReady(c) PROVE Custody'
  BY <1>1 DEF ChildReady, monVars
<1>2. ASSUME NEW c \in Children, ChildBeat(c) PROVE Custody'
  BY <1>2 DEF ChildBeat, monVars
<1>3. ASSUME NEW c \in Children, ChildStall(c) PROVE Custody'
  BY <1>3 DEF ChildStall, monVars
<1>4. ASSUME NEW c \in Children, ChildExit(c) PROVE Custody'
  BY <1>4 DEF ChildExit, monVars
<1>5. ASSUME NEW c \in Children, Recycle(c) PROVE Custody'
  BY <1>5 DEF Recycle, monVars
<1>6. CASE Tick
  BY <1>6 DEF Tick, childVars, monVars
<1>7. CASE MonitorLoop
  BY <1>7 DEF MonitorLoop, childVars
<1>8. CASE MonitorProbe
  BY <1>8 DEF MonitorProbe, MutexFree
<1>9. CASE MonitorClock
  BY <1>9 DEF MonitorClock, childVars
<1>10. CASE MonitorHeartbeat
  BY <1>10 DEF MonitorHeartbeat, childVars
<1>11. CASE MonitorKill
  BY <1>11 DEF MonitorKill, KillAndReap, MutexFree
<1>12. CASE MonitorLimit
  BY <1>12 DEF MonitorLimit, childVars
<1>13. CASE MonitorSpawn
  BY <1>13 DEF MonitorSpawn, MutexFree
<1>14. CASE MonitorWake
  BY <1>14 DEF MonitorWake, childVars
<1>15. CASE ReceiverRun
  BY <1>15 DEF ReceiverRun, childVars, monVars
<1>16. CASE ReceiverExit
  BY <1>16 DEF ReceiverExit, childVars, monVars
<1>17. CASE BeginShutdown
  BY <1>17 DEF BeginShutdown, childVars, monVars
<1>18. CASE JoinReceiver
  BY <1>18 DEF JoinReceiver, childVars, monVars
<1>19. CASE TerminateChild
  BY <1>19 DEF TerminateChild, monVars
<1>20. CASE WaitForChild
  BY <1>20 DEF WaitForChild, monVars
<1>21. CASE ProbeAndKill
  BY <1>21 DEF ProbeAndKill, KillAndReap, monVars
<1>22. CASE JoinMonitor
  BY <1>22 DEF JoinMonitor, childVars, monVars
<1>23. CASE Destroy
  BY <1>23 DEF Destroy, KillAndReap, monVars
<1>24. CASE UNCHANGED vars
  BY <1>24 DEF vars, childVars, monVars
<1> QED
  BY <1>1, <1>2, <1>3, <1>4, <1>5, <1>6, <1>7, <1>8, <1>9, <1>10, <1>11, <1>12, <1>13, <1>14, <1>15, <1>16, <1>17, <1>18, <1>19, <1>20, <1>21, <1>22, <1>23, <1>24, Zenon
  DEF Next, Monitor, Shutdown

\* Only CheckHealth's rate limit adds to the log.
LEMMA LogKept ==
  TypeOK /\ GivenUp /\ RestartLog /\ [Next]_vars => RestartLog'
<1> SUFFICES ASSUME TypeOK, GivenUp, RestartLog, [Next]_vars PROVE RestartLog'
  OBVIOUS
<1>1. CASE UNCHANGED <<lastRestart, restartCount, restarts>>
  BY <1>1 DEF RestartLog
<1>2. CASE MonitorLimit
  <2> DEFINE n == Len(restarts)
  <2>1. /\ restarts \in Seq(1..now) /\ n \in Nat /\ now \in Nat /\ lastRestart \in 1..now
        /\ restartCount \in 0..MaxRestarts /\ restartCount' \in Nat
        /\ restartCount' = IF now - lastRestart < RestartWindow THEN restartCount + 1 ELSE 0
    BY <1>2, BoundsAssumption DEF TypeOK, GivenUp, MonitorLimit
  <2>0. /\ \A a, b \in 1..n : a <= b => restarts[a] <= restarts[b]
        /\ \A a, b \in 1..n :
             a <= b /\ restarts[b] < restarts[a] + RestartWindow => b - a <= MaxRestarts
    BY DEF RestartLog
  <2>2. CASE restartCount' > MaxRestarts
    <3>1. UNCHANGED <<lastRestart, restarts>> /\ restartCount' >= restartCount
      BY <1>2, <2>1, <2>2, BoundsAssumption DEF MonitorLimit
    <3> QED
      BY <2>1, <3>1 DEF RestartLog
  <2>3. CASE restartCount' <= MaxRestarts
    <3>1. lastRestart' = now /\ restarts' = Append(restarts, now)
      BY <1>2, <2>1, <2>3, BoundsAssumption DEF MonitorLimit
    <3>2. /\ Len(restarts') = n + 1 /\ restarts'[n + 1] = now
          /\ \A i \in 1..n : restarts'[i] = restarts[i] /\ restarts[i] \in 1..now
      BY <2>1, <3>1
    <3>3. ASSUME NEW a \in 1..n, now < restarts[a] + RestartWindow
          PROVE  (n + 1) - a <= restartCount'
      <4>1. n > 0 /\ lastRestart = restarts[n] /\ restarts[a] <= restarts[n] /\ restarts[n] <= now
        BY <2>1, <3>2 DEF RestartLog
      <4>0. now \in Nat /\ restarts[a] \in Nat /\ n \in 1..n /\ restarts[n] \in 1..now
        BY <2>1, <3>2, <4>1, SMTT(30)
      <4>2. restarts[n] < restarts[a] + RestartWindow
        BY <3>3, <4>0, <4>1, BoundsAssumption
      <4>3. n - a <= restartCount
        BY <4>2 DEF RestartLog
      <4>4. restarts[a] \in Nat /\ now - lastRestart < RestartWindow
        BY <2>1, <3>2, <3>3, <4>1, BoundsAssumption, SMTT(30)
      <4>5. restartCount' = restartCount + 1 /\ restartCount \in Nat
        BY <2>1, <4>4, BoundsAssumption
      <4> QED
        BY <2>1, <4>3, <4>5
    <3> HIDE DEF n
    <3>4. \A a, b \in 1..(n + 1) : a <= b => restarts'[a] <= restarts'[b]
      <4> SUFFICES ASSUME NEW a \in 1..(n + 1), NEW b \in 1..(n + 1), a <= b
                   PROVE  restarts'[a] <= restarts'[b]
        OBVIOUS
      <4>1. CASE b = n + 1
        BY <2>1, <3>2, <4>1
      <4>2. CASE b \in 1..n
        BY <2>0, <2>1, <3>2, <4>2
      <4> QED
        BY <2>1, <4>1, <4>2
    <3>5. \A a \in 1..(n + 1) : now < restarts'[a] + RestartWindow => (n + 1) - a <= restartCount'
      BY <2>1, <3>2, <3>3
    <3>6. \A a, b \in 1..(n + 1) :
             a <= b /\ restarts'[b] < restarts'[a] + RestartWindow => b - a <= MaxRestarts
      <4> SUFFICES ASSUME NEW a \in 1..(n + 1), NEW b \in 1..(n + 1), a <= b,
                          restarts'[b] < restarts'[a] + RestartWindow
                   PROVE  b - a <= MaxRestarts
        OBVIOUS
      <4>1. CASE b = n + 1
        BY <2>1, <2>3, <3>2, <3>5, <4>1, BoundsAssumption
      <4>2. CASE b \in 1..n
        <5>1. a \in 1..n /\ restarts'[a] = restarts[a] /\ restarts'[b] = restarts[b]
          BY <2>1, <3>2, <4>2
        <5> QED
          BY <2>0, <4>2, <5>1, Zenon
      <4> QED
        BY <2>1, <4>1, <4>2
    <3>7. lastRestart' = restarts'[n + 1]
      BY <3>1, <3>2
    <3>8. \A a \in 1..(n + 1) : restarts'[n + 1] < restarts'[a] + RestartWindow => (n + 1) - a <= restartCount'
      BY <3>2, <3>5, Zenon
    <3>9. Len(restarts') = n + 1
      BY <3>2
    <3> DEFINE k == Len(restarts')
    <3>10. /\ lastRestart' = restarts'[k]
           /\ \A a, b \in 1..k : a <= b => restarts'[a] <= restarts'[b]
           /\ \A a \in 1..k : restarts'[k] < restarts'[a] + RestartWindow => k - a <= restartCount'
           /\ \A a, b \in 1..k :
                a <= b /\ restarts'[b] < restarts'[a] + RestartWindow => b - a <= MaxRestarts
      <4>1. k = n + 1
        BY <3>9
      <4> HIDE DEF k
      <4>2. lastRestart' = restarts'[k]
        BY <3>7, <4>1, Zenon
      <4>3. \A a, b \in 1..k : a <= b => restarts'[a] <= restarts'[b]
        BY <3>4, <4>1, Zenon
      <4>4. ASSUME NEW a \in 1..k, restarts'[k] < restarts'[a] + RestartWindow
            PROVE  k - a <= restartCount'
        <5>1. a \in 1..(n + 1) /\ restarts'[n + 1] < restarts'[a] + RestartWindow
          BY <4>1, <4>4, Zenon
        <5>2. (n + 1) - a <= restartCount'
          BY <3>8, <5>1, Zenon
        <5> QED
          BY <4>1, <5>2, Zenon
      <4>5. \A a, b \in 1..k :
              a <= b /\ restarts'[b] < restarts'[a] + RestartWindow => b - a <= MaxRestarts
        BY <3>6, <4>1, Zenon
      <4> QED
        BY <4>2, <4>3, <4>4, <4>5, Zenon
    <3> QED
      BY <3>10, Zenon DEF RestartLog
  <2> QED
    BY <2>1, <2>2, <2>3, BoundsAssumption
<1>3. CASE ~MonitorLimit /\ (Next \/ UNCHANGED vars)
  <2>1. UNCHANGED <<lastRestart, restartCount, restarts>>
    BY <1>3, Zenon
    DEF vars, monVars, Next, Monitor, Shutdown, ChildReady, ChildBeat, ChildStall, ChildExit,
        Recycle, Tick, MonitorLoop, MonitorProbe, MonitorClock, MonitorHeartbeat, MonitorKill,
        MonitorSpawn, MonitorWake, ReceiverRun, ReceiverExit, BeginShutdown, JoinReceiver,
        TerminateChild, WaitForChild, ProbeAndKill, JoinMonitor, Destroy
  <2> QED
    BY <1>1, <2>1
<1> QED
  BY <1>2, <1>3

-----------------------------------------------------------------------------
\* The supervisor keeps its types, its custody of the child and its log.
THEOREM SupervisorKeepsInv == Spec => []SupervisorInv
<1>1. SupervisorInv /\ [Next]_vars => SupervisorInv'
  BY TypeKept, CustodyKept, LogKept DEF SupervisorInv
<1> QED
  BY <1>1, SupervisorStarts, PTL DEF Spec

\* However CheckHealth and Shutdown interleave, a child that is not reaped is the
\* one in child_pid_, and the destructor leaves none behind.
THEOREM NoChildIsLost == Spec => []ChildTracked
<1>1. SupervisorInv => ChildTracked
  <2>1. NoChild \notin Children
    BY BoundsAssumption DEF NoChild, Children
  <2> QED
    BY <2>1 DEF SupervisorInv, Custody, ChildTracked, Unreaped
<1> QED
  BY <1>1, SupervisorKeepsInv, PTL

\* No window of 60 s holds more than max_restarts_per_min + 1 restarts.
THEOREM RestartsAreLimited == Spec => []RestartRateBounded
<1>1. ASSUME SupervisorInv, NEW i \in 1..Len(restarts)
      PROVE  Cardinality({j \in 1..Len(restarts) :
               restarts[i] <= restarts[j] /\ restarts[j] < restarts[i] + RestartWindow}) <= MaxRestarts + 1
  <2> DEFINE S == {j \in 1..Len(restarts) :
               restarts[i] <= restarts[j] /\ restarts[j] < restarts[i] + RestartWindow}
  <2>1. /\ restarts \in Seq(Nat) /\ Len(restarts) \in Nat
        /\ \A j \in 1..Len(restarts) : restarts[j] \in Nat
    BY <1>1, SMTT(30) DEF SupervisorInv, TypeOK
  <2>2. CASE S = {}
    BY <2>2, FS_EmptySet, BoundsAssumption
  <2>3. CASE S # {}
    <3>1. PICK a \in S : \A j \in S : a <= j
      <4>1. S \subseteq Nat
        BY <2>1
      <4> HIDE DEF S
      <4> QED
        BY <2>3, <4>1, LeastNumber, Zenon
    <3>2. ASSUME NEW j \in S PROVE j \in a..(a + MaxRestarts)
      <4>0. /\ a <= j /\ restarts[i] <= restarts[a] /\ restarts[j] < restarts[i] + RestartWindow
            /\ restarts[i] \in Nat /\ restarts[a] \in Nat /\ restarts[j] \in Nat
        BY <2>1, <3>1, Zenon
      <4>1. a <= j /\ restarts[j] < restarts[a] + RestartWindow
        BY <4>0, BoundsAssumption, SMTT(30)
      <4>2. j - a <= MaxRestarts
        BY <1>1, <4>1 DEF SupervisorInv, RestartLog
      <4> QED
        BY <2>1, <4>1, <4>2, BoundsAssumption
    <3>3. a \in Int /\ a + MaxRestarts \in Int /\ ~(a > a + MaxRestarts)
          /\ (a + MaxRestarts) - a + 1 = MaxRestarts + 1
      BY <2>1, BoundsAssumption
    <3>4. IsFiniteSet(a..(a + MaxRestarts)) /\ Cardinality(a..(a + MaxRestarts)) = MaxRestarts + 1
      BY <3>3, FS_Interval
    <3> HIDE DEF S
    <3>5. S \in SUBSET (a..(a + MaxRestarts))
      BY <3>2
    <3>6. Cardinality(S) <= Cardinality(a..(a + MaxRestarts))
      BY <3>4, <3>5, FS_Subset, Zenon
    <3> QED
      BY <3>4, <3>6 DEF S
  <2> QED
    BY <2>2, <2>3
<1>2. SupervisorInv => RestartRateBounded
  BY <1>1 DEF RestartRateBounded
<1> QED
  BY <1>2, SupervisorKeepsInv, PTL

\* Only the probe of Shutdown can hit a process that was given a reaped child's pid.
THEOREM OnlyShutdownHitsStrangers == Spec => StrangersLeftAlone
<1>1. SupervisorInv /\ [Next]_vars => [~strangerKilled /\ strangerKilled' => mainPc = "probing"]_vars
  <2> SUFFICES ASSUME SupervisorInv, Next, ~strangerKilled, strangerKilled' PROVE mainPc = "probing"
    OBVIOUS
  <2>1. MonitorKill \/ ProbeAndKill \/ Destroy
    BY Zenon DEF Next, Monitor, Shutdown, ChildReady, ChildBeat, ChildStall, ChildExit,
        Recycle, Tick, MonitorLoop, MonitorProbe, MonitorClock, MonitorHeartbeat, MonitorLimit,
        MonitorSpawn, MonitorWake, ReceiverRun, ReceiverExit, BeginShutdown, JoinReceiver,
        TerminateChild, WaitForChild, JoinMonitor
  <2>2. CASE MonitorKill \/ Destroy
    <3>1. childPid # NoChild /\ procs[childPid] = "stranger"
      BY <2>2, Zenon DEF MonitorKill, Destroy, KillAndReap
    <3> QED
      BY <3>1 DEF SupervisorInv, Custody, Unreaped, Live
  <2> QED
    BY <2>1, <2>2, Zenon DEF ProbeAndKill
<1> QED
  BY <1>1, SupervisorKeepsInv, PTL DEF Spec, StrangersLeftAlone
=============================================================================
