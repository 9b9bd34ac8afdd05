--------------------------- MODULE CollectorProofs --------------------------
(***************************************************************************)
(* Whatever is killed and restarted, and however often: a gateway child    *)
(* feeds the collector that spawned it, and the threads that dispatch run  *)
(* only between the freeze and the close.  For every number of runs and    *)
(* every set of channels.                                                  *)
(***************************************************************************)
EXTENDS Collector, TLAPS

\* The steps of main before it starts a thread, those at which a manager has a
\* receiver, those at which its monitor may run, and those at which a child of this run may be alive.
Building == {"down", "crypto", "freeze", "rithmic", "shm", "spawn", "threads"}
Manned == {"parsers", "network", "pub", "running", "stopReceiver"}
Monitored == Manned \union {"stopChild", "reap", "stopMonitor"}
Ending == {"flush", "stopPub", "destroy"}
Spawned == {"threads", "crypto.stop"} \union Monitored \union Ending

\* A child whose parent is alive is a child of the current run, and the name
\* is that of this run's segment; one whose parent has died, but not early, is
\* past the installation of its handlers.
Lineage ==
  /\ home <= gen
  /\ main # "down" => gen > 0
  /\ main \in {"spawn", "threads"} => named = gen
  /\ "monitor" \in threads => main \in Monitored /\ named = gen
  /\ parent = "alive" /\ pc # "exited" => home = gen /\ named = gen /\ main \in Spawned
  /\ parent # "alive" => home < gen \/ main = "down"
  /\ pc = "starting" => deathSignal
  /\ Attached => deathSignal /\ attached # 0
  /\ parent = "dead" => pc \in {"handling", "ready", "stopping", "exited"}
  /\ Attached /\ parent # "diedEarly" => attached = home

\* What Start has seen when it is past a login.
LoginOrder ==
  /\ ~rcvdAgreements => unaccepted = 0
  /\ mdStatus = "complete" => loggedIn
  /\ pc \in {"mdWait", "subscribed", "handling", "ready"} => rcvdAgreements /\ unaccepted = 0
  /\ pc \in {"subscribed", "handling", "ready"} => loggedIn
  /\ pc = "ready" => attached \in childReady

\* Which threads there can be at each step of main.
ThreadOrder ==
  /\ main \in Building => threads = {}
  /\ main \in Manned /\ "monitor" \in threads => "receiver" \in threads
  /\ main \in {"stopChild", "reap", "stopMonitor", "crypto.stop"} \union Ending =>
       "receiver" \notin threads
  /\ main \in Ending => "parsers" \notin threads

CollectorInv == TypeOK /\ Lineage /\ LoginOrder /\ ThreadOrder

-----------------------------------------------------------------------------
\* The first run has not begun: every part of the invariant holds.
LEMMA CollectorInitially == Init => CollectorInv
<1> SUFFICES ASSUME Init PROVE CollectorInv
  OBVIOUS
<1>1. TypeOK
  <2>1. 0 \in 0..MaxRuns
    BY CollectorAssumption
  <2>2. unaccepted \in 0..1
    BY DEF Init, GatewayInit
  <2>3. QED
    BY <2>1, <2>2, Zenon
    DEF Init, GatewayInit, TypeOK, GatewayTypeOK, MainTypeOK, States, Steps, Threads
<1>2. Lineage
  BY DEF Init, GatewayInit, Lineage, Attached
<1>3. LoginOrder
  BY DEF Init, GatewayInit, LoginOrder
<1>4. ThreadOrder
  BY DEF Init, ThreadOrder, Manned, Ending
<1>5. QED
  BY <1>1, <1>2, <1>3, <1>4 DEF CollectorInv

\* No step lets a thread run where it should not.
LEMMA ThreadOrderKept ==
  ThreadOrder /\ [Next]_vars => ThreadOrder'
<1> SUFFICES ASSUME ThreadOrder, [Next]_vars PROVE ThreadOrder'
  OBVIOUS
<1> USE DEF ThreadOrder, Building, Manned, Ending
<1>1. CASE Launch
  BY <1>1 DEF Launch, gatewayVars, loginVars, mainVars, processVars
<1>2. CASE BuildCryptoSubsystem
  BY <1>2 DEF BuildCryptoSubsystem, BuildCryptoChannels, Register, Exit, Goto, gatewayVars,
      loginVars, mainVars, processVars
<1>3. CASE FreezeChannels
  BY <1>3 DEF FreezeChannels, Goto, gatewayVars, loginVars, mainVars, processVars
<1>4. CASE RegisterChannels
  BY <1>4 DEF RegisterChannels, Register, Goto, gatewayVars, loginVars, mainVars, processVars
<1>5. CASE CreateShm
  BY <1>5 DEF CreateShm, Goto, gatewayVars, loginVars, mainVars, processVars
<1>6. CASE SpawnChild
  BY <1>6 DEF SpawnChild, Goto, Spawn, Step, gatewayVars, loginVars, mainVars, processVars
<1>7. CASE StartThreads
  BY <1>7 DEF StartThreads, Starts, Goto, gatewayVars, loginVars, mainVars, processVars
<1>8. CASE RunParsers
  BY <1>8 DEF RunParsers, Starts, Goto, gatewayVars, loginVars, mainVars, processVars
<1>9. CASE RunNetwork
  BY <1>9 DEF RunNetwork, Starts, Goto, gatewayVars, loginVars, mainVars, processVars
<1>10. CASE StartPub
  BY <1>10 DEF StartPub, Starts, Goto, gatewayVars, loginVars, mainVars, processVars
<1>11. CASE WaitForShutdown
  BY <1>11 DEF WaitForShutdown, Goto, gatewayVars, loginVars, mainVars, processVars
<1>12. CASE StopReceiver
  BY <1>12 DEF StopReceiver, Joins, Goto, gatewayVars, loginVars, mainVars, processVars
<1>13. CASE StopChild
  BY <1>13 DEF StopChild, Goto, Own, Terminate, Sigterm, gatewayVars, loginVars, mainVars,
      processVars
<1>14. CASE Reap
  BY <1>14 DEF Reap, Goto, Own, Kill, Quiet, gatewayVars, loginVars, mainVars, processVars
<1>15. CASE StopMonitor
  BY <1>15 DEF StopMonitor, Joins, Goto, gatewayVars, loginVars, mainVars, processVars
<1>16. CASE ShutdownCrypto
  BY <1>16 DEF ShutdownCrypto, Joins, Goto, gatewayVars, loginVars, mainVars, processVars
<1>17. CASE FlushAndClose
  BY <1>17 DEF FlushAndClose, Goto, gatewayVars, loginVars, mainVars, processVars
<1>18. CASE StopPub
  BY <1>18 DEF StopPub, Joins, Goto, gatewayVars, loginVars, mainVars, processVars
<1>19. CASE Destroy
  BY <1>19 DEF Destroy, Own, Exit, gatewayVars, loginVars, mainVars, processVars
<1>20. CASE MonitorKill
  BY <1>20 DEF MonitorKill, Own, Kill, Quiet, gatewayVars, loginVars, mainVars, processVars
<1>21. CASE MonitorSpawn
  BY <1>21 DEF MonitorSpawn, Spawn, Step, gatewayVars, loginVars, mainVars, processVars
<1>22. CASE Crash
  BY <1>22 DEF Crash, ParentDies, Sigterm, Exit, gatewayVars, loginVars, mainVars, processVars
<1>23. CASE Gateway(Prctl)
  BY <1>23 DEF Gateway, Prctl, Step, gatewayVars, loginVars, mainVars, processVars
<1>24. CASE Gateway(OpenShm)
  BY <1>24 DEF Gateway, OpenShm, Step, gatewayVars, loginVars, mainVars, processVars
<1>25. CASE Gateway(CreateEngine)
  BY <1>25 DEF Gateway, CreateEngine, Step, Quiet, gatewayVars, loginVars, mainVars, processVars
<1>26. CASE Gateway(LoginRepository)
  BY <1>26 DEF Gateway, LoginRepository, Step, Quiet, gatewayVars, loginVars, mainVars,
      processVars
<1>27. CASE Gateway(AgreementsAccepted)
  BY <1>27 DEF Gateway, AgreementsAccepted, Step, Quiet, gatewayVars, loginVars, mainVars,
      processVars
<1>28. CASE Gateway(LoginMarketData)
  BY <1>28 DEF Gateway, LoginMarketData, Step, Quiet, gatewayVars, loginVars, mainVars,
      processVars
<1>29. CASE Gateway(InstallHandlers)
  BY <1>29 DEF Gateway, InstallHandlers, Step, Quiet, gatewayVars, loginVars, mainVars,
      processVars
<1>30. CASE Gateway(Ready)
  BY <1>30 DEF Gateway, Ready, Step, gatewayVars, loginVars, mainVars, processVars
<1>31. CASE Gateway(Leave)
  BY <1>31 DEF Gateway, Leave, Step, gatewayVars, loginVars, mainVars, processVars
<1>32. CASE Gateway(Stop)
  BY <1>32 DEF Gateway, Stop, Step, Quiet, gatewayVars, loginVars, mainVars, processVars
<1>33. CASE Gateway(RepositoryAlert)
  BY <1>33 DEF Gateway, RepositoryAlert, Running, Elsewhere, gatewayVars, loginVars, mainVars,
      processVars
<1>34. CASE Gateway(MarketDataAlert)
  BY <1>34 DEF Gateway, MarketDataAlert, Running, Elsewhere, gatewayVars, loginVars, mainVars,
      processVars
<1>35. ASSUME NEW n \in 0..1, Gateway(AgreementList(n)) PROVE ThreadOrder'
  BY <1>35 DEF Gateway, AgreementList, Elsewhere, gatewayVars, loginVars, mainVars, processVars
<1>36. CASE Gateway(Poll)
  BY <1>36 DEF Gateway, Poll, gatewayVars, loginVars, mainVars, processVars
<1>37. CASE UNCHANGED vars
  BY <1>37 DEF vars, gatewayVars, loginVars, mainVars, processVars
<1>38. QED
  BY <1>1, <1>2, <1>3, <1>4, <1>5, <1>6, <1>7, <1>8, <1>9, <1>10, <1>11, <1>12, <1>13, <1>14,
      <1>15, <1>16, <1>17, <1>18, <1>19, <1>20, <1>21, <1>22, <1>23, <1>24, <1>25, <1>26, <1>27,
      <1>28, <1>29, <1>30, <1>31, <1>32, <1>33, <1>34, <1>35, <1>36, <1>37, Zenon DEF Next,
      Main, Process, Alerts, Gateway

\* No step, of the child or of the API, puts Start ahead of its logins.
LEMMA LoginOrderKept ==
  TypeOK /\ Lineage /\ LoginOrder /\ [Next]_vars => LoginOrder'
<1> SUFFICES ASSUME TypeOK /\ Lineage /\ LoginOrder, [Next]_vars PROVE LoginOrder'
  OBVIOUS
<1> USE DEF TypeOK, MainTypeOK, GatewayTypeOK, Lineage, Attached, LoginOrder
<1>1. CASE Launch
  BY <1>1 DEF Launch, gatewayVars, loginVars, mainVars, processVars
<1>2. CASE BuildCryptoSubsystem
  BY <1>2 DEF BuildCryptoSubsystem, BuildCryptoChannels, Register, Exit, Goto, gatewayVars,
      loginVars, mainVars, processVars
<1>3. CASE FreezeChannels
  BY <1>3 DEF FreezeChannels, Goto, gatewayVars, loginVars, mainVars, processVars
<1>4. CASE RegisterChannels
  BY <1>4 DEF RegisterChannels, Register, Goto, gatewayVars, loginVars, mainVars, processVars
<1>5. CASE CreateShm
  BY <1>5 DEF CreateShm, Goto, gatewayVars, loginVars, mainVars, processVars
<1>6. CASE SpawnChild
  BY <1>6 DEF SpawnChild, Goto, Spawn, Step, gatewayVars, loginVars, mainVars, processVars
<1>7. CASE StartThreads
  BY <1>7 DEF StartThreads, Starts, Goto, gatewayVars, loginVars, mainVars, processVars
<1>8. CASE RunParsers
  BY <1>8 DEF RunParsers, Starts, Goto, gatewayVars, loginVars, mainVars, processVars
<1>9. CASE RunNetwork
  BY <1>9 DEF RunNetwork, Starts, Goto, gatewayVars, loginVars, mainVars, processVars
<1>10. CASE StartPub
  BY <1>10 DEF StartPub, Starts, Goto, gatewayVars, loginVars, mainVars, processVars
<1>11. CASE WaitForShutdown
  BY <1>11 DEF WaitForShutdown, Goto, gatewayVars, loginVars, mainVars, processVars
<1>12. CASE StopReceiver
  BY <1>12 DEF StopReceiver, Joins, Goto, gatewayVars, loginVars, mainVars, processVars
<1>13. CASE StopChild
  BY <1>13 DEF StopChild, Goto, Own, Terminate, Sigterm, gatewayVars, loginVars, mainVars,
      processVars
<1>14. CASE Reap
  BY <1>14 DEF Reap, Goto, Own, Kill, Quiet, gatewayVars, loginVars, mainVars, processVars
<1>15. CASE StopMonitor
  BY <1>15 DEF StopMonitor, Joins, Goto, gatewayVars, loginVars, mainVars, processVars
<1>16. CASE ShutdownCrypto
  BY <1>16 DEF ShutdownCrypto, Joins, Goto, gatewayVars, loginVars, mainVars, processVars
<1>17. CASE FlushAndClose
  BY <1>17 DEF FlushAndClose, Goto, gatewayVars, loginVars, mainVars, processVars
<1>18. CASE StopPub
  BY <1>18 DEF StopPub, Joins, Goto, gatewayVars, loginVars, mainVars, processVars
<1>19. CASE Destroy
  BY <1>19 DEF Destroy, Own, Exit, gatewayVars, loginVars, mainVars, processVars
<1>20. CASE MonitorKill
  BY <1>20 DEF MonitorKill, Own, Kill, Quiet, gatewayVars, loginVars, mainVars, processVars
<1>21. CASE MonitorSpawn
  BY <1>21 DEF MonitorSpawn, Spawn, Step, gatewayVars, loginVars, mainVars, processVars
<1>22. CASE Crash
  BY <1>22 DEF Crash, ParentDies, Sigterm, Exit, gatewayVars, loginVars, mainVars, processVars
<1>23. CASE Gateway(Prctl)
  BY <1>23 DEF Gateway, Prctl, Step, gatewayVars, loginVars, mainVars, processVars
<1>24. CASE Gateway(OpenShm)
  BY <1>24 DEF Gateway, OpenShm, Step, gatewayVars, loginVars, mainVars, processVars
<1>25. CASE Gateway(CreateEngine)
  BY <1>25 DEF Gateway, CreateEngine, Step, Quiet, gatewayVars, loginVars, mainVars, processVars
<1>26. CASE Gateway(LoginRepository)
  BY <1>26 DEF Gateway, LoginRepository, Step, Quiet, gatewayVars, loginVars, mainVars,
      processVars
<1>27. CASE Gateway(AgreementsAccepted)
  BY <1>27 DEF Gateway, AgreementsAccepted, Step, Quiet, gatewayVars, loginVars, mainVars,
      processVars
<1>28. CASE Gateway(LoginMarketData)
  BY <1>28 DEF Gateway, LoginMarketData, Step, Quiet, gatewayVars, loginVars, mainVars,
      processVars
<1>29. CASE Gateway(InstallHandlers)
  BY <1>29 DEF Gateway, InstallHandlers, Step, Quiet, gatewayVars, loginVars, mainVars,
      processVars
<1>30. CASE Gateway(Ready)
  BY <1>30 DEF Gateway, Ready, Step, gatewayVars, loginVars, mainVars, processVars
<1>31. CASE Gateway(Leave)
  BY <1>31 DEF Gateway, Leave, Step, gatewayVars, loginVars, mainVars, processVars
<1>32. CASE Gateway(Stop)
  BY <1>32 DEF Gateway, Stop, Step, Quiet, gatewayVars, loginVars, mainVars, processVars
<1>33. CASE Gateway(RepositoryAlert)
  BY <1>33 DEF Gateway, RepositoryAlert, Running, Elsewhere, gatewayVars, loginVars, mainVars,
      processVars
<1>34. CASE Gateway(MarketDataAlert)
  BY <1>34 DEF Gateway, MarketDataAlert, Running, Elsewhere, gatewayVars, loginVars, mainVars,
      processVars
<1>35. ASSUME NEW n \in 0..1, Gateway(AgreementList(n)) PROVE LoginOrder'
  BY <1>35 DEF Gateway, AgreementList, Elsewhere, gatewayVars, loginVars, mainVars, processVars
<1>36. CASE Gateway(Poll)
  BY <1>36 DEF Gateway, Poll, gatewayVars, loginVars, mainVars, processVars
<1>37. CASE UNCHANGED vars
  BY <1>37 DEF vars, gatewayVars, loginVars, mainVars, processVars
<1>38. QED
  BY <1>1, <1>2, <1>3, <1>4, <1>5, <1>6, <1>7, <1>8, <1>9, <1>10, <1>11, <1>12, <1>13, <1>14,
      <1>15, <1>16, <1>17, <1>18, <1>19, <1>20, <1>21, <1>22, <1>23, <1>24, <1>25, <1>26, <1>27,
      <1>28, <1>29, <1>30, <1>31, <1>32, <1>33, <1>34, <1>35, <1>36, <1>37, Zenon DEF Next,
      Main, Process, Alerts, Gateway

\* No step, kill or restart separates a child from its own run's segment.
LEMMA LineageKept ==
  TypeOK /\ Lineage /\ ThreadOrder /\ [Next]_vars => Lineage'
<1> SUFFICES ASSUME TypeOK /\ Lineage /\ ThreadOrder, [Next]_vars PROVE Lineage'
  OBVIOUS
<1> USE DEF TypeOK, MainTypeOK, GatewayTypeOK, Steps, States, Lineage, Attached, ThreadOrder, Building, Manned, Monitored, Ending, Spawned
<1>1. CASE Launch
  BY <1>1 DEF Launch, gatewayVars, loginVars, mainVars, processVars
<1>2. CASE BuildCryptoSubsystem
  BY <1>2 DEF BuildCryptoSubsystem, BuildCryptoChannels, Register, Exit, Goto, gatewayVars,
      loginVars, mainVars, processVars
<1>3. CASE FreezeChannels
  BY <1>3 DEF FreezeChannels, Goto, gatewayVars, loginVars, mainVars, processVars
<1>4. CASE RegisterChannels
  BY <1>4 DEF RegisterChannels, Register, Goto, gatewayVars, loginVars, mainVars, processVars
<1>5. CASE CreateShm
  BY <1>5 DEF CreateShm, Goto, gatewayVars, loginVars, mainVars, processVars
<1>6. CASE SpawnChild
  BY <1>6 DEF SpawnChild, Goto, Spawn, Step, gatewayVars, loginVars, mainVars, processVars
<1>7. CASE StartThreads
  BY <1>7 DEF StartThreads, Starts, Goto, gatewayVars, loginVars, mainVars, processVars
<1>8. CASE RunParsers
  BY <1>8 DEF RunParsers, Starts, Goto, gatewayVars, loginVars, mainVars, processVars
<1>9. CASE RunNetwork
  BY <1>9 DEF RunNetwork, Starts, Goto, gatewayVars, loginVars, mainVars, processVars
<1>10. CASE StartPub
  BY <1>10 DEF StartPub, Starts, Goto, gatewayVars, loginVars, mainVars, processVars
<1>11. CASE WaitForShutdown
  BY <1>11 DEF WaitForShutdown, Goto, gatewayVars, loginVars, mainVars, processVars
<1>12. CASE StopReceiver
  BY <1>12 DEF StopReceiver, Joins, Goto, gatewayVars, loginVars, mainVars, processVars
<1>13. CASE StopChild
  BY <1>13 DEF StopChild, Goto, Own, Terminate, Sigterm, gatewayVars, loginVars, mainVars,
      processVars
<1>14. CASE Reap
  BY <1>14 DEF Reap, Goto, Own, Kill, Quiet, gatewayVars, loginVars, mainVars, processVars
<1>15. CASE StopMonitor
  BY <1>15 DEF StopMonitor, Joins, Goto, gatewayVars, loginVars, mainVars, processVars
<1>16. CASE ShutdownCrypto
  BY <1>16 DEF ShutdownCrypto, Joins, Goto, gatewayVars, loginVars, mainVars, processVars
<1>17. CASE FlushAndClose
  BY <1>17 DEF FlushAndClose, Goto, gatewayVars, loginVars, mainVars, processVars
<1>18. CASE StopPub
  BY <1>18 DEF StopPub, Joins, Goto, gatewayVars, loginVars, mainVars, processVars
<1>19. CASE Destroy
  BY <1>19 DEF Destroy, Own, Exit, gatewayVars, loginVars, mainVars, processVars
<1>20. CASE MonitorKill
  BY <1>20 DEF MonitorKill, Own, Kill, Quiet, gatewayVars, loginVars, mainVars, processVars
<1>21. CASE MonitorSpawn
  BY <1>21 DEF MonitorSpawn, Spawn, Step, gatewayVars, loginVars, mainVars, processVars
<1>22. CASE Crash
  <2>1. CASE home = gen
    <3>1. CASE pc \in {"handling", "ready", "stopping"}
      BY <1>22, <2>1, <3>1 DEF Crash, ParentDies, Sigterm, Exit, gatewayVars, loginVars, mainVars, processVars
    <3>2. CASE pc \in {"exited", "spawned"}
      BY <1>22, <2>1, <3>2 DEF Crash, ParentDies, Sigterm, Exit, gatewayVars, loginVars, mainVars, processVars
    <3>3. CASE pc \notin {"handling", "ready", "stopping", "exited", "spawned"}
      BY <1>22, <2>1, <3>3 DEF Crash, ParentDies, Sigterm, Exit, gatewayVars, loginVars, mainVars, processVars
    <3>4. QED
      BY <3>1, <3>2, <3>3
  <2>2. CASE home # gen
    BY <1>22, <2>2 DEF Crash, Exit, gatewayVars, loginVars, mainVars, processVars
  <2>3. QED
    BY <2>1, <2>2
<1>23. CASE Gateway(Prctl)
  BY <1>23 DEF Gateway, Prctl, Step, gatewayVars, loginVars, mainVars, processVars
<1>24. CASE Gateway(OpenShm)
  BY <1>24 DEF Gateway, OpenShm, Step, gatewayVars, loginVars, mainVars, processVars
<1>25. CASE Gateway(CreateEngine)
  BY <1>25 DEF Gateway, CreateEngine, Step, Quiet, gatewayVars, loginVars, mainVars, processVars
<1>26. CASE Gateway(LoginRepository)
  BY <1>26 DEF Gateway, LoginRepository, Step, Quiet, gatewayVars, loginVars, mainVars,
      processVars
<1>27. CASE Gateway(AgreementsAccepted)
  BY <1>27 DEF Gateway, AgreementsAccepted, Step, Quiet, gatewayVars, loginVars, mainVars,
      processVars
<1>28. CASE Gateway(LoginMarketData)
  BY <1>28 DEF Gateway, LoginMarketData, Step, Quiet, gatewayVars, loginVars, mainVars,
      processVars
<1>29. CASE Gateway(InstallHandlers)
  BY <1>29 DEF Gateway, InstallHandlers, Step, Quiet, gatewayVars, loginVars, mainVars,
      processVars
<1>30. CASE Gateway(Ready)
  BY <1>30 DEF Gateway, Ready, Step, gatewayVars, loginVars, mainVars, processVars
<1>31. CASE Gateway(Leave)
  BY <1>31 DEF Gateway, Leave, Step, gatewayVars, loginVars, mainVars, processVars
<1>32. CASE Gateway(Stop)
  BY <1>32 DEF Gateway, Stop, Step, Quiet, gatewayVars, loginVars, mainVars, processVars
<1>33. CASE Gateway(RepositoryAlert)
  BY <1>33 DEF Gateway, RepositoryAlert, Running, Elsewhere, gatewayVars, loginVars, mainVars,
      processVars
<1>34. CASE Gateway(MarketDataAlert)
  BY <1>34 DEF Gateway, MarketDataAlert, Running, Elsewhere, gatewayVars, loginVars, mainVars,
      processVars
<1>35. ASSUME NEW n \in 0..1, Gateway(AgreementList(n)) PROVE Lineage'
  BY <1>35 DEF Gateway, AgreementList, Elsewhere, gatewayVars, loginVars, mainVars, processVars
<1>36. CASE Gateway(Poll)
  BY <1>36 DEF Gateway, Poll, gatewayVars, loginVars, mainVars, processVars
<1>37. CASE UNCHANGED vars
  BY <1>37 DEF vars, gatewayVars, loginVars, mainVars, processVars
<1>38. QED
  BY <1>1, <1>2, <1>3, <1>4, <1>5, <1>6, <1>7, <1>8, <1>9, <1>10, <1>11, <1>12, <1>13, <1>14,
      <1>15, <1>16, <1>17, <1>18, <1>19, <1>20, <1>21, <1>22, <1>23, <1>24, <1>25, <1>26, <1>27,
      <1>28, <1>29, <1>30, <1>31, <1>32, <1>33, <1>34, <1>35, <1>36, <1>37, Zenon DEF Next,
      Main, Process, Alerts, Gateway

\* Every step keeps the types of the collector's own state.
LEMMA MainTypeKept ==
  MainTypeOK /\ [Next]_vars => MainTypeOK'
<1> SUFFICES ASSUME MainTypeOK, [Next]_vars PROVE MainTypeOK'
  OBVIOUS
<1> USE CollectorAssumption DEF MainTypeOK, Steps, Threads
<1>1. CASE Launch
  BY <1>1 DEF Launch, gatewayVars, loginVars, mainVars, processVars
<1>2. CASE BuildCryptoSubsystem
  BY <1>2, Zenon DEF BuildCryptoSubsystem, BuildCryptoChannels, Register, Exit, Goto, gatewayVars,
      loginVars, mainVars, processVars
<1>3. CASE FreezeChannels
  BY <1>3 DEF FreezeChannels, Goto, gatewayVars, loginVars, mainVars, processVars
<1>4. CASE RegisterChannels
  BY <1>4 DEF RegisterChannels, Register, Goto, gatewayVars, loginVars, mainVars, processVars
<1>5. CASE CreateShm
  BY <1>5 DEF CreateShm, Goto, gatewayVars, loginVars, mainVars, processVars
<1>6. CASE SpawnChild
  BY <1>6 DEF SpawnChild, Goto, Spawn, Step, gatewayVars, loginVars, mainVars, processVars
<1>7. CASE StartThreads
  BY <1>7 DEF StartThreads, Starts, Goto, gatewayVars, loginVars, mainVars, processVars
<1>8. CASE RunParsers
  BY <1>8 DEF RunParsers, Starts, Goto, gatewayVars, loginVars, mainVars, processVars
<1>9. CASE RunNetwork
  BY <1>9 DEF RunNetwork, Starts, Goto, gatewayVars, loginVars, mainVars, processVars
<1>10. CASE StartPub
  BY <1>10 DEF StartPub, Starts, Goto, gatewayVars, loginVars, mainVars, processVars
<1>11. CASE WaitForShutdown
  BY <1>11 DEF WaitForShutdown, Goto, gatewayVars, loginVars, mainVars, processVars
<1>12. CASE StopReceiver
  BY <1>12, Zenon DEF StopReceiver, Joins, Goto, gatewayVars, loginVars, mainVars, processVars
<1>13. CASE StopChild
  BY <1>13 DEF StopChild, Goto, Own, Terminate, Sigterm, gatewayVars, loginVars, mainVars,
      processVars
<1>14. CASE Reap
  BY <1>14 DEF Reap, Goto, Own, Kill, Quiet, gatewayVars, loginVars, mainVars, processVars
<1>15. CASE StopMonitor
  BY <1>15 DEF StopMonitor, Joins, Goto, gatewayVars, loginVars, mainVars, processVars
<1>16. CASE ShutdownCrypto
  BY <1>16 DEF ShutdownCrypto, Joins, Goto, gatewayVars, loginVars, mainVars, processVars
<1>17. CASE FlushAndClose
  BY <1>17 DEF FlushAndClose, Goto, gatewayVars, loginVars, mainVars, processVars
<1>18. CASE StopPub
  BY <1>18 DEF StopPub, Joins, Goto, gatewayVars, loginVars, mainVars, processVars
<1>19. CASE Destroy
  BY <1>19, Zenon DEF Destroy, Own, Exit, gatewayVars, loginVars, mainVars, processVars
<1>20. CASE MonitorKill
  BY <1>20 DEF MonitorKill, Own, Kill, Quiet, gatewayVars, loginVars, mainVars, processVars
<1>21. CASE MonitorSpawn
  BY <1>21 DEF MonitorSpawn, Spawn, Step, gatewayVars, loginVars, mainVars, processVars
<1>22. CASE Crash
  BY <1>22, Zenon DEF Crash, ParentDies, Sigterm, Exit, gatewayVars, loginVars, mainVars, processVars
<1>23. CASE Gateway(Prctl)
  BY <1>23 DEF Gateway, Prctl, Step, gatewayVars, loginVars, mainVars, processVars
<1>24. CASE Gateway(OpenShm)
  BY <1>24 DEF Gateway, OpenShm, Step, gatewayVars, loginVars, mainVars, processVars
<1>25. CASE Gateway(CreateEngine)
  BY <1>25 DEF Gateway, CreateEngine, Step, Quiet, gatewayVars, loginVars, mainVars, processVars
<1>26. CASE Gateway(LoginRepository)
  BY <1>26 DEF Gateway, LoginRepository, Step, Quiet, gatewayVars, loginVars, mainVars,
      processVars
<1>27. CASE Gateway(AgreementsAccepted)
  BY <1>27 DEF Gateway, AgreementsAccepted, Step, Quiet, gatewayVars, loginVars, mainVars,
      processVars
<1>28. CASE Gateway(LoginMarketData)
  BY <1>28 DEF Gateway, LoginMarketData, Step, Quiet, gatewayVars, loginVars, mainVars,
      processVars
<1>29. CASE Gateway(InstallHandlers)
  BY <1>29 DEF Gateway, InstallHandlers, Step, Quiet, gatewayVars, loginVars, mainVars,
      processVars
<1>30. CASE Gateway(Ready)
  BY <1>30 DEF Gateway, Ready, Step, gatewayVars, loginVars, mainVars, processVars
<1>31. CASE Gateway(Leave)
  BY <1>31 DEF Gateway, Leave, Step, gatewayVars, loginVars, mainVars, processVars
<1>32. CASE Gateway(Stop)
  BY <1>32 DEF Gateway, Stop, Step, Quiet, gatewayVars, loginVars, mainVars, processVars
<1>33. CASE Gateway(RepositoryAlert)
  BY <1>33 DEF Gateway, RepositoryAlert, Running, Elsewhere, gatewayVars, loginVars, mainVars,
      processVars
<1>34. CASE Gateway(MarketDataAlert)
  BY <1>34 DEF Gateway, MarketDataAlert, Running, Elsewhere, gatewayVars, loginVars, mainVars,
      processVars
<1>35. ASSUME NEW n \in 0..1, Gateway(AgreementList(n)) PROVE MainTypeOK'
  BY <1>35 DEF Gateway, AgreementList, Elsewhere, gatewayVars, loginVars, mainVars, processVars
<1>36. CASE Gateway(Poll)
  BY <1>36 DEF Gateway, Poll, gatewayVars, loginVars, mainVars, processVars
<1>37. CASE UNCHANGED vars
  BY <1>37 DEF vars, gatewayVars, loginVars, mainVars, processVars
<1>38. QED
  BY <1>1, <1>2, <1>3, <1>4, <1>5, <1>6, <1>7, <1>8, <1>9, <1>10, <1>11, <1>12, <1>13, <1>14,
      <1>15, <1>16, <1>17, <1>18, <1>19, <1>20, <1>21, <1>22, <1>23, <1>24, <1>25, <1>26, <1>27,
      <1>28, <1>29, <1>30, <1>31, <1>32, <1>33, <1>34, <1>35, <1>36, <1>37, Zenon DEF Next,
      Main, Process, Alerts, Gateway

\* A spawned child starts with the types it should have.
LEMMA SpawnTyped ==
  ASSUME TypeOK, Spawn(gen)
  PROVE  GatewayTypeOK(MaxRuns)'
<1>1. home' \in 0..MaxRuns /\ attached' \in 0..MaxRuns /\ named' \in 0..MaxRuns
  BY CollectorAssumption DEF TypeOK, MainTypeOK, GatewayTypeOK, Spawn
<1>2. unaccepted' \in 0..1 /\ childReady' \subseteq 1..MaxRuns
  BY DEF TypeOK, GatewayTypeOK, Spawn
<1>3. QED
  BY <1>1, <1>2, Zenon DEF Spawn, Step, States, GatewayTypeOK

\* Every step keeps the types of the child's state.
LEMMA GatewayTypeKept ==
  TypeOK /\ Lineage /\ LoginOrder /\ [Next]_vars => GatewayTypeOK(MaxRuns)'
<1> SUFFICES ASSUME TypeOK /\ Lineage /\ LoginOrder, [Next]_vars PROVE GatewayTypeOK(MaxRuns)'
  OBVIOUS
<1>0. ASSUME UNCHANGED gatewayVars PROVE GatewayTypeOK(MaxRuns)'
  BY <1>0 DEF TypeOK, GatewayTypeOK, gatewayVars, loginVars
<1>1. CASE Launch
  BY <1>0, <1>1 DEF Launch
<1>2. CASE BuildCryptoSubsystem
  BY <1>0, <1>2 DEF BuildCryptoSubsystem
<1>3. CASE FreezeChannels
  BY <1>0, <1>3 DEF FreezeChannels
<1>4. CASE RegisterChannels
  BY <1>0, <1>4 DEF RegisterChannels
<1>7. CASE StartThreads
  BY <1>0, <1>7 DEF StartThreads, Starts
<1>8. CASE RunParsers
  BY <1>0, <1>8 DEF RunParsers, Starts
<1>9. CASE RunNetwork
  BY <1>0, <1>9 DEF RunNetwork, Starts
<1>10. CASE StartPub
  BY <1>0, <1>10 DEF StartPub, Starts
<1>11. CASE WaitForShutdown
  BY <1>0, <1>11 DEF WaitForShutdown
<1>12. CASE StopReceiver
  BY <1>0, <1>12 DEF StopReceiver, Joins
<1>15. CASE StopMonitor
  BY <1>0, <1>15 DEF StopMonitor, Joins
<1>16. CASE ShutdownCrypto
  BY <1>0, <1>16 DEF ShutdownCrypto, Joins
<1>17. CASE FlushAndClose
  BY <1>0, <1>17 DEF FlushAndClose
<1>18. CASE StopPub
  BY <1>0, <1>18 DEF StopPub, Joins
<1> USE CollectorAssumption DEF TypeOK, MainTypeOK, GatewayTypeOK, States, Lineage, LoginOrder, Attached
<1>5. CASE CreateShm
  BY <1>5 DEF CreateShm, Goto, gatewayVars, loginVars, mainVars, processVars
<1>6. CASE SpawnChild
  <2>1. CASE Spawn(gen)
    BY <2>1, SpawnTyped
  <2>2. CASE UNCHANGED gatewayVars
    BY <2>2 DEF gatewayVars, loginVars
  <2>3. CASE named' = 0 /\ UNCHANGED <<pc, loginVars, exitFlag, childReady, home, attached, parent, deathSignal>>
    BY <2>3 DEF loginVars
  <2>4. QED
    BY <1>6, <2>1, <2>2, <2>3 DEF SpawnChild
<1>13. CASE StopChild
  <2>1. CASE Terminate
    <3>1. pc' \in States /\ exitFlag' \in BOOLEAN
      BY <2>1, Zenon DEF Terminate, Sigterm
    <3>2. QED
      BY <2>1, <3>1, Zenon DEF Terminate, loginVars
  <2>2. CASE UNCHANGED gatewayVars
    BY <1>0, <2>2, Zenon
  <2>3. QED
    BY <1>13, <2>1, <2>2, Zenon DEF StopChild
<1>14. CASE Reap
  <2>1. CASE Kill
    BY <2>1, Zenon DEF Kill, Quiet, loginVars
  <2>2. CASE UNCHANGED gatewayVars
    BY <1>0, <2>2, Zenon
  <2>3. QED
    BY <1>14, <2>1, <2>2, Zenon DEF Reap
<1>19. CASE Destroy
  BY <1>19 DEF Destroy, Own, Exit, gatewayVars, loginVars, mainVars, processVars
<1>20. CASE MonitorKill
  BY <1>20 DEF MonitorKill, Own, Kill, Quiet, gatewayVars, loginVars, mainVars, processVars
<1>21. CASE MonitorSpawn
  BY <1>21, SpawnTyped DEF MonitorSpawn
<1>22. CASE Crash
  <2>1. CASE home = gen
    <3>1. ParentDies
      BY <1>22, <2>1 DEF Crash
    <3>2. pc' \in States /\ exitFlag' \in BOOLEAN
      BY <3>1, Zenon DEF ParentDies, Sigterm
    <3>3. parent' \in {"dead", "diedEarly"}
      BY <3>1 DEF ParentDies
    <3>4. QED
      BY <3>1, <3>2, <3>3, Zenon DEF ParentDies, loginVars
  <2>2. CASE home # gen
    <3>1. UNCHANGED gatewayVars
      BY <1>22, <2>2, Zenon DEF Crash
    <3>2. QED
      BY <1>0, <3>1, Zenon
  <2>3. QED
    BY <2>1, <2>2
<1>23. CASE Gateway(Prctl)
  BY <1>23 DEF Gateway, Prctl, Step, gatewayVars, loginVars, mainVars, processVars
<1>24. CASE Gateway(OpenShm)
  BY <1>24 DEF Gateway, OpenShm, Step, gatewayVars, loginVars, mainVars, processVars
<1>25. CASE Gateway(CreateEngine)
  BY <1>25 DEF Gateway, CreateEngine, Step, Quiet, gatewayVars, loginVars, mainVars, processVars
<1>26. CASE Gateway(LoginRepository)
  BY <1>26 DEF Gateway, LoginRepository, Step, Quiet, gatewayVars, loginVars, mainVars,
      processVars
<1>27. CASE Gateway(AgreementsAccepted)
  BY <1>27 DEF Gateway, AgreementsAccepted, Step, Quiet, gatewayVars, loginVars, mainVars,
      processVars
<1>28. CASE Gateway(LoginMarketData)
  BY <1>28 DEF Gateway, LoginMarketData, Step, Quiet, gatewayVars, loginVars, mainVars,
      processVars
<1>29. CASE Gateway(InstallHandlers)
  BY <1>29 DEF Gateway, InstallHandlers, Step, Quiet, gatewayVars, loginVars, mainVars,
      processVars
<1>30. CASE Gateway(Ready)
  BY <1>30 DEF Gateway, Ready, Step, gatewayVars, loginVars, mainVars, processVars
<1>31. CASE Gateway(Leave)
  BY <1>31 DEF Gateway, Leave, Step, gatewayVars, loginVars, mainVars, processVars
<1>32. CASE Gateway(Stop)
  BY <1>32 DEF Gateway, Stop, Step, Quiet, gatewayVars, loginVars, mainVars, processVars
<1>33. CASE Gateway(RepositoryAlert)
  BY <1>33 DEF Gateway, RepositoryAlert, Running, Elsewhere, gatewayVars, loginVars, mainVars,
      processVars
<1>34. CASE Gateway(MarketDataAlert)
  BY <1>34 DEF Gateway, MarketDataAlert, Running, Elsewhere, gatewayVars, loginVars, mainVars,
      processVars
<1>35. ASSUME NEW n \in 0..1, Gateway(AgreementList(n)) PROVE GatewayTypeOK(MaxRuns)'
  BY <1>35 DEF Gateway, AgreementList, Elsewhere, gatewayVars, loginVars, mainVars, processVars
<1>36. CASE Gateway(Poll)
  BY <1>36 DEF Gateway, Poll, gatewayVars, loginVars, mainVars, processVars
<1>37. CASE UNCHANGED vars
  BY <1>37 DEF vars, gatewayVars, loginVars, mainVars, processVars
<1>38. QED
  BY <1>1, <1>2, <1>3, <1>4, <1>5, <1>6, <1>7, <1>8, <1>9, <1>10, <1>11, <1>12, <1>13, <1>14,
      <1>15, <1>16, <1>17, <1>18, <1>19, <1>20, <1>21, <1>22, <1>23, <1>24, <1>25, <1>26, <1>27,
      <1>28, <1>29, <1>30, <1>31, <1>32, <1>33, <1>34, <1>35, <1>36, <1>37, ZenonT(30) DEF Next,
      Main, Process, Alerts, Gateway

\* No step writes a channel map under a reader, or closes what is in use.
LEMMA StepBracketed ==
  ThreadOrder /\ [Next]_vars => Bracketed
<1> SUFFICES ASSUME ThreadOrder, [Next]_vars PROVE Bracketed
  OBVIOUS
<1> USE DEF ThreadOrder, Bracketed, LookingUp, Routing, Building, Ending
<1>1. CASE Launch
  BY <1>1 DEF Launch, gatewayVars, loginVars, mainVars, processVars
<1>2. CASE BuildCryptoSubsystem
  BY <1>2 DEF BuildCryptoSubsystem, BuildCryptoChannels, Register, Exit, Goto, gatewayVars,
      loginVars, mainVars, processVars
<1>3. CASE FreezeChannels
  BY <1>3 DEF FreezeChannels, Goto, gatewayVars, loginVars, mainVars, processVars
<1>4. CASE RegisterChannels
  BY <1>4 DEF RegisterChannels, Register, Goto, gatewayVars, loginVars, mainVars, processVars
<1>5. CASE CreateShm
  BY <1>5 DEF CreateShm, Goto, gatewayVars, loginVars, mainVars, processVars
<1>6. CASE SpawnChild
  BY <1>6 DEF SpawnChild, Goto, Spawn, Step, gatewayVars, loginVars, mainVars, processVars
<1>7. CASE StartThreads
  BY <1>7 DEF StartThreads, Starts, Goto, gatewayVars, loginVars, mainVars, processVars
<1>8. CASE RunParsers
  BY <1>8 DEF RunParsers, Starts, Goto, gatewayVars, loginVars, mainVars, processVars
<1>9. CASE RunNetwork
  BY <1>9 DEF RunNetwork, Starts, Goto, gatewayVars, loginVars, mainVars, processVars
<1>10. CASE StartPub
  BY <1>10 DEF StartPub, Starts, Goto, gatewayVars, loginVars, mainVars, processVars
<1>11. CASE WaitForShutdown
  BY <1>11 DEF WaitForShutdown, Goto, gatewayVars, loginVars, mainVars, processVars
<1>12. CASE StopReceiver
  BY <1>12 DEF StopReceiver, Joins, Goto, gatewayVars, loginVars, mainVars, processVars
<1>13. CASE StopChild
  BY <1>13 DEF StopChild, Goto, Own, Terminate, Sigterm, gatewayVars, loginVars, mainVars,
      processVars
<1>14. CASE Reap
  BY <1>14 DEF Reap, Goto, Own, Kill, Quiet, gatewayVars, loginVars, mainVars, processVars
<1>15. CASE StopMonitor
  BY <1>15 DEF StopMonitor, Joins, Goto, gatewayVars, loginVars, mainVars, processVars
<1>16. CASE ShutdownCrypto
  BY <1>16 DEF ShutdownCrypto, Joins, Goto, gatewayVars, loginVars, mainVars, processVars
<1>17. CASE FlushAndClose
  BY <1>17, Zenon DEF FlushAndClose, Goto, gatewayVars, loginVars, mainVars, processVars
<1>18. CASE StopPub
  BY <1>18 DEF StopPub, Joins, Goto, gatewayVars, loginVars, mainVars, processVars
<1>19. CASE Destroy
  BY <1>19 DEF Destroy, Own, Exit, gatewayVars, loginVars, mainVars, processVars
<1>20. CASE MonitorKill
  BY <1>20 DEF MonitorKill, Own, Kill, Quiet, gatewayVars, loginVars, mainVars, processVars
<1>21. CASE MonitorSpawn
  BY <1>21 DEF MonitorSpawn, Spawn, Step, gatewayVars, loginVars, mainVars, processVars
<1>22. CASE Crash
  BY <1>22 DEF Crash, ParentDies, Sigterm, Exit, gatewayVars, loginVars, mainVars, processVars
<1>23. CASE Gateway(Prctl)
  BY <1>23 DEF Gateway, Prctl, Step, gatewayVars, loginVars, mainVars, processVars
<1>24. CASE Gateway(OpenShm)
  BY <1>24 DEF Gateway, OpenShm, Step, gatewayVars, loginVars, mainVars, processVars
<1>25. CASE Gateway(CreateEngine)
  BY <1>25 DEF Gateway, CreateEngine, Step, Quiet, gatewayVars, loginVars, mainVars, processVars
<1>26. CASE Gateway(LoginRepository)
  BY <1>26 DEF Gateway, LoginRepository, Step, Quiet, gatewayVars, loginVars, mainVars,
      processVars
<1>27. CASE Gateway(AgreementsAccepted)
  BY <1>27 DEF Gateway, AgreementsAccepted, Step, Quiet, gatewayVars, loginVars, mainVars,
      processVars
<1>28. CASE Gateway(LoginMarketData)
  BY <1>28 DEF Gateway, LoginMarketData, Step, Quiet, gatewayVars, loginVars, mainVars,
      processVars
<1>29. CASE Gateway(InstallHandlers)
  BY <1>29 DEF Gateway, InstallHandlers, Step, Quiet, gatewayVars, loginVars, mainVars,
      processVars
<1>30. CASE Gateway(Ready)
  BY <1>30 DEF Gateway, Ready, Step, gatewayVars, loginVars, mainVars, processVars
<1>31. CASE Gateway(Leave)
  BY <1>31 DEF Gateway, Leave, Step, gatewayVars, loginVars, mainVars, processVars
<1>32. CASE Gateway(Stop)
  BY <1>32 DEF Gateway, Stop, Step, Quiet, gatewayVars, loginVars, mainVars, processVars
<1>33. CASE Gateway(RepositoryAlert)
  BY <1>33 DEF Gateway, RepositoryAlert, Running, Elsewhere, gatewayVars, loginVars, mainVars,
      processVars
<1>34. CASE Gateway(MarketDataAlert)
  BY <1>34 DEF Gateway, MarketDataAlert, Running, Elsewhere, gatewayVars, loginVars, mainVars,
      processVars
<1>35. ASSUME NEW n \in 0..1, Gateway(AgreementList(n)) PROVE Bracketed
  BY <1>35 DEF Gateway, AgreementList, Elsewhere, gatewayVars, loginVars, mainVars, processVars
<1>36. CASE Gateway(Poll)
  BY <1>36 DEF Gateway, Poll, gatewayVars, loginVars, mainVars, processVars
<1>37. CASE UNCHANGED vars
  BY <1>37 DEF vars, gatewayVars, loginVars, mainVars, processVars
<1>38. QED
  BY <1>1, <1>2, <1>3, <1>4, <1>5, <1>6, <1>7, <1>8, <1>9, <1>10, <1>11, <1>12, <1>13, <1>14,
      <1>15, <1>16, <1>17, <1>18, <1>19, <1>20, <1>21, <1>22, <1>23, <1>24, <1>25, <1>26, <1>27,
      <1>28, <1>29, <1>30, <1>31, <1>32, <1>33, <1>34, <1>35, <1>36, <1>37, Zenon DEF Next,
      Main, Process, Alerts, Gateway

-----------------------------------------------------------------------------
\* The invariant holds in every behaviour of the collector.
THEOREM CollectorInvariant == Spec => []CollectorInv
<1>1. CollectorInv /\ [Next]_vars => CollectorInv'
  <2> SUFFICES ASSUME CollectorInv, [Next]_vars PROVE CollectorInv'
    OBVIOUS
  <2>1. TypeOK /\ Lineage /\ LoginOrder /\ ThreadOrder
    BY DEF CollectorInv
  <2>2. ThreadOrder' /\ LoginOrder' /\ Lineage'
    BY <2>1, ThreadOrderKept, LoginOrderKept, LineageKept
  <2>3. TypeOK'
    BY <2>1, MainTypeKept, GatewayTypeKept DEF TypeOK
  <2>4. QED
    BY <2>2, <2>3 DEF CollectorInv
<1>2. QED
  BY CollectorInitially, <1>1, PTL DEF Spec

\* main, ShmSetup, SpawnChild and prctl: however often the collector is killed
\* and restarted, a child has mapped the segment of the run that spawned it,
\* unless that run died before the child's prctl; one that beats is logged in.
THEOREM ChildFeedsItsCollector == Spec => []FeedsItsCollector
<1>1. CollectorInv => FeedsItsCollector
  BY DEF CollectorInv, FeedsItsCollector, Lineage, LoginOrder, BeatsLoggedIn
<1>2. QED
  BY CollectorInvariant, <1>1, PTL

\* main, Register and FlushAndClose: channel maps are written only while no
\* thread looks channels up, and storage and publisher are closed only when
\* every thread that dispatches has been joined.
THEOREM MainBracketsItsThreads == Spec => ThreadsBracketed
<1>1. CollectorInv /\ [Next]_vars => [Bracketed]_vars
  BY StepBracketed DEF CollectorInv
<1>2. QED
  BY CollectorInvariant, <1>1, PTL DEF Spec, ThreadsBracketed

=============================================================================
