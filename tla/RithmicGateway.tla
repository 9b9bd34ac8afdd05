--------------------------- MODULE RithmicGateway ---------------------------
(***************************************************************************)
(* The gateway child process: main, with RithmicEngine's start-up and      *)
(* stop, the alerts of the R|API, SIGTERM and the death of the collector.  *)
(* Collector starts, stops and replaces it.                                *)
(*                                                                         *)
(* A segment of shared memory is known by the run of the collector that    *)
(* created it; 0 is none.  The child opens it by its name, so what it gets *)
(* is the segment that bears the name at that moment.                      *)
(*                                                                         *)
(* The API (external) answers a login with an alert, lists the agreements  *)
(* once, and may break a connection at any time.  The market data          *)
(* callbacks that follow SubscribeAll are in RithmicCallbacks.             *)
(***************************************************************************)
EXTENDS Naturals

VARIABLES
  pc,                          \* where main and RithmicEngine::Start are
  repStatus, mdStatus,         \* g_iRepLoginStatus, g_iMdLoginStatus
  rcvdAgreements, unaccepted,  \* g_bRcvdUnacceptedAgreements, g_iUnacceptedMandatoryAgreements
  exitFlag, childReady,        \* g_bExit; the segments in which child_ready is up
  named,                       \* the segment that shm_open finds under the name
  home, attached,              \* the run that spawned the child; the segment it has mapped
  parent, deathSignal,         \* the collector; PR_SET_PDEATHSIG is armed
  loggedIn                     \* history: the market data login has succeeded

loginVars == <<repStatus, mdStatus, rcvdAgreements, unaccepted, loggedIn>>
gatewayVars == <<pc, loginVars, exitFlag, childReady, named, home, attached, parent, deathSignal>>

GatewayInit ==
  /\ pc = "exited"
  /\ repStatus = "none" /\ mdStatus = "none"
  /\ rcvdAgreements = FALSE /\ unaccepted = 0 /\ loggedIn = FALSE
  /\ exitFlag = FALSE /\ childReady = {}
  /\ named = 0 /\ home = 0 /\ attached = 0
  /\ parent = "alive" /\ deathSignal = FALSE

-----------------------------------------------------------------------------
(* main and RithmicEngine::Start *)

Step(from, to) == pc = from /\ pc' = to

Quiet == UNCHANGED <<loginVars, exitFlag, childReady, named, home, attached, parent, deathSignal>>

\* posix_spawn by run g of the collector: a fresh process, with no signal
\* blocked and the death signal not armed yet.
Spawn(g) ==
  /\ Step("exited", "spawned")
  /\ repStatus' = "none" /\ mdStatus' = "none"
  /\ rcvdAgreements' = FALSE /\ unaccepted' = 0 /\ loggedIn' = FALSE
  /\ exitFlag' = FALSE
  /\ home' = g /\ attached' = 0
  /\ parent' = "alive" /\ deathSignal' = FALSE
  /\ UNCHANGED <<childReady, named>>

\* The first statement of main.
PrctlForgotten ==
  /\ Step("spawned", "starting")
  /\ Quiet
Prctl ==
  /\ Step("spawned", "starting")
  /\ deathSignal' = TRUE
  /\ UNCHANGED <<loginVars, exitFlag, childReady, named, home, attached, parent>>

\* The configuration and the channel map, then the shared memory.  Each may
\* fail; the memory does when the name is gone.
OpenShm ==
  /\ \/ named # 0 /\ Step("starting", "opened") /\ attached' = named
     \/ Step("starting", "exited") /\ UNCHANGED attached
  /\ UNCHANGED <<loginVars, exitFlag, childReady, named, home, parent, deathSignal>>

\* The engine, its callbacks and the login to the repository, or a failure.
CreateEngine ==
  /\ Step("opened", "repWait") \/ Step("opened", "exited")
  /\ Quiet

\* LoginRepository polls the status, asks for the agreements, polls for the
\* answer, refuses to go on with a mandatory one open, and logs out.
LoginRepositoryWaitsForComplete ==
  /\ repStatus = "complete"
  /\ Step("repWait", "agreementsWait") \/ Step("repWait", "exited")
  /\ Quiet
LoginRepository ==
  /\ \/ repStatus = "complete" /\ Step("repWait", "agreementsWait")
     \/ repStatus \in {"complete", "failed"} /\ Step("repWait", "exited")
  /\ Quiet

AgreementsAccepted ==
  /\ rcvdAgreements
  /\ \/ unaccepted = 0 /\ Step("agreementsWait", "mdWait")
     \/ Step("agreementsWait", "exited")
  /\ Quiet

\* LoginMarketData, and SubscribeAll, which ignores a subscription that fails.
LoginMarketDataIgnoresFailure ==
  /\ mdStatus \in {"complete", "failed"}
  /\ Step("mdWait", "subscribed")
  /\ Quiet
LoginMarketData ==
  /\ \/ mdStatus = "complete" /\ Step("mdWait", "subscribed")
     \/ mdStatus = "failed" /\ Step("mdWait", "exited")
  /\ Quiet

\* The handlers are installed and child_ready is raised.
InstallHandlers ==
  /\ Step("subscribed", "handling")
  /\ Quiet

Ready ==
  /\ Step("handling", "ready")
  /\ childReady' = childReady \union {attached}
  /\ UNCHANGED <<loginVars, exitFlag, named, home, attached, parent, deathSignal>>

\* The heartbeat loop ends when a signal has set g_bExit; unsubscribe, log out.
Leave ==
  /\ exitFlag /\ Step("ready", "stopping")
  /\ childReady' = childReady \ {attached}
  /\ UNCHANGED <<loginVars, exitFlag, named, home, attached, parent, deathSignal>>

Stop ==
  /\ Step("stopping", "exited")
  /\ Quiet

\* SIGTERM ends the process until the handler is installed, and sets a flag
\* from then on.
Sigterm ==
  IF pc \in {"handling", "ready", "stopping"}
  THEN exitFlag' = TRUE /\ UNCHANGED pc
  ELSE pc' = "exited" /\ UNCHANGED exitFlag

\* SIGTERM from the collector, and SIGKILL, which leaves child_ready as it is.
Terminate ==
  /\ pc # "exited" /\ Sigterm
  /\ UNCHANGED <<loginVars, childReady, named, home, attached, parent, deathSignal>>

Kill ==
  /\ pc # "exited" /\ pc' = "exited"
  /\ Quiet

\* The collector dies; the kernel sends SIGTERM if prctl has been called, and
\* never does if the child has not come that far.
ParentDies ==
  /\ parent' = IF pc = "spawned" THEN "diedEarly" ELSE "dead"
  /\ IF deathSignal /\ pc # "exited" THEN Sigterm ELSE UNCHANGED <<pc, exitFlag>>
  /\ UNCHANGED <<loginVars, childReady, named, home, attached, deathSignal>>

-----------------------------------------------------------------------------
(* The API's alerts *)

Running == pc \notin {"spawned", "starting", "opened", "exited"}

Elsewhere == UNCHANGED <<exitFlag, childReady, named, home, attached, parent, deathSignal>>

RepositoryAlert ==
  /\ Running
  /\ \/ pc = "repWait" /\ repStatus = "none" /\ repStatus' = "complete"
     \/ repStatus # "failed" /\ repStatus' = "failed"
  /\ UNCHANGED <<pc, mdStatus, rcvdAgreements, unaccepted, loggedIn>>
  /\ Elsewhere

MarketDataAlert ==
  /\ Running /\ pc \notin {"repWait", "agreementsWait"}
  /\ \/ pc = "mdWait" /\ mdStatus = "none" /\ mdStatus' = "complete"
     \/ mdStatus # "failed" /\ mdStatus' = "failed"
  /\ loggedIn' = (loggedIn \/ mdStatus' = "complete")
  /\ UNCHANGED <<pc, repStatus, rcvdAgreements, unaccepted>>
  /\ Elsewhere

\* AgreementList, for the unaccepted ones: n of them are active and mandatory.
\* A broken connection brings no answer.
AgreementList(n) ==
  /\ pc = "agreementsWait" /\ repStatus = "complete" /\ ~rcvdAgreements
  /\ unaccepted' = unaccepted + n
  /\ rcvdAgreements' = TRUE
  /\ UNCHANGED <<pc, repStatus, mdStatus, loggedIn>>
  /\ Elsewhere

-----------------------------------------------------------------------------
Alerts == RepositoryAlert \/ MarketDataAlert \/ \E n \in 0..1 : AgreementList(n)

Process ==
  \/ Prctl \/ OpenShm \/ CreateEngine \/ LoginRepository \/ AgreementsAccepted
  \/ LoginMarketData \/ InstallHandlers \/ Ready \/ Leave \/ Stop

\* The loops that sleep for a second, the heartbeat's too, and the end.
Poll == pc \in {"repWait", "agreementsWait", "mdWait", "ready", "exited"} /\ UNCHANGED gatewayVars

-----------------------------------------------------------------------------
(* Properties *)

States == {"spawned", "starting", "opened", "repWait", "agreementsWait", "mdWait", "subscribed",
           "handling", "ready", "stopping", "exited"}
Attached == pc \notin {"spawned", "starting", "exited"}

\* Types of the state; segments are numbered 0..n.
GatewayTypeOK(n) ==
  /\ pc \in States
  /\ repStatus \in {"none", "complete", "failed"} /\ mdStatus \in {"none", "complete", "failed"}
  /\ rcvdAgreements \in BOOLEAN /\ unaccepted \in 0..1
  /\ exitFlag \in BOOLEAN /\ deathSignal \in BOOLEAN /\ loggedIn \in BOOLEAN
  /\ parent \in {"alive", "dead", "diedEarly"}
  /\ named \in 0..n /\ home \in 0..n /\ attached \in 0..n /\ childReady \subseteq 1..n

\* A child that beats has no mandatory agreement open and a market data login
\* that has succeeded (it may have been lost since).
BeatsLoggedIn ==
  pc = "ready" =>
    unaccepted = 0 /\ rcvdAgreements /\ loggedIn /\ attached \in childReady

\* Start ends, in success or in failure, unless the repository connection
\* breaks; main then waits in LoginRepository for agreements nobody will list.
StartEnds ==
  pc = "spawned" ~> (pc \in {"ready", "exited"} \/ (pc = "agreementsWait" /\ repStatus = "failed"))
=============================================================================
