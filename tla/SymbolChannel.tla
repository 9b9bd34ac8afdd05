--------------------------- MODULE SymbolChannel ---------------------------
(***************************************************************************)
(* One SymbolChannel with the WsClient of each of its subscription groups. *)
(* The handlers run one at a time on the network thread (io_context::run); *)
(* the main thread calls Stop and then io_context::stop.  Handlers given   *)
(* to net::post run in order, and ahead of a reconnect timer, which waits  *)
(* for a second or more.                                                   *)
(*                                                                         *)
(* A group sends one subscription when it is connected and one after a     *)
(* delay.  The network (external) answers every operation or fails it.     *)
(* A handler of a client that has been destroyed touches freed memory;     *)
(* nothing is said of what the program does from then on.                  *)
(***************************************************************************)
EXTENDS Naturals, Sequences

CONSTANTS
  MaxGroups,                   \* groups that an adapter may have
  MaxFailures                  \* bound: failures of the network in a run

ASSUME ChannelAssumption == MaxGroups \in Nat \ {0} /\ MaxFailures \in Nat

VARIABLES
  groups,                      \* groups_, by number
  client,                      \* ws_clients_
  isReconnecting, attempts,    \* is_reconnecting_, reconnect_attempts_
  timers,                      \* reconnect timers that are armed
  subTimers,                   \* pending_timers_, by group
  posted,                      \* handlers posted and not run yet
  shutdown,                    \* IsShutdownRequested()
  network,                     \* the network thread: created, running, stopped
  main,                        \* the main thread, from the signal to the end of StopNetwork
  failures,                    \* failures so far
  orphaned,                    \* a destroyed client still has a handler to run
  undefined,                   \* it has run
  writtenUnconnected           \* history: a subscription was written to a client not connected

channelVars == <<client, isReconnecting, attempts, timers, subTimers, posted>>
flags == <<orphaned, undefined, writtenUnconnected>>
vars == <<groups, channelVars, shutdown, network, main, failures, flags>>

\* The chain of Connect: what the pending operation of a client is.
Stages == <<"resolve", "connect", "ssl", "handshake">>
Connecting == {Stages[i] : i \in 1..Len(Stages)}
NoClient == [made |-> FALSE, op |-> "none", open |-> FALSE, closed |-> FALSE, connected |-> FALSE, written |-> 0]
NewClient == [NoClient EXCEPT !.made = TRUE, !.op = "resolve"]

Init ==
  /\ groups \in {1..n : n \in 1..MaxGroups}
  /\ client = [g \in groups |-> NoClient]
  /\ isReconnecting = FALSE /\ attempts = 0 /\ timers = 0
  /\ subTimers = {} /\ posted = <<>>
  /\ shutdown = FALSE /\ network = "created" /\ main = "waiting" /\ failures = 0
  /\ orphaned = FALSE /\ undefined = FALSE /\ writtenUnconnected = FALSE

Post(kind, g) == [kind |-> kind, group |-> g]
Running == network = "running" /\ ~undefined
Others == UNCHANGED <<groups, shutdown, network, main>>
Fails == failures < MaxFailures /\ failures' = failures + 1

-----------------------------------------------------------------------------
(* Steps of the channel, inside its handlers *)

\* Start: a new client for each group; the old ones are destroyed.
Start ==
  /\ client' = [g \in groups |-> NewClient]
  /\ orphaned' = (orphaned \/ \E g \in groups : client[g].op # "none")
  /\ UNCHANGED <<undefined, writtenUnconnected>>

ScheduleReconnect ==
  /\ isReconnecting' = TRUE
  /\ attempts' = attempts + 1
  /\ timers' = timers + 1

NoReconnect == UNCHANGED <<isReconnecting, attempts, timers>>

\* Close of every client, in the order of the groups, given the clients as
\* the handler has left them: the ones that are open post their close.
OpenOnes(c) == SelectSeq([i \in 1..Len(c) |-> i], LAMBDA g : c[g].open)
CloseAll(c) ==
  /\ client' = [g \in groups |-> [c[g] EXCEPT !.open = FALSE]]
  /\ posted' = posted \o [i \in 1..Len(OpenOnes(c)) |-> Post("close", OpenOnes(c)[i])]

OnDisconnectKeepsTimers(c) ==
  IF isReconnecting \/ shutdown
  THEN client' = c /\ NoReconnect /\ UNCHANGED <<subTimers, posted>>
  ELSE /\ CloseAll(c)
       /\ ScheduleReconnect
       /\ UNCHANGED subTimers
OnDisconnect(c) ==
  IF isReconnecting \/ shutdown
  THEN client' = c /\ NoReconnect /\ UNCHANGED <<subTimers, posted>>
  ELSE /\ subTimers' = {}
       /\ CloseAll(c)
       /\ ScheduleReconnect

-----------------------------------------------------------------------------
(* Handlers on the network thread *)

\* RunNetwork's thread: channels.Start(), then run().
NetworkBegins ==
  /\ network = "created" /\ network' = "running"
  /\ Start
  /\ NoReconnect
  /\ UNCHANGED <<groups, subTimers, posted, shutdown, main, failures>>

\* OnResolve, the connect handler and OnSslHandshake, when they go well.
ConnectAdvances(g) ==
  /\ Running
  /\ \E i \in 1..(Len(Stages) - 1) :
       client[g].op = Stages[i] /\ client' = [client EXCEPT ![g].op = Stages[i + 1]]
  /\ NoReconnect /\ Others
  /\ UNCHANGED <<subTimers, posted, failures, flags>>

\* OnHandshake and on_connect_(true): subscribe and start to read.
ConnectSucceeds(g) ==
  /\ Running /\ client[g].op = "handshake"
  /\ client' = [client EXCEPT ![g].op = "read", ![g].open = TRUE, ![g].connected = TRUE]
  /\ attempts' = 0
  /\ posted' = Append(posted, Post("write", g))
  /\ subTimers' = subTimers \union {g}
  /\ Others
  /\ UNCHANGED <<isReconnecting, timers, failures, flags>>

\* Any of them with an error, and on_connect_(false).
ConnectFailsUnguarded(g) ==
  /\ Running /\ client[g].op \in Connecting /\ Fails
  /\ client' = [client EXCEPT ![g].op = "none"]
  /\ ScheduleReconnect
  /\ Others
  /\ UNCHANGED <<subTimers, posted, flags>>
ConnectFails(g) ==
  /\ Running /\ client[g].op \in Connecting /\ Fails
  /\ client' = [client EXCEPT ![g].op = "none"]
  /\ IF isReconnecting THEN NoReconnect ELSE ScheduleReconnect
  /\ Others
  /\ UNCHANGED <<subTimers, posted, flags>>

\* A message is read, OnMessage queues it, and the read is started again
\* unless Close came in between.
ReadMessage(g) ==
  /\ Running /\ client[g].op = "read" /\ ~client[g].closed
  /\ client' = [client EXCEPT ![g].op = IF client[g].open THEN "read" ELSE "none"]
  /\ NoReconnect /\ Others
  /\ UNCHANGED <<subTimers, posted, failures, flags>>

\* The connection breaks, or was closed.
ReadFails(g) ==
  /\ Running /\ client[g].op = "read"
  /\ IF client[g].closed THEN UNCHANGED failures ELSE Fails
  /\ OnDisconnect([client EXCEPT ![g].op = "none", ![g].open = FALSE])
  /\ Others
  /\ UNCHANGED flags

\* The handlers that Close, Write and an expired subscription timer leave.
RunPosted ==
  /\ Running /\ posted # <<>>
  /\ LET h == Head(posted)  g == h.group IN
     \/ /\ h.kind = "close"
        /\ client' = [client EXCEPT ![g].closed = TRUE]
        /\ posted' = Tail(posted) /\ UNCHANGED writtenUnconnected
     \/ /\ h.kind = "subscribe"
        /\ posted' = IF shutdown THEN Tail(posted) ELSE Append(Tail(posted), Post("write", g))
        /\ UNCHANGED <<client, writtenUnconnected>>
     \/ /\ h.kind = "write"
        /\ client' = [client EXCEPT ![g].written = IF client[g].connected THEN @ + 1 ELSE @]
        /\ writtenUnconnected' = (writtenUnconnected \/ ~client[g].connected)
        /\ posted' = Tail(posted)
  /\ NoReconnect /\ Others
  /\ UNCHANGED <<subTimers, failures, orphaned, undefined>>

SubTimerExpires(g) ==
  /\ Running /\ g \in subTimers
  /\ subTimers' = subTimers \ {g}
  /\ posted' = Append(posted, Post("subscribe", g))
  /\ NoReconnect /\ Others
  /\ UNCHANGED <<client, failures, flags>>

ReconnectFiresStillReconnecting ==
  /\ Running /\ timers > 0 /\ posted = <<>>
  /\ timers' = timers - 1
  /\ IF shutdown THEN UNCHANGED <<client, flags>> ELSE Start
  /\ Others
  /\ UNCHANGED <<isReconnecting, attempts, subTimers, posted, failures>>
ReconnectFires ==
  /\ Running /\ timers > 0 /\ posted = <<>>
  /\ timers' = timers - 1
  /\ IF shutdown THEN UNCHANGED <<client, isReconnecting, flags>>
     ELSE isReconnecting' = FALSE /\ Start
  /\ Others
  /\ UNCHANGED <<attempts, subTimers, posted, failures>>

\* The operation of a destroyed client is aborted, and its handler runs.
OrphanRuns ==
  /\ Running /\ orphaned /\ undefined' = TRUE
  /\ Others
  /\ UNCHANGED <<channelVars, failures, orphaned, writtenUnconnected>>

-----------------------------------------------------------------------------
(* The main thread *)

Signal ==
  /\ main = "waiting" /\ main' = "signalled" /\ shutdown' = TRUE
  /\ UNCHANGED <<groups, channelVars, network, failures, flags>>

\* Stop: the timers, then the clients.
StopTimers ==
  /\ main = "signalled" /\ main' = "timersStopped"
  /\ subTimers' = {}
  /\ NoReconnect
  /\ UNCHANGED <<groups, client, posted, shutdown, network, failures, flags>>

StopClients ==
  /\ main = "timersStopped" /\ main' = "clientsStopped"
  /\ CloseAll(client)
  /\ NoReconnect
  /\ UNCHANGED <<groups, subTimers, shutdown, network, failures, flags>>

IoStop ==
  /\ main = "clientsStopped" /\ main' = "done"
  /\ network' = "stopped"
  /\ UNCHANGED <<groups, channelVars, shutdown, failures, flags>>

-----------------------------------------------------------------------------
Handler ==
  \/ NetworkBegins \/ RunPosted \/ ReconnectFires
  \/ \E g \in groups : ConnectAdvances(g) \/ ConnectSucceeds(g) \/ ConnectFails(g)
                       \/ ReadFails(g) \/ SubTimerExpires(g)

MainThread == Signal \/ StopTimers \/ StopClients \/ IoStop

Finished == (main = "done" \/ undefined) /\ UNCHANGED vars

Next == Handler \/ (\E g \in groups : ReadMessage(g)) \/ OrphanRuns \/ MainThread \/ Finished

Spec == Init /\ [][Next]_vars

\* The network thread runs its handlers, every operation of a connect ends, a
\* closed connection fails its read, and timers expire.
FairSpec ==
  /\ Spec
  /\ WF_vars(NetworkBegins) /\ WF_vars(RunPosted) /\ WF_vars(ReconnectFires)
  /\ \A g \in 1..MaxGroups :
       /\ WF_vars(g \in groups /\ (ConnectAdvances(g) \/ ConnectSucceeds(g) \/ ConnectFails(g)))
       /\ WF_vars(g \in groups /\ SubTimerExpires(g))

-----------------------------------------------------------------------------
(* Properties *)

\* Types of the state.
TypeOK ==
  /\ client \in [groups -> [made : BOOLEAN, op : Connecting \union {"none", "read"}, open : BOOLEAN, closed : BOOLEAN,
                            connected : BOOLEAN, written : 0..(2 * MaxFailures + 2)]]
  /\ {isReconnecting, shutdown, orphaned, undefined, writtenUnconnected} \subseteq BOOLEAN
  /\ attempts \in 0..failures /\ subTimers \subseteq groups
  /\ network \in {"created", "running", "stopped"}

\* However many groups fail, in whatever order, at most one reconnect is
\* waiting, and is_reconnecting_ says so until the shutdown, so that Start
\* never runs twice for one outage.
OneReconnect ==
  TypeOK /\ timers <= 1 /\ (~shutdown => (timers = 1) = isReconnecting)

\* A channel of one group destroys a client only when no handler of it is left,
\* and every connection has each subscription written to it once, after it was
\* established: timers and posted writes of an earlier connection never reach
\* the next one.
OneGroupIsClean ==
  groups = {1} =>
    /\ ~orphaned /\ ~writtenUnconnected
    /\ client[1].written <= 2
    /\ client[1].open /\ subTimers = {} /\ posted = <<>> /\ ~shutdown => client[1].written = 2

Live(g) == client[g].op = "read" /\ client[g].open

\* Whatever fails, a finite number of times, the channel comes back to reading
\* from every group, unless it is shut down or has run into a destroyed client.
SelfHeals == []<>((\A g \in groups : Live(g)) \/ shutdown \/ undefined)
=============================================================================
