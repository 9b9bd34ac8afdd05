----------------------------- MODULE PubWorker -----------------------------
(***************************************************************************)
(* PubWorker and its ZmqBufferPool: parser threads publish into three      *)
(* queues per shard, the pub thread takes one event of each queue in turn, *)
(* copies it into a pooled buffer and sends it; ZeroMQ (external) gives    *)
(* the buffer back from its own thread.  A queue is the bounded FIFO that  *)
(* DataDispatcherProofs shows SPSCQueue to implement.                      *)
(***************************************************************************)
EXTENDS Naturals, Sequences

CONSTANTS
  NumShards,                   \* num_shards_
  QueueSize,                   \* events a queue holds (4095)
  PoolSize,                    \* kPoolSize
  MaxEvents                    \* bound: events published

ASSUME PubAssumption ==
  {NumShards, QueueSize, PoolSize, MaxEvents} \subseteq Nat \ {0}

Total == NumShards * 3         \* total_queues
Queues == 0..(Total - 1)
Slots == 0..(PoolSize - 1)
Reasons == {"queue", "buffer", "hwm", "topic"}

VARIABLES
  queue,                       \* shard_queues_, by index
  inUse, data, next,           \* the pool; next_ modulo its size
  inFlight,                    \* messages ZeroMQ holds: their buffers and events
  running,                     \* running_
  worker,                      \* where the pub thread is
  cursor, turn, anyWork,       \* locals of Run, DispatchCycle and DrainAll
  main,                        \* the main thread: up, stopping, joined
  events,                      \* events published so far
  dropped,                     \* dropped_queue_count_, _buffer_count_, _hwm_count_, and
                               \*   the events without a topic, which no counter counts
  sent,                        \* history: what was sent from each queue
  waited,                      \* history: turns since each queue was tried
  stoppedEarly                 \* history: Stop came before Run raised running_

poolVars == <<inUse, data, next, inFlight>>
turnVars == <<cursor, turn, anyWork, waited>>
vars == <<queue, poolVars, running, worker, turnVars, main, events, dropped, sent, stoppedEarly>>

Init ==
  /\ queue = [q \in Queues |-> <<>>]
  /\ inUse = [s \in Slots |-> FALSE] /\ data = [s \in Slots |-> 0] /\ next = 0 /\ inFlight = {}
  /\ running = FALSE /\ worker = "created" /\ main = "up"
  /\ cursor = 0 /\ turn = 0 /\ anyWork = FALSE
  /\ events = 0 /\ dropped = [why \in Reasons |-> 0]
  /\ sent = [q \in Queues |-> <<>>] /\ waited = [q \in Queues |-> 0]
  /\ stoppedEarly = FALSE

-----------------------------------------------------------------------------
(* Parser threads *)

\* PublishTick, PublishDepth and PublishBookTicker.
Publish(q) ==
  /\ main = "up" /\ events < MaxEvents
  /\ events' = events + 1
  /\ IF Len(queue[q]) < QueueSize
     THEN queue' = [queue EXCEPT ![q] = Append(@, events')] /\ UNCHANGED dropped
     ELSE dropped' = [dropped EXCEPT !["queue"] = @ + 1] /\ UNCHANGED queue
  /\ UNCHANGED <<poolVars, running, worker, turnVars, main, sent, stoppedEarly>>

-----------------------------------------------------------------------------
(* The buffer pool and ZeroMQ *)

Free == {s \in Slots : ~inUse[s]}
Distance(s) == (s + PoolSize - next) % PoolSize

\* The slot Acquire tries first.
AcquireUnchecked == next
\* The first free slot from next_ on.
Acquire == CHOOSE s \in Free : \A t \in Free : Distance(s) <= Distance(t)

\* ZeroMQ is done with a message, sent or not.
Release(m) ==
  /\ m \in inFlight
  /\ inFlight' = inFlight \ {m}
  /\ inUse' = [inUse EXCEPT ![m.slot] = FALSE]
  /\ UNCHANGED <<queue, data, next, running, worker, turnVars, main, events, dropped, sent, stoppedEarly>>

-----------------------------------------------------------------------------
(* The pub thread *)

\* SendTyped for the event e of queue q: no topic; no buffer; a frame refused
\* by ZeroMQ, whose message gives its buffer back at once; or sent.
Count(why) == dropped' = [dropped EXCEPT ![why] = @ + 1]
Serialize(e) == data' = [data EXCEPT ![Acquire] = e] /\ next' = (Acquire + 1) % PoolSize

Unsent(why) == Count(why) /\ UNCHANGED <<inUse, inFlight, sent>>

SendTypedUncountedRefusal(q, e, ok) ==
  \/ Unsent("topic") /\ ok = FALSE /\ UNCHANGED <<data, next>>
  \/ Free = {} /\ ok = FALSE /\ Unsent("buffer") /\ UNCHANGED <<data, next>>
  \/ Free # {} /\ ok = FALSE /\ UNCHANGED <<dropped, inUse, inFlight, sent>> /\ Serialize(e)
  \/ /\ Free # {} /\ ok = TRUE /\ Serialize(e)
     /\ inUse' = [inUse EXCEPT ![Acquire] = TRUE]
     /\ inFlight' = inFlight \union {[slot |-> Acquire, event |-> e]}
     /\ sent' = [sent EXCEPT ![q] = Append(@, e)]
     /\ UNCHANGED dropped
SendTyped(q, e, ok) ==
  \/ Unsent("topic") /\ ok = FALSE /\ UNCHANGED <<data, next>>
  \/ Free = {} /\ ok = FALSE /\ Unsent("buffer") /\ UNCHANGED <<data, next>>
  \/ Free # {} /\ ok = FALSE /\ Unsent("hwm") /\ Serialize(e)
  \/ /\ Free # {} /\ ok = TRUE /\ Serialize(e)
     /\ inUse' = [inUse EXCEPT ![Acquire] = TRUE]
     /\ inFlight' = inFlight \union {[slot |-> Acquire, event |-> e]}
     /\ sent' = [sent EXCEPT ![q] = Append(@, e)]
     /\ UNCHANGED dropped

\* One turn of DispatchCycle: the queue's event is popped, then sent or lost.
TrySendOne ==
  LET q == (cursor + turn) % Total IN
  /\ worker \in {"loop", "drain"} /\ turn < Total
  /\ turn' = turn + 1
  /\ waited' = [r \in Queues |-> IF r = q THEN 0 ELSE waited[r] + 1]
  /\ IF queue[q] = <<>> THEN UNCHANGED <<queue, poolVars, anyWork, dropped, sent>>
     ELSE \E ok \in BOOLEAN :
            /\ SendTyped(q, Head(queue[q]), ok)
            /\ queue' = [queue EXCEPT ![q] = Tail(@)]
            /\ anyWork' = (anyWork \/ ok)
  /\ UNCHANGED <<running, worker, cursor, main, events, stoppedEarly>>

\* Run, after the sockets are bound.
RunBegins ==
  /\ worker = "created" /\ worker' = "test"
  /\ running' = TRUE
  /\ UNCHANGED <<queue, poolVars, turnVars, main, events, dropped, sent, stoppedEarly>>

\* The condition of Run's loop; DrainAll starts with a cursor of its own.
TestRunning ==
  /\ worker = "test"
  /\ worker' = IF running THEN "loop" ELSE "drain"
  /\ cursor' = IF running THEN cursor ELSE 0
  /\ UNCHANGED <<queue, poolVars, running, turn, anyWork, waited, main, events, dropped, sent, stoppedEarly>>

\* The end of DispatchCycle, in Run and in DrainAll.
CycleEndsAfterWork ==
  /\ worker \in {"loop", "drain"} /\ (turn = Total \/ anyWork)
  /\ worker' = IF worker = "loop" THEN "test" ELSE IF anyWork THEN "drain" ELSE "exited"
  /\ turn' = 0 /\ anyWork' = FALSE
  /\ UNCHANGED <<queue, poolVars, running, cursor, waited, main, events, dropped, sent, stoppedEarly>>
CycleEnds ==
  /\ worker \in {"loop", "drain"} /\ turn = Total
  /\ worker' = IF worker = "loop" THEN "test" ELSE IF anyWork THEN "drain" ELSE "exited"
  /\ cursor' = (cursor + 1) % Total /\ turn' = 0 /\ anyWork' = FALSE
  /\ UNCHANGED <<queue, poolVars, running, waited, main, events, dropped, sent, stoppedEarly>>

-----------------------------------------------------------------------------
(* The main thread: Stop, after the parser threads have been joined *)

StopWithoutSignal ==
  /\ main = "up" /\ main' = "stopping"
  /\ stoppedEarly' = (worker = "created")
  /\ UNCHANGED <<queue, poolVars, running, worker, turnVars, events, dropped, sent>>
Stop ==
  /\ main = "up" /\ main' = "stopping"
  /\ running' = FALSE
  /\ stoppedEarly' = (worker = "created")
  /\ UNCHANGED <<queue, poolVars, worker, turnVars, events, dropped, sent>>

Join ==
  /\ main = "stopping" /\ worker = "exited" /\ main' = "joined"
  /\ UNCHANGED <<queue, poolVars, running, worker, turnVars, events, dropped, sent, stoppedEarly>>

-----------------------------------------------------------------------------
PubThread == RunBegins \/ TestRunning \/ TrySendOne \/ CycleEnds

Done == main = "joined" /\ inFlight = {} /\ UNCHANGED vars

Next ==
  \/ \E q \in Queues : Publish(q)
  \/ \E m \in inFlight : Release(m)
  \/ PubThread \/ Stop \/ Join \/ Done

Spec == Init /\ [][Next]_vars

\* The pub thread runs, and the main thread reaches the end of main.
FairSpec == Spec /\ WF_vars(PubThread) /\ WF_vars(Join)

-----------------------------------------------------------------------------
(* Properties *)

\* Types of the state.
TypeOK ==
  /\ queue \in [Queues -> Seq(1..events)] /\ \A q \in Queues : Len(queue[q]) <= QueueSize
  /\ inUse \in [Slots -> BOOLEAN] /\ data \in [Slots -> 0..events] /\ next \in Slots
  /\ inFlight \subseteq [slot : Slots, event : 1..events]
  /\ {running, anyWork, stoppedEarly} \subseteq BOOLEAN
  /\ worker \in {"created", "test", "loop", "drain", "exited"}
  /\ cursor \in Queues /\ turn \in 0..Total
  /\ main \in {"up", "stopping", "joined"} /\ events \in 0..MaxEvents
  /\ dropped \in [Reasons -> Nat]
  /\ sent \in [Queues -> Seq(1..events)] /\ waited \in [Queues -> Nat]

\* Acquire and Release: a buffer that ZeroMQ still holds keeps the event it was
\* given, no two messages share one, and no buffer stays taken without a
\* message, whichever way a send ended.
BuffersIntact ==
  /\ \A m \in inFlight : inUse[m.slot] /\ data[m.slot] = m.event
  /\ \A m, n \in inFlight : m.slot = n.slot => m = n
  /\ \A s \in Slots : inUse[s] => \E m \in inFlight : m.slot = s

\* The sum of f over the queues.
OverQueues(f) ==
  LET upTo[n \in 0..Total] == IF n = 0 THEN 0 ELSE upTo[n - 1] + f[n - 1]
  IN  upTo[Total]

\* SendTyped and Publish*: every event is queued, sent, or counted by exactly
\* one of the dropped counters, but for one whose topic could not be built; and
\* DrainAll leaves none behind, unless some send has failed.
EveryEventAccounted ==
  /\ TypeOK
  /\ events = OverQueues([q \in Queues |-> Len(queue[q]) + Len(sent[q])])
               + dropped["queue"] + dropped["buffer"] + dropped["hwm"] + dropped["topic"]
  /\ worker = "exited" /\ dropped["buffer"] + dropped["hwm"] + dropped["topic"] = 0 =>
       \A q \in Queues : queue[q] = <<>>

\* The "fair round-robin dispatch loop" of pub_worker.h: no queue is passed
\* over for two cycles, however busy the others are and whatever their sends
\* come to.
FairRoundRobin == \A q \in Queues : waited[q] <= 2 * Total - 2

\* Stop comes back, if Run had raised running_ before; otherwise Run raises it
\* after Stop has cleared it, and never ends.
StopReturns == main = "stopping" /\ ~stoppedEarly ~> main = "joined"
=============================================================================
