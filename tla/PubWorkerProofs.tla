--------------------------- MODULE PubWorkerProofs --------------------------
(***************************************************************************)
(* ZmqBufferPool keeps a buffer for its message until ZeroMQ is done with  *)
(* it, every event is sent or counted as dropped, and no queue is passed   *)
(* over for two cycles, for every number of shards, events and buffers.    *)
(***************************************************************************)
EXTENDS PubWorker, RingLemmas, SequenceTheorems

\* Acquire finds a free buffer when there is one, wherever next_ points.
LEMMA AcquireIsFree ==
  ASSUME next \in Slots, Free # {}
  PROVE  Acquire \in Free
<1> DEFINE D == {Distance(s) : s \in Free}
<1>1. \A s \in Free : Distance(s) \in Nat
  BY PubAssumption DEF Free, Slots, Distance
<1>2. D \subseteq Nat /\ D # {}
  BY <1>1
<1>3. PICK d \in D : \A e \in D : d <= e
  BY <1>2, LeastNumber, Zenon
<1>4. \E s \in Free : \A t \in Free : Distance(s) <= Distance(t)
  BY <1>3
<1>5. QED
  BY <1>4 DEF Acquire

-----------------------------------------------------------------------------
\* The turn of the cycle in which a queue is tried.
Position(q) == IF q >= cursor THEN q - cursor ELSE q + Total - cursor

\* A queue that was tried in this cycle has waited since; any other waits for
\* what was left of the last cycle and for this one.  Run and DrainAll, which
\* have their own cursors, change over between two cycles.
RoundInv ==
  /\ worker \notin {"loop", "drain"} => turn = 0
  /\ \A q \in Queues :
       /\ Position(q) < turn => waited[q] + Position(q) + 1 <= turn
       /\ turn <= Position(q) => waited[q] < Total + turn

Held == [q \in Queues |-> Len(queue[q]) + Len(sent[q])]
Lost == dropped["buffer"] + dropped["hwm"] + dropped["topic"]
Counted == events = OverQueues(Held) + dropped["queue"] + Lost

\* DrainAll starts when nothing more is published.  While its cycle has sent
\* nothing and lost nothing the queues it tried are empty.
DrainInv ==
  /\ worker # "created" /\ ~running => main # "up"
  /\ worker \in {"drain", "exited"} => main # "up"
  /\ worker = "drain" /\ ~anyWork /\ Lost = 0 =>
       \A q \in Queues : Position(q) < turn => queue[q] = <<>>
  /\ worker = "exited" /\ Lost = 0 => \A q \in Queues : queue[q] = <<>>

PubInv == TypeOK /\ BuffersIntact /\ RoundInv /\ Counted /\ DrainInv

-----------------------------------------------------------------------------
\* What the proof needs besides BuffersIntact: the types of the pool.
PoolTypeOK ==
  /\ next \in Slots
  /\ inUse \in [Slots -> BOOLEAN]
  /\ DOMAIN data = Slots
  /\ \A m \in inFlight : m = [slot |-> m.slot, event |-> m.event] /\ m.slot \in Slots

PoolInv == PoolTypeOK /\ BuffersIntact

\* SendTyped overwrites only a buffer that no message holds.
LEMMA SendKeepsBuffers ==
  ASSUME PoolInv, NEW q, NEW e, NEW ok \in BOOLEAN, SendTyped(q, e, ok)
  PROVE  PoolInv'
<1>1. CASE UNCHANGED poolVars
  BY <1>1 DEF PoolInv, PoolTypeOK, BuffersIntact, poolVars
<1>2. CASE Free # {} /\ Serialize(e) /\ UNCHANGED <<inUse, inFlight>>
  <2>1. Acquire \in Slots /\ ~inUse[Acquire]
    BY <1>2, AcquireIsFree DEF PoolInv, PoolTypeOK, Free
  <2>2. next' \in Slots /\ DOMAIN data' = Slots
    BY <1>2, <2>1, PubAssumption DEF PoolInv, PoolTypeOK, Serialize, Slots
  <2>3. \A s \in Slots : s # Acquire => data'[s] = data[s]
    BY <1>2 DEF PoolInv, PoolTypeOK, Serialize
  <2>4. QED
    BY <1>2, <2>1, <2>2, <2>3 DEF PoolInv, PoolTypeOK, BuffersIntact
<1>3. CASE /\ Free # {} /\ Serialize(e)
           /\ inUse' = [inUse EXCEPT ![Acquire] = TRUE]
           /\ inFlight' = inFlight \union {[slot |-> Acquire, event |-> e]}
  <2>1. Acquire \in Slots /\ ~inUse[Acquire]
    BY <1>3, AcquireIsFree DEF PoolInv, PoolTypeOK, Free
  <2>2. next' \in Slots /\ DOMAIN data' = Slots
    BY <1>3, <2>1, PubAssumption DEF PoolInv, PoolTypeOK, Serialize, Slots
  <2>3. data'[Acquire] = e /\ \A s \in Slots : s # Acquire => data'[s] = data[s]
    BY <1>3, <2>1 DEF PoolInv, PoolTypeOK, Serialize
  <2>4. \A m \in inFlight : m.slot # Acquire
    BY <2>1 DEF PoolInv, BuffersIntact
  <2>5. PoolTypeOK'
    BY <1>3, <2>1, <2>2 DEF PoolInv, PoolTypeOK
  <2>6. BuffersIntact'
    <3> DEFINE new == [slot |-> Acquire, event |-> e]
    <3>1. /\ \A m \in inFlight : inUse[m.slot] /\ data[m.slot] = m.event /\ m.slot \in Slots
          /\ \A m, n \in inFlight : m.slot = n.slot => m = n
          /\ \A s \in Slots : inUse[s] => \E m \in inFlight : m.slot = s
      BY DEF PoolInv, PoolTypeOK, BuffersIntact
    <3>2. inFlight' = inFlight \union {new} /\ new.slot = Acquire /\ new.event = e
      BY <1>3
    <3>3. /\ inUse'[Acquire]
          /\ \A s \in Slots : s # Acquire => inUse'[s] = inUse[s]
      BY <1>3, <2>1 DEF PoolInv, PoolTypeOK
    <3> HIDE DEF new
    <3>4. \A m \in inFlight' : inUse'[m.slot] /\ data'[m.slot] = m.event
      BY <2>1, <2>3, <2>4, <3>1, <3>2, <3>3
    <3>5. \A m, n \in inFlight' : m.slot = n.slot => m = n
      BY <2>4, <3>1, <3>2
    <3>6. \A s \in Slots : inUse'[s] => \E m \in inFlight' : m.slot = s
      BY <3>1, <3>2, <3>3
    <3>7. QED
      BY <3>4, <3>5, <3>6 DEF BuffersIntact
  <2>7. QED
    BY <2>5, <2>6 DEF PoolInv
<1>4. QED
  BY <1>1, <1>2, <1>3 DEF SendTyped, Unsent, poolVars

\* Release frees the buffer of its message and of no other.
LEMMA ReleaseKeepsBuffers ==
  ASSUME PoolInv, NEW m \in inFlight, Release(m)
  PROVE  PoolInv'
<1>1. /\ inFlight' = inFlight \ {m} /\ inUse' = [inUse EXCEPT ![m.slot] = FALSE]
      /\ UNCHANGED <<data, next>>
  BY DEF Release
<1>2. PoolTypeOK'
  BY <1>1 DEF PoolInv, PoolTypeOK
<1>3. \A n \in inFlight' : n.slot # m.slot /\ n.slot \in Slots
  BY <1>1 DEF PoolInv, PoolTypeOK, BuffersIntact
<1>4. \A s \in Slots : inUse'[s] => s # m.slot /\ inUse[s]
  BY <1>1 DEF PoolInv, PoolTypeOK
<1>5. BuffersIntact'
  BY <1>1, <1>3, <1>4 DEF PoolInv, PoolTypeOK, BuffersIntact
<1>6. QED
  BY <1>2, <1>5 DEF PoolInv

LEMMA PoolKept == PoolInv /\ [Next]_vars => PoolInv'
<1> SUFFICES ASSUME PoolInv, [Next]_vars PROVE PoolInv'
  OBVIOUS
<1>1. CASE UNCHANGED poolVars
  BY <1>1 DEF PoolInv, PoolTypeOK, BuffersIntact, poolVars
<1>2. ASSUME NEW m \in inFlight, Release(m) PROVE PoolInv'
  BY <1>2, ReleaseKeepsBuffers
<1>3. CASE TrySendOne
  <2> DEFINE q == (cursor + turn) % Total
  <2>1. CASE queue[q] = <<>>
    BY <1>1, <1>3, <2>1 DEF TrySendOne
  <2>2. CASE queue[q] # <<>>
    <3>1. PICK ok \in BOOLEAN : SendTyped(q, Head(queue[q]), ok)
      BY <1>3, <2>2 DEF TrySendOne
    <3>2. QED
      BY <3>1, SendKeepsBuffers
  <2>3. QED
    BY <2>1, <2>2
<1>4. QED
  BY <1>1, <1>2, <1>3
  DEF Next, Publish, PubThread, RunBegins, TestRunning, CycleEnds, Stop, Join, Done, vars

-----------------------------------------------------------------------------
\* The sum over the queues is reached in one step for each queue.
LEMMA OverQueuesSteps ==
  ASSUME NEW f \in [Queues -> Int]
  PROVE  \E upTo \in [0..Total -> Int] :
           /\ upTo[0] = 0 /\ \A n \in 1..Total : upTo[n] = upTo[n - 1] + f[n - 1]
           /\ OverQueues(f) = upTo[Total]
<1> DEFINE sum[n \in 0..Total] == IF n = 0 THEN 0 ELSE sum[n - 1] + f[n - 1]
           Follows(g) == g = [n \in 0..Total |-> IF n = 0 THEN 0 ELSE g[n - 1] + f[n - 1]]
           step == [p \in (1..Total) \X Int |-> p[2] + f[p[1] - 1]]
<1>1. Total \in Nat /\ Queues = 0..(Total - 1) /\ 0 \in Int
  BY PubAssumption DEF Total, Queues
<1>2. \A n \in 1..Total : n - 1 \in Queues /\ f[n - 1] \in Int
  BY <1>1
<1>3. step \in Steps(Total, Int)
  BY <1>2 DEF Steps
<1>4. \A n \in 1..Total, x \in Int : step[<<n, x>>] = x + f[n - 1]
  OBVIOUS
<1> HIDE DEF step
<1>5. PICK g : Takes(g, Total, Int, 0, step)
  BY <1>1, <1>3, Recursion, Zenon
<1>6. Follows(g)
  <2>1. ASSUME NEW n \in 0..Total, n # 0 PROVE g[n] = g[n - 1] + f[n - 1]
    <3>1. n \in 1..Total /\ n - 1 \in 0..Total /\ g[n - 1] \in Int
      BY <1>1, <1>5, <2>1 DEF Takes
    <3> QED
      BY <1>4, <1>5, <3>1, Zenon DEF Takes
  <2> QED
    BY <1>5, <2>1 DEF Takes
<1>7. Follows(sum)
  BY <1>6, Zenon
<1>8. OverQueues(f) = sum[Total]
  BY DEF OverQueues
<1> HIDE DEF sum
<1>9. sum[0] = 0 /\ \A n \in 1..Total : sum[n] = sum[n - 1] + f[n - 1]
  BY <1>1, <1>7
<1> DEFINE T == {n \in 0..Total : sum[n] \in Int}
<1>10. 0..Total \subseteq T
  <2>1. 0 \in T
    BY <1>1, <1>9
  <2>2. ASSUME NEW n \in 1..Total, n - 1 \in T PROVE n \in T
    BY <1>1, <1>2, <1>9, <2>2
  <2> HIDE DEF T
  <2> QED
    BY <1>1, <2>1, <2>2, UpTo, Zenon
<1>11. sum \in [0..Total -> Int]
  BY <1>7, <1>10
<1> QED
  BY <1>8, <1>9, <1>11, Zenon

\* One queue that grows by d makes the sum grow by d.
LEMMA OverQueuesGrows ==
  ASSUME NEW f \in [Queues -> Int], NEW g \in [Queues -> Int], NEW q \in Queues, NEW d \in Int,
         g[q] = f[q] + d, \A r \in Queues : r # q => g[r] = f[r]
  PROVE  OverQueues(g) = OverQueues(f) + d
<1>1. Total \in Nat /\ Queues = 0..(Total - 1)
  BY PubAssumption DEF Total, Queues
<1>2. PICK s \in [0..Total -> Int] :
        /\ s[0] = 0 /\ \A n \in 1..Total : s[n] = s[n - 1] + f[n - 1]
        /\ OverQueues(f) = s[Total]
  BY OverQueuesSteps, SMTT(30)
<1>3. PICK t \in [0..Total -> Int] :
        /\ t[0] = 0 /\ \A n \in 1..Total : t[n] = t[n - 1] + g[n - 1]
        /\ OverQueues(g) = t[Total]
  BY OverQueuesSteps
<1> DEFINE T == {n \in 0..Total : t[n] = s[n] + (IF n > q THEN d ELSE 0)}
<1>4. 0 \in T
  BY <1>1, <1>2, <1>3
<1>5. ASSUME NEW n \in 1..Total, n - 1 \in T PROVE n \in T
  <2>1. n - 1 \in Queues /\ n \in 0..Total /\ f[n - 1] \in Int /\ s[n - 1] \in Int
    BY <1>1
  <2>2. t[n] = t[n - 1] + g[n - 1] /\ s[n] = s[n - 1] + f[n - 1]
    BY <1>2, <1>3
  <2>3. t[n - 1] = s[n - 1] + (IF n - 1 > q THEN d ELSE 0)
    BY <1>5
  <2>4. g[n - 1] = f[n - 1] + (IF n - 1 = q THEN d ELSE 0)
    BY <2>1
  <2>5. q \in Int /\ n \in Int /\ t[n - 1] \in Int /\ g[n - 1] \in Int
    BY <1>1, <2>1
  <2>6. CASE n - 1 < q
    BY <2>1, <2>2, <2>3, <2>4, <2>5, <2>6
  <2>7. CASE n - 1 = q
    BY <2>1, <2>2, <2>3, <2>4, <2>5, <2>7
  <2>8. CASE n - 1 > q
    BY <2>1, <2>2, <2>3, <2>4, <2>5, <2>8
  <2> QED
    BY <2>5, <2>6, <2>7, <2>8
<1>6. Total \in T
  <2> HIDE DEF T
  <2>1. 0..Total \subseteq T
    BY <1>1, <1>4, <1>5, UpTo, Zenon
  <2> QED
    BY <1>1, <2>1
<1> QED
  BY <1>1, <1>2, <1>3, <1>6

\* Nothing held is nothing in all.
LEMMA OverQueuesEmpty ==
  ASSUME NEW f \in [Queues -> Int], \A q \in Queues : f[q] = 0
  PROVE  OverQueues(f) = 0
<1>1. Total \in Nat /\ Queues = 0..(Total - 1)
  BY PubAssumption DEF Total, Queues
<1>2. PICK s \in [0..Total -> Int] :
        /\ s[0] = 0 /\ \A n \in 1..Total : s[n] = s[n - 1] + f[n - 1]
        /\ OverQueues(f) = s[Total]
  BY OverQueuesSteps, Zenon
<1> DEFINE T == {n \in 0..Total : s[n] = 0}
<1>3. 0 \in T
  BY <1>1, <1>2
<1>4. ASSUME NEW n \in 1..Total, n - 1 \in T PROVE n \in T
  BY <1>1, <1>2, <1>4
<1>5. Total \in T
  <2> HIDE DEF T
  <2>1. 0..Total \subseteq T
    BY <1>1, <1>3, <1>4, UpTo, Zenon
  <2> QED
    BY <1>1, <2>1
<1> QED
  BY <1>2, <1>5

-----------------------------------------------------------------------------
\* The queue of a turn is the one whose position is that turn.
LEMMA TurnIsPosition ==
  ASSUME cursor \in Queues, turn \in Nat, turn < Total
  PROVE  /\ (cursor + turn) % Total \in Queues
         /\ \A q \in Queues : q = (cursor + turn) % Total <=> Position(q) = turn
<1>1. Total \in Nat \ {0} /\ cursor \in Nat /\ cursor < Total
  BY PubAssumption DEF Total, Queues
<1>2. (cursor + turn) % Total = IF cursor + turn < Total THEN cursor + turn ELSE cursor + turn - Total
  <2>1. CASE cursor + turn < Total
    BY <1>1, <2>1
  <2>2. CASE cursor + turn >= Total
    <3> DEFINE a == cursor + turn - Total
    <3>1. a \in Nat /\ a < Total /\ a + Total = cursor + turn
      BY <1>1, <2>2
    <3> HIDE DEF a
    <3>2. a % Total = a
      BY <1>1, <3>1
    <3>3. (a + Total) % Total = a % Total
      BY <1>1, <3>1, SlotAfterLap, Zenon
    <3> QED
      BY <1>1, <2>2, <3>1, <3>2, <3>3
  <2> QED
    BY <1>1, <2>1, <2>2
<1> DEFINE p == (cursor + turn) % Total
<1> HIDE DEF p
<1>3. p = IF cursor + turn < Total THEN cursor + turn ELSE cursor + turn - Total
  BY <1>2 DEF p
<1>4. p \in Queues /\ \A q \in Queues : q = p <=> Position(q) = turn
  BY <1>1, <1>3 DEF Queues, Position
<1> QED
  BY <1>4 DEF p

LEMMA PositionIsTurn ==
  ASSUME cursor \in Queues, NEW q \in Queues
  PROVE  Position(q) \in Nat /\ Position(q) < Total /\ Total \in Nat
BY PubAssumption DEF Total, Queues, Position

LEMMA PositionAfter ==
  ASSUME cursor' \in Queues, NEW q \in Queues
  PROVE  Position(q)' \in Nat
<1>1. Position(q)' = IF q >= cursor' THEN q - cursor' ELSE q + Total - cursor'
  BY DEF Position, Total
<1> DEFINE c == cursor'
<1>2. Total \in Nat /\ c \in 0..(Total - 1) /\ q \in 0..(Total - 1)
  BY PubAssumption DEF Total, Queues
<1> HIDE DEF c
<1>3. (IF q >= c THEN q - c ELSE q + Total - c) \in Nat
  BY <1>2
<1> QED
  BY <1>1, <1>3 DEF c

LEMMA RoundKept == TypeOK /\ RoundInv /\ [Next]_vars => RoundInv'
<1> SUFFICES ASSUME TypeOK, RoundInv, [Next]_vars PROVE RoundInv'
  OBVIOUS
<1>0. /\ cursor \in Queues /\ turn \in 0..Total /\ Total \in Nat \ {0} /\ waited \in [Queues -> Nat]
      /\ \A q \in Queues : Position(q) \in Nat /\ Position(q) < Total
  BY PositionIsTurn, PubAssumption, SMTT(30) DEF TypeOK, Total
<1>1. CASE UNCHANGED <<worker, turn, cursor, waited>>
  BY <1>1 DEF RoundInv, Position
<1>2. CASE TrySendOne
  <2> DEFINE p == (cursor + turn) % Total
  <2>1. /\ turn < Total /\ turn' = turn + 1 /\ UNCHANGED <<worker, cursor>> /\ worker \in {"loop", "drain"}
        /\ waited' = [r \in Queues |-> IF r = p THEN 0 ELSE waited[r] + 1]
    BY <1>2 DEF TrySendOne
  <2>2. \A q \in Queues : q = p <=> Position(q) = turn
    BY <1>0, <2>1, TurnIsPosition
  <2> HIDE DEF p
  <2>3. ASSUME NEW q \in Queues
        PROVE  /\ Position(q)' = Position(q)
               /\ Position(q) < turn' => waited'[q] + Position(q) + 1 <= turn'
               /\ turn' <= Position(q) => waited'[q] < Total + turn'
    <3>1. Position(q)' = Position(q)
      BY <2>1 DEF Position
    <3>2. waited'[q] = IF Position(q) = turn THEN 0 ELSE waited[q] + 1
      BY <2>1, <2>2
    <3>3. /\ Position(q) < turn => waited[q] + Position(q) + 1 <= turn
          /\ turn <= Position(q) => waited[q] < Total + turn
          /\ Position(q) \in Nat /\ waited[q] \in Nat
      BY <1>0 DEF RoundInv
    <3> QED
      BY <1>0, <2>1, <3>1, <3>2, <3>3
  <2> QED
    BY <2>1, <2>3 DEF RoundInv
<1>3. CASE TestRunning
  <2>1. turn = 0 /\ turn' = 0 /\ UNCHANGED waited /\ cursor' \in Queues
    BY <1>0, <1>3 DEF TestRunning, RoundInv, Queues
  <2>2. ASSUME NEW q \in Queues PROVE waited[q] < Total /\ Position(q)' \in Nat
    <3>1. Position(q)' \in Nat
      BY <2>1, PositionAfter
    <3> QED
      BY <1>0, <2>1, <3>1 DEF RoundInv
  <2> QED
    BY <1>0, <2>1, <2>2 DEF RoundInv
<1>4. CASE CycleEnds
  <2>1. turn = Total /\ turn' = 0 /\ UNCHANGED waited /\ cursor' = (cursor + 1) % Total
    BY <1>4 DEF CycleEnds
  <2>2. cursor' \in Queues
    BY <1>0, <2>1 DEF Queues
  <2>3. ASSUME NEW q \in Queues PROVE waited[q] < Total /\ Position(q)' \in Nat
    <3>1. Position(q)' \in Nat
      BY <2>2, PositionAfter
    <3>2. waited[q] + Position(q) + 1 <= Total
      BY <1>0, <2>1 DEF RoundInv
    <3> QED
      BY <1>0, <3>1, <3>2
  <2> QED
    BY <1>0, <2>1, <2>3 DEF RoundInv
<1>5. CASE RunBegins
  BY <1>5 DEF RunBegins, RoundInv, Position, turnVars
<1> QED
  BY <1>1, <1>2, <1>3, <1>4, <1>5
  DEF Next, Publish, Release, PubThread, Stop, Join, Done, vars, turnVars

-----------------------------------------------------------------------------
\* What a send counts: a loss in one of three counters, or the event.
LEMMA SendCounts ==
  ASSUME TypeOK, NEW q \in Queues, NEW e \in 1..events, NEW ok \in BOOLEAN, SendTyped(q, e, ok)
  PROVE  \/ /\ ok = FALSE /\ sent' = sent
            /\ \E why \in {"topic", "buffer", "hwm"} : dropped' = [dropped EXCEPT ![why] = @ + 1]
         \/ /\ ok = TRUE /\ dropped' = dropped
            /\ sent' = [sent EXCEPT ![q] = Append(@, e)]
BY Zenon DEF SendTyped, Unsent, Count

\* An event more in a counter, and in no other.
LEMMA CountsOnce ==
  ASSUME TypeOK, NEW why \in Reasons, dropped' = [dropped EXCEPT ![why] = @ + 1]
  PROVE  /\ dropped' \in [Reasons -> Nat]
         /\ dropped["queue"]' + Lost' = dropped["queue"] + Lost + 1
         /\ why # "queue" => Lost' # 0
<1>1. /\ dropped \in [Reasons -> Nat] /\ dropped' \in [Reasons -> Nat] /\ dropped'[why] = dropped[why] + 1
      /\ \A w \in Reasons : w # why => dropped'[w] = dropped[w]
  BY DEF TypeOK
<1>2. /\ {"queue", "buffer", "hwm", "topic"} \subseteq Reasons
      /\ \A w \in Reasons : dropped[w] \in Nat /\ dropped'[w] \in Nat
  BY <1>1 DEF Reasons
<1> USE DEF Lost
<1>3. CASE why = "queue"
  BY <1>1, <1>2, <1>3
<1>4. CASE why = "buffer"
  BY <1>1, <1>2, <1>4
<1>5. CASE why = "hwm"
  BY <1>1, <1>2, <1>5
<1>6. CASE why = "topic"
  BY <1>1, <1>2, <1>6
<1> QED
  BY <1>3, <1>4, <1>5, <1>6 DEF Reasons

LEMMA HeldTyped ==
  ASSUME TypeOK
  PROVE  Held \in [Queues -> Int] /\ OverQueues(Held) \in Int
<1>1. queue \in [Queues -> Seq(1..events)] /\ sent \in [Queues -> Seq(1..events)]
  BY DEF TypeOK
<1>2. ASSUME NEW q \in Queues PROVE Len(queue[q]) + Len(sent[q]) \in Int
  BY <1>1
<1>3. Held \in [Queues -> Int]
  BY <1>2, Zenon DEF Held
<1>4. Total \in Nat
  BY PubAssumption DEF Total
<1> QED
  BY <1>3, <1>4, OverQueuesSteps

LEMMA CountedKept == TypeOK /\ TypeOK' /\ Counted /\ [Next]_vars => Counted'
<1> SUFFICES ASSUME TypeOK, TypeOK', Counted, [Next]_vars PROVE Counted'
  OBVIOUS
<1>0. /\ Held \in [Queues -> Int] /\ OverQueues(Held) \in Int
      /\ queue \in [Queues -> Seq(1..events)] /\ sent \in [Queues -> Seq(1..events)]
      /\ events \in 0..MaxEvents /\ dropped \in [Reasons -> Nat]
  BY HeldTyped, Zenon DEF TypeOK
<1>02. /\ events' \in 0..MaxEvents /\ dropped' \in [Reasons -> Nat]
       /\ queue' \in [Queues -> Seq(1..events')] /\ sent' \in [Queues -> Seq(1..events')]
  BY Zenon DEF TypeOK
<1>03. events \in Nat /\ events' \in Nat
  BY <1>0, <1>02, PubAssumption
<1>01. /\ dropped["queue"] \in Nat /\ Lost \in Nat /\ dropped'["queue"] \in Nat /\ Lost' \in Nat
       /\ "queue" \in Reasons
  BY <1>0, <1>02, SMTT(30) DEF Lost, Reasons
<1>00. Held' \in [Queues -> Int]
  <2>1. ASSUME NEW q \in Queues PROVE Len(queue'[q]) + Len(sent'[q]) \in Int
    BY <1>02
  <2>2. Held' = [q \in Queues |-> Len(queue'[q]) + Len(sent'[q])]
    BY DEF Held, Queues, Total
  <2> QED
    BY <2>1, <2>2
<1>1. CASE UNCHANGED <<queue, sent, dropped, events>>
  BY <1>1 DEF Counted, Held, Lost, Queues, Total, OverQueues
<1> DEFINE f == Held
           g == Held'
<1>04. /\ f \in [Queues -> Int] /\ g \in [Queues -> Int] /\ OverQueues(f) \in Int
  BY <1>0, <1>00
<1>07. ASSUME NEW r \in Queues
       PROVE  /\ f[r] = Len(queue[r]) + Len(sent[r]) /\ g[r] = Len(queue'[r]) + Len(sent'[r])
              /\ Len(queue[r]) \in Nat /\ Len(sent[r]) \in Nat
  BY <1>0, <1>00 DEF Held, Queues, Total
<1>08. ASSUME NEW r \in Queues, queue'[r] = queue[r], sent'[r] = sent[r] PROVE g[r] = f[r]
  BY <1>07, <1>08, Zenon
<1>09. ASSUME NEW r \in Queues, NEW d \in Int, NEW e \in Int,
              Len(queue'[r]) = Len(queue[r]) + d, Len(sent'[r]) = Len(sent[r]) + e
       PROVE  g[r] = f[r] + (d + e)
  <2> DEFINE a == Len(queue[r])
             b == Len(sent[r])
  <2>1. f[r] = a + b /\ a \in Nat /\ b \in Nat
    BY <1>07, Zenon
  <2>2. g[r] = (a + d) + (b + e)
    BY <1>07, <1>09, Zenon
  <2> HIDE DEF a, b, f, g
  <2> QED
    BY <2>1, <2>2
<1>10. 0 \in Int /\ 1 \in Int /\ -1 \in Int
  OBVIOUS
<1>05. /\ events = OverQueues(f) + dropped["queue"] + Lost
       /\ Counted' <=> (events' = OverQueues(g) + dropped'["queue"] + Lost')
  BY DEF Counted, OverQueues, Total
<1>06. queue' = queue /\ sent' = sent => g = f
  BY DEF Held, Queues, Total
<1> HIDE DEF f, g
<1>2. ASSUME NEW q \in Queues, Publish(q) PROVE Counted'
  <2>1. events' = events + 1 /\ UNCHANGED sent
    BY <1>2 DEF Publish
  <2>2. CASE Len(queue[q]) < QueueSize
    <3>1. queue' = [queue EXCEPT ![q] = Append(@, events')] /\ UNCHANGED dropped
      BY <1>2, <2>2 DEF Publish
    <3>2. Len(queue'[q]) = Len(queue[q]) + 1 /\ \A r \in Queues : r # q => queue'[r] = queue[r]
      BY <1>0, <2>1, <3>1
    <3>3. g[q] = f[q] + 1 /\ \A r \in Queues : r # q => g[r] = f[r]
      <4>1. Len(sent'[q]) = Len(sent[q]) + 0
        BY <1>0, <2>1
      <4>2. g[q] = f[q] + (1 + 0)
        BY <1>09, <1>10, <3>2, <4>1, Zenon
      <4> QED
        BY <1>04, <1>08, <2>1, <3>2, <4>2
    <3>4. OverQueues(g) = OverQueues(f) + 1
      BY <1>04, <3>3, OverQueuesGrows
    <3>5. Lost' = Lost /\ dropped'["queue"] = dropped["queue"]
      BY <3>1 DEF Lost
    <3> QED
      BY <1>01, <1>03, <1>04, <1>05, <2>1, <3>4, <3>5
  <2>3. CASE ~(Len(queue[q]) < QueueSize)
    <3>1. dropped' = [dropped EXCEPT !["queue"] = @ + 1] /\ UNCHANGED queue
      BY <1>2, <2>3 DEF Publish
    <3>2. dropped'["queue"] + Lost' = dropped["queue"] + Lost + 1
      BY <1>01, <3>1, CountsOnce, Zenon
    <3>3. g = f
      BY <1>06, <2>1, <3>1
    <3> QED
      BY <1>01, <1>03, <1>04, <1>05, <2>1, <3>2, <3>3
  <2> QED
    BY <2>2, <2>3
<1>3. CASE TrySendOne
  <2> DEFINE q == (cursor + turn) % Total
  <2>1. q \in Queues /\ UNCHANGED events
    BY <1>3, TurnIsPosition DEF TrySendOne, TypeOK
  <2>2. queue[q] # <<>> => \E ok \in BOOLEAN : SendTyped(q, Head(queue[q]), ok) /\ queue' = [queue EXCEPT ![q] = Tail(@)]
    BY <1>3 DEF TrySendOne
  <2>3. queue[q] = <<>> => UNCHANGED <<queue, sent, dropped, events>>
    BY <1>3 DEF TrySendOne
  <2> HIDE DEF q
  <2>4. CASE queue[q] # <<>>
    <3>1. PICK ok \in BOOLEAN : SendTyped(q, Head(queue[q]), ok) /\ queue' = [queue EXCEPT ![q] = Tail(@)]
      BY <2>2, <2>4
    <3>2. Head(queue[q]) \in 1..events /\ Len(Tail(queue[q])) = Len(queue[q]) - 1
      BY <1>0, <2>1, <2>4
    <3>3. Len(queue'[q]) = Len(queue[q]) - 1 /\ \A r \in Queues : r # q => queue'[r] = queue[r]
      BY <1>0, <2>1, <3>1, <3>2
    <3>4. CASE sent' = sent /\ \E why \in {"topic", "buffer", "hwm"} : dropped' = [dropped EXCEPT ![why] = @ + 1]
      <4>1. g[q] = f[q] + (-1) /\ \A r \in Queues : r # q => g[r] = f[r]
        <5>1. Len(queue'[q]) = Len(queue[q]) + (-1) /\ Len(sent'[q]) = Len(sent[q]) + 0
          BY <1>0, <2>1, <3>3, <3>4
        <5>2. g[q] = f[q] + ((-1) + 0)
          BY <1>09, <1>10, <2>1, <5>1, Zenon
        <5> QED
          BY <1>04, <1>08, <2>1, <3>3, <3>4, <5>2
      <4>2. OverQueues(g) = OverQueues(f) + (-1)
        BY <1>04, <2>1, <4>1, OverQueuesGrows
      <4>3. dropped'["queue"] + Lost' = dropped["queue"] + Lost + 1
        BY <3>4, CountsOnce, Zenon DEF Reasons
      <4> QED
        BY <1>01, <1>03, <1>04, <1>05, <2>1, <4>2, <4>3, SMTT(30)
    <3>5. CASE dropped' = dropped /\ sent' = [sent EXCEPT ![q] = Append(@, Head(queue[q]))]
      <4>1. Len(sent'[q]) = Len(sent[q]) + 1 /\ \A r \in Queues : r # q => sent'[r] = sent[r]
        BY <1>0, <2>1, <3>2, <3>5
      <4>2. g[q] = f[q] + 0 /\ \A r \in Queues : r # q => g[r] = f[r]
        <5>1. Len(queue'[q]) = Len(queue[q]) + (-1)
          BY <1>0, <2>1, <3>3
        <5>2. g[q] = f[q] + ((-1) + 1)
          BY <1>09, <1>10, <2>1, <4>1, <5>1, Zenon
        <5> QED
          BY <1>04, <1>08, <2>1, <3>3, <4>1, <5>2
      <4>3. OverQueues(g) = OverQueues(f) + 0
        BY <1>04, <2>1, <4>2, OverQueuesGrows
      <4>4. Lost' = Lost /\ dropped'["queue"] = dropped["queue"]
        BY <3>5 DEF Lost
      <4> QED
        BY <1>01, <1>03, <1>04, <1>05, <2>1, <4>3, <4>4, SMTT(30)
    <3> QED
      BY <2>1, <3>1, <3>2, <3>4, <3>5, SendCounts, Zenon
  <2> QED
    BY <1>1, <2>3, <2>4, SMTT(30)
<1> QED
  BY <1>1, <1>2, <1>3
  DEF Next, PubThread, Release, RunBegins, TestRunning, CycleEnds, Stop, Join, Done, vars, turnVars, poolVars

-----------------------------------------------------------------------------
\* The part of the state an event may be in.
Places(n) ==
  /\ queue \in [Queues -> Seq(1..n)] /\ sent \in [Queues -> Seq(1..n)]
  /\ data \in [Slots -> 0..n] /\ inFlight \subseteq [slot : Slots, event : 1..n]

LEMMA PlacesGrow ==
  ASSUME NEW n \in Nat, Places(n)
  PROVE  Places(n + 1)
<1>1. 1..n \subseteq 1..(n + 1) /\ 0..n \subseteq 0..(n + 1)
  OBVIOUS
<1>2. \A S, T : S \subseteq T => Seq(S) \subseteq Seq(T)
  OBVIOUS
<1>3. Seq(1..n) \subseteq Seq(1..(n + 1))
  BY <1>1, <1>2
<1>4. [slot : Slots, event : 1..n] \subseteq [slot : Slots, event : 1..(n + 1)]
  BY <1>1
<1> QED
  BY <1>1, <1>3, <1>4 DEF Places

LEMMA SendTypes ==
  ASSUME TypeOK, NEW q \in Queues, NEW e \in 1..events, NEW ok \in BOOLEAN, SendTyped(q, e, ok)
  PROVE  /\ inUse' \in [Slots -> BOOLEAN] /\ data' \in [Slots -> 0..events] /\ next' \in Slots
         /\ inFlight' \subseteq [slot : Slots, event : 1..events]
         /\ dropped' \in [Reasons -> Nat] /\ sent' \in [Queues -> Seq(1..events)]
<1>1. dropped' \in [Reasons -> Nat] /\ sent' \in [Queues -> Seq(1..events)]
  <2>1. CASE sent' = sent /\ \E why \in {"topic", "buffer", "hwm"} : dropped' = [dropped EXCEPT ![why] = @ + 1]
    BY <2>1, CountsOnce, Zenon DEF TypeOK, Reasons
  <2>2. CASE dropped' = dropped /\ sent' = [sent EXCEPT ![q] = Append(@, e)]
    BY <2>2 DEF TypeOK
  <2> QED
    BY <2>1, <2>2, SendCounts, Zenon
<1>2. ASSUME Free # {}, Serialize(e) PROVE Acquire \in Slots /\ data' \in [Slots -> 0..events] /\ next' \in Slots
  <2>1. Acquire \in Slots
    BY <1>2, AcquireIsFree DEF Free, TypeOK
  <2>2. data' \in [Slots -> 0..events]
    BY <1>2, <2>1 DEF Serialize, TypeOK
  <2>3. next' \in Slots
    BY <1>2, <2>1, PubAssumption DEF Serialize, Slots
  <2> QED
    BY <2>1, <2>2, <2>3
<1>3. CASE UNCHANGED <<inUse, data, next, inFlight>>
  BY <1>1, <1>3, SMTT(30) DEF TypeOK
<1>4. CASE Free # {} /\ Serialize(e) /\ UNCHANGED <<inUse, inFlight>>
  BY <1>1, <1>2, <1>4, Zenon DEF TypeOK
<1>5. CASE /\ Free # {} /\ Serialize(e)
           /\ inUse' = [inUse EXCEPT ![Acquire] = TRUE]
           /\ inFlight' = inFlight \union {[slot |-> Acquire, event |-> e]}
  <2>1. [slot |-> Acquire, event |-> e] \in [slot : Slots, event : 1..events]
    BY <1>2, <1>5
  <2> QED
    BY <1>1, <1>2, <1>5, <2>1, Zenon DEF TypeOK
<1> QED
  BY <1>3, <1>4, <1>5 DEF SendTyped, Unsent

LEMMA HeadAndTail ==
  ASSUME TypeOK, NEW q \in Queues, queue[q] # <<>>
  PROVE  /\ Head(queue[q]) \in 1..events /\ Tail(queue[q]) \in Seq(1..events)
         /\ Len(Tail(queue[q])) <= QueueSize
<1> DEFINE s == queue[q]
<1>1. s \in Seq(1..events) /\ s # <<>> /\ Len(s) <= QueueSize
  BY DEF TypeOK
<1>2. QueueSize \in Nat
  BY PubAssumption
<1> HIDE DEF s
<1>3. /\ Head(s) \in 1..events /\ Tail(s) \in Seq(1..events)
      /\ Len(Tail(s)) = Len(s) - 1 /\ Len(s) \in Nat
  BY <1>1, HeadTailProperties, LenProperties, Zenon
<1>4. Len(Tail(s)) <= QueueSize
  BY <1>1, <1>2, <1>3
<1> QED
  BY <1>3, <1>4 DEF s

LEMMA TypeKept == TypeOK /\ RoundInv /\ [Next]_vars => TypeOK'
<1> SUFFICES ASSUME TypeOK, RoundInv, [Next]_vars PROVE TypeOK'
  OBVIOUS
<1>0. Places(events) /\ events \in Nat
  BY PubAssumption, SMTT(30) DEF Places, TypeOK
<1>1. ASSUME NEW q \in Queues, Publish(q) PROVE TypeOK'
  <2>1. /\ events' = events + 1 /\ events < MaxEvents
        /\ UNCHANGED <<poolVars, running, worker, turnVars, main, sent, stoppedEarly>>
    BY <1>1 DEF Publish
  <2>2. events' \in 0..MaxEvents /\ events' \in 1..events'
    BY <1>0, <2>1, PubAssumption DEF TypeOK
  <2>3. Places(events + 1)
    BY <1>0, PlacesGrow
  <2>4. /\ queue' \in [Queues -> Seq(1..events')] /\ dropped' \in [Reasons -> Nat]
        /\ \A r \in Queues : Len(queue'[r]) <= QueueSize
    <3>1. queue \in [Queues -> Seq(1..events')] /\ \A r \in Queues : Len(queue[r]) <= QueueSize
      BY <2>1, <2>3 DEF Places, TypeOK
    <3>2. CASE Len(queue[q]) < QueueSize
      <4>1. queue' = [queue EXCEPT ![q] = Append(@, events')] /\ UNCHANGED dropped
        BY <1>1, <3>2 DEF Publish
      <4>2. queue' \in [Queues -> Seq(1..events')]
        BY <2>2, <3>1, <4>1
      <4>3. Len(queue'[q]) = Len(queue[q]) + 1 /\ \A r \in Queues : r # q => queue'[r] = queue[r]
        BY <2>2, <3>1, <4>1
      <4>4. QueueSize \in Nat
        BY PubAssumption
      <4>5. Len(queue'[q]) <= QueueSize
        BY <3>1, <3>2, <4>2, <4>3, <4>4
      <4> QED
        BY <3>1, <4>1, <4>2, <4>3, <4>5, SMTT(30) DEF TypeOK
    <3>3. CASE ~(Len(queue[q]) < QueueSize)
      BY <1>1, <3>1, <3>3, CountsOnce DEF Publish, Reasons
    <3> QED
      BY <3>2, <3>3
  <2> QED
    BY <2>1, <2>2, <2>3, <2>4, Zenon DEF TypeOK, Places, poolVars, turnVars
<1>2. ASSUME NEW m \in inFlight, Release(m) PROVE TypeOK'
  BY <1>2 DEF Release, TypeOK, turnVars
<1>3. CASE TrySendOne
  <2> DEFINE q == (cursor + turn) % Total
  <2>1. /\ q \in Queues /\ turn' \in 0..Total /\ waited' \in [Queues -> Nat]
        /\ UNCHANGED <<running, worker, cursor, main, events, stoppedEarly>>
    <3>1. q \in Queues /\ turn \in 0..Total /\ turn < Total /\ turn' = turn + 1
      BY <1>3, TurnIsPosition DEF TrySendOne, TypeOK
    <3>2. waited' = [r \in Queues |-> IF r = q THEN 0 ELSE waited[r] + 1]
      BY <1>3 DEF TrySendOne
    <3>3. Total \in Nat
      BY PubAssumption DEF Total
    <3> HIDE DEF q
    <3>4. waited' \in [Queues -> Nat]
      BY <3>2 DEF TypeOK
    <3> QED
      BY <1>3, <3>1, <3>3, <3>4, SMTT(30) DEF TrySendOne
  <2>2. queue[q] # <<>> => \E ok \in BOOLEAN : /\ SendTyped(q, Head(queue[q]), ok)
                                               /\ queue' = [queue EXCEPT ![q] = Tail(@)]
                                               /\ anyWork' = (anyWork \/ ok)
    BY <1>3 DEF TrySendOne
  <2>3. queue[q] = <<>> => UNCHANGED <<queue, poolVars, anyWork, dropped, sent>>
    BY <1>3 DEF TrySendOne
  <2> HIDE DEF q
  <2>4. CASE queue[q] = <<>>
    BY <2>1, <2>3, <2>4, SMTT(30) DEF TypeOK, poolVars
  <2>5. CASE queue[q] # <<>>
    <3>1. PICK ok \in BOOLEAN : /\ SendTyped(q, Head(queue[q]), ok)
                                /\ queue' = [queue EXCEPT ![q] = Tail(@)]
                                /\ anyWork' = (anyWork \/ ok)
      BY <2>2, <2>5
    <3>2. queue \in [Queues -> Seq(1..events)] /\ \A r \in Queues : Len(queue[r]) <= QueueSize
      BY DEF TypeOK
    <3>3. Head(queue[q]) \in 1..events /\ Tail(queue[q]) \in Seq(1..events) /\ Len(Tail(queue[q])) <= QueueSize
      BY <2>1, <2>5, HeadAndTail
    <3>4. queue' \in [Queues -> Seq(1..events)] /\ \A r \in Queues : Len(queue'[r]) <= QueueSize
      BY <2>1, <3>1, <3>2, <3>3
    <3>5. anyWork' \in BOOLEAN
      BY <3>1
    <3>6. /\ inUse' \in [Slots -> BOOLEAN] /\ data' \in [Slots -> 0..events] /\ next' \in Slots
          /\ inFlight' \subseteq [slot : Slots, event : 1..events]
          /\ dropped' \in [Reasons -> Nat] /\ sent' \in [Queues -> Seq(1..events)]
      BY <2>1, <3>1, <3>3, SendTypes, SMTT(30)
    <3> QED
      BY <2>1, <3>4, <3>5, <3>6, Zenon DEF TypeOK
  <2> QED
    BY <2>4, <2>5
<1>4. CASE RunBegins
  BY <1>4 DEF RunBegins, TypeOK, poolVars, turnVars
<1>5. CASE TestRunning
  <2>1. 0 \in Queues
    BY PubAssumption DEF Queues, Total
  <2> QED
    BY <1>5, <2>1, SMTT(30) DEF TestRunning, TypeOK, poolVars
<1>6. CASE CycleEnds
  <2>1. Total \in Nat \ {0} /\ cursor \in 0..(Total - 1)
    BY PubAssumption, SMTT(30) DEF Total, Queues, TypeOK
  <2>2. cursor' \in Queues /\ 0 \in 0..Total
    BY <1>6, <2>1, SlotInRing DEF CycleEnds, Queues
  <2> QED
    BY <1>6, <2>2, Zenon DEF CycleEnds, TypeOK, poolVars
<1>7. CASE Stop
  BY <1>7, Zenon DEF Stop, TypeOK, poolVars, turnVars
<1>8. CASE Join
  BY <1>8, SMTT(30) DEF Join, TypeOK, poolVars, turnVars
<1>9. CASE UNCHANGED vars
  BY <1>9, SMTT(30) DEF TypeOK, vars, poolVars, turnVars
<1> QED
  BY <1>1, <1>2, <1>3, <1>4, <1>5, <1>6, <1>7, <1>8, <1>9 DEF Next, PubThread, Done

LEMMA DrainKept == TypeOK /\ RoundInv /\ DrainInv /\ [Next]_vars => DrainInv'
<1> SUFFICES ASSUME TypeOK, RoundInv, DrainInv, [Next]_vars PROVE DrainInv'
  OBVIOUS
<1>1. ASSUME NEW q \in Queues, Publish(q) PROVE DrainInv'
  BY <1>1 DEF Publish, DrainInv, TypeOK
<1>2. CASE TrySendOne
  <2> DEFINE q == (cursor + turn) % Total
  <2>1. /\ turn < Total /\ turn' = turn + 1 /\ worker \in {"loop", "drain"}
        /\ UNCHANGED <<running, worker, cursor, main, events>>
    BY <1>2 DEF TrySendOne
  <2>2. q \in Queues /\ \A r \in Queues : r = q <=> Position(r) = turn
    BY <2>1, TurnIsPosition DEF TypeOK
  <2>3. queue[q] # <<>> => \E ok \in BOOLEAN : /\ SendTyped(q, Head(queue[q]), ok)
                                               /\ queue' = [queue EXCEPT ![q] = Tail(@)]
                                               /\ anyWork' = (anyWork \/ ok)
    BY <1>2 DEF TrySendOne
  <2>4. queue[q] = <<>> => UNCHANGED <<queue, poolVars, anyWork, dropped, sent>>
    BY <1>2 DEF TrySendOne
  <2> HIDE DEF q
  <2>5. ASSUME worker = "drain", ~anyWork', Lost' = 0, NEW r \in Queues, Position(r) < turn'
        PROVE  queue'[r] = <<>>
    <3>1. queue[q] = <<>>
      <4> SUFFICES ASSUME queue[q] # <<>> PROVE FALSE
        OBVIOUS
      <4>1. PICK ok \in BOOLEAN : SendTyped(q, Head(queue[q]), ok) /\ anyWork' = (anyWork \/ ok)
        BY <2>3
      <4>2. ok = FALSE
        BY <2>5, <4>1
      <4>3. Head(queue[q]) \in 1..events
        BY <2>2, HeadAndTail
      <4>4. \E why \in {"topic", "buffer", "hwm"} : dropped' = [dropped EXCEPT ![why] = @ + 1]
        BY <2>2, <4>1, <4>2, <4>3, SendCounts, Zenon
      <4> QED
        BY <2>5, <4>4, CountsOnce, Zenon DEF Reasons
    <3>2. ~anyWork /\ Lost = 0 /\ queue' = queue
      BY <2>4, <2>5, <3>1 DEF Lost
    <3>3. Position(r) = turn \/ Position(r) < turn
      BY <2>1, <2>5, PositionIsTurn DEF TypeOK
    <3> QED
      BY <2>2, <2>5, <3>1, <3>2, <3>3 DEF DrainInv
  <2>6. \A r \in Queues : Position(r)' = Position(r)
    BY <2>1 DEF Position
  <2> QED
    BY <2>1, <2>5, <2>6 DEF DrainInv
<1>3. CASE TestRunning
  <2>1. turn' = 0 /\ \A r \in Queues : ~(Position(r)' < 0)
    <3>1. cursor' \in Queues /\ turn' = 0
      BY <1>3, PubAssumption DEF TestRunning, TypeOK, RoundInv, Queues, Total
    <3> QED
      BY <3>1, PositionAfter, SMTT(30)
  <2>2. /\ worker = "test" /\ UNCHANGED <<running, main, dropped>>
        /\ worker' = IF running THEN "loop" ELSE "drain"
    BY <1>3 DEF TestRunning
  <2> QED
    BY <2>1, <2>2 DEF DrainInv
<1>4. CASE CycleEnds
  <2>1. turn' = 0 /\ \A r \in Queues : ~(Position(r)' < 0)
    <3>0. Total \in Nat \ {0} /\ cursor \in 0..(Total - 1)
      BY PubAssumption, SMTT(30) DEF Total, Queues, TypeOK
    <3>1. cursor' \in Queues /\ turn' = 0
      BY <1>4, <3>0, SlotInRing DEF CycleEnds, Queues
    <3> QED
      BY <3>1, PositionAfter
  <2>2. /\ worker \in {"loop", "drain"} /\ UNCHANGED <<running, main, dropped, queue>> /\ turn = Total
        /\ worker' = IF worker = "loop" THEN "test" ELSE IF anyWork THEN "drain" ELSE "exited"
    BY <1>4 DEF CycleEnds
  <2>3. \A r \in Queues : Position(r) < turn
    BY <2>2, PositionIsTurn DEF TypeOK
  <2>4. Lost' = Lost
    BY <2>2 DEF Lost
  <2>5. worker' = "exited" => worker = "drain" /\ ~anyWork
    BY <2>2
  <2> QED
    BY <2>1, <2>2, <2>3, <2>4, <2>5 DEF DrainInv
<1>5. CASE RunBegins
  BY <1>5, SMTT(30) DEF RunBegins, DrainInv
<1>6. CASE Stop
  BY <1>6, SMTT(30) DEF Stop, DrainInv, Position, Lost, turnVars
<1>7. CASE UNCHANGED <<worker, running, anyWork, dropped, queue, cursor, turn>> /\ (main # "up" => main' # "up")
  BY <1>7 DEF DrainInv, Position, Lost
<1> QED
  BY <1>1, <1>2, <1>3, <1>4, <1>5, <1>6, <1>7
  DEF Next, PubThread, Release, Join, Done, vars, turnVars

-----------------------------------------------------------------------------
\* The inductive invariant of PubWorker.
THEOREM PubKeepsInv == Spec => []PubInv
<1>1. Init => PubInv
  <2> SUFFICES ASSUME Init PROVE PubInv
    OBVIOUS
  <2>1. TypeOK /\ BuffersIntact /\ DrainInv
    <3>1. 0 \in Queues /\ 0 \in Slots /\ 0 \in 0..Total /\ 0 \in 0..MaxEvents /\ QueueSize \in Nat
      BY PubAssumption DEF Queues, Total, Slots
    <3>2. <<>> \in Seq(1..0) /\ Len(<<>>) = 0 /\ 0 \in 0..0
      OBVIOUS
    <3>3. TypeOK
      BY <3>1, <3>2 DEF Init, TypeOK
    <3> QED
      BY <3>3 DEF Init, BuffersIntact, DrainInv
  <2>2. RoundInv
    <3>1. \A q \in Queues : Position(q) \in Nat
      BY <2>1, PositionIsTurn DEF TypeOK
    <3>2. Total \in Nat \ {0}
      BY PubAssumption DEF Total
    <3> QED
      BY <3>1, <3>2 DEF Init, RoundInv
  <2>3. Counted
    <3>1. Held \in [Queues -> Int] /\ \A q \in Queues : Held[q] = 0
      BY <2>1, HeldTyped DEF Init, Held
    <3>2. OverQueues(Held) = 0
      BY <3>1, OverQueuesEmpty
    <3> QED
      BY <3>2 DEF Init, Counted, Lost, Reasons
  <2> QED
    BY <2>1, <2>2, <2>3 DEF PubInv
<1>2. PubInv /\ [Next]_vars => PubInv'
  <2> SUFFICES ASSUME PubInv, [Next]_vars PROVE PubInv'
    OBVIOUS
  <2>1. TypeOK /\ TypeOK'
    BY TypeKept DEF PubInv
  <2>2. RoundInv' /\ Counted' /\ DrainInv'
    BY <2>1, RoundKept, CountedKept, DrainKept DEF PubInv
  <2>3. PoolInv
    BY DEF PubInv, PoolInv, PoolTypeOK, TypeOK
  <2>4. BuffersIntact'
    BY <2>3, PoolKept DEF PoolInv
  <2> QED
    BY <2>1, <2>2, <2>4 DEF PubInv
<1> QED
  BY <1>1, <1>2, PTL DEF Spec

\* BuffersIntact: a buffer ZeroMQ still holds keeps the event it was given, is
\* held by one message, and none stays taken without one.
THEOREM PoolKeepsBuffers == Spec => []BuffersIntact
<1>1. PubInv => BuffersIntact
  BY SMTT(30) DEF PubInv
<1> QED
  BY <1>1, PubKeepsInv, PTL

\* EveryEventAccounted: PubWorker loses no event without counting it, and
\* DrainAll leaves none behind unless a send failed.
THEOREM EventsAreAccounted == Spec => []EveryEventAccounted
<1>1. PubInv => EveryEventAccounted
  <2> SUFFICES ASSUME PubInv PROVE EveryEventAccounted
    OBVIOUS
  <2>1. TypeOK /\ Counted /\ DrainInv /\ OverQueues(Held) \in Int
    BY HeldTyped DEF PubInv
  <2>2. \A why \in Reasons : dropped[why] \in Nat
    BY <2>1 DEF TypeOK
  <2>3. events = OverQueues(Held) + dropped["queue"] + dropped["buffer"] + dropped["hwm"] + dropped["topic"]
    BY <2>1, <2>2 DEF Counted, Lost, Reasons
  <2> QED
    BY <2>1, <2>3 DEF EveryEventAccounted, DrainInv, Lost, Held
<1> QED
  BY <1>1, PubKeepsInv, PTL

\* FairRoundRobin: whatever the sends of the others come to, DispatchCycle
\* tries every queue again before two cycles have passed.
THEOREM RoundRobinIsFair == Spec => []FairRoundRobin
<1>1. PubInv => FairRoundRobin
  <2> SUFFICES ASSUME PubInv, NEW q \in Queues PROVE waited[q] <= 2 * Total - 2
    BY DEF FairRoundRobin
  <2>1. /\ Position(q) < turn => waited[q] + Position(q) + 1 <= turn
        /\ turn <= Position(q) => waited[q] < Total + turn
        /\ turn \in 0..Total /\ waited[q] \in Nat /\ cursor \in Queues
    BY DEF PubInv, RoundInv, TypeOK
  <2>2. Position(q) \in Nat /\ Position(q) < Total /\ Total \in Nat
    BY <2>1, PositionIsTurn
  <2>3. Total >= 2
    BY PubAssumption DEF Total
  <2> HIDE DEF Total
  <2> QED
    BY <2>1, <2>2, <2>3
<1> QED
  BY <1>1, PubKeepsInv, PTL
=============================================================================
