-------------------------- MODULE DolphinDBBackend --------------------------
(***************************************************************************)
(* The DolphinDB storage backend: parser threads that insert rows, the     *)
(* degrade, reconnect, retry and fallback sequence they share, the three   *)
(* MultithreadedTableWriters (MTW) of the client, and the main thread's    *)
(* FlushAndClose once the parser threads have been joined.                 *)
(*                                                                         *)
(* Trades are collected in a double buffer and inserted in batches; order  *)
(* books and book tickers go straight to their writer and behave alike, so *)
(* one table stands for both.  A row is a name.  A writer holds the rows   *)
(* it has queued; its own thread sends them as a block, and a block that   *)
(* fails is lost and puts the writer in error.  The three writers exist    *)
(* exactly while connected_ is set, except inside Reconnect and Disconnect *)
(* which nobody can observe.                                               *)
(***************************************************************************)
EXTENDS Integers, Sequences

CONSTANTS
  Threads,         \* parser threads
  Ticks, Books,    \* rows for InsertTick; rows for InsertOrderbook and InsertBookTicker
  BadRows,         \* rows whose exchange_timestamp is not valid
  BufferSize,      \* buffer_size_
  MaxSpin,         \* kReconnectMaxSpin
  MaxOutages       \* bound: times the server goes down

ASSUME DisjointAssumption == Ticks \cap Books = {} /\ BadRows \subseteq Ticks \cup Books
ASSUME BufferSizeAssumption == BufferSize \in Nat \ {0}
ASSUME BoundsAssumption == MaxSpin \in Nat /\ MaxOutages \in Nat

Rows == Ticks \cup Books
Tables == {"trades", "books"}
Main == "main"
Actors == Threads \cup {Main}
None == "none"

\* The main thread is no parser thread.
ASSUME ThreadsAssumption == Threads \cap {Main, None} = {}

VARIABLES
  serverUp, outages,             \* the database server
  connected,                     \* connected_, and the existence of the writers
  queued, failed,                \* per writer: rows not yet sent; hasError_
  stored, lost,                  \* rows in the database; rows a writer gave up
  degraded, reconnecting,        \* degraded_, reconnecting_
  sharers, owner,                \* who holds dolphindb_mtx_, shared and exclusive
  buffers, active,               \* tick_buffer_a_ and tick_buffer_b_; active_buffer_
  pc, batch, done, phase, spins, \* per actor: its call of InsertWithFallback
  fallback,                      \* fallback_ exists
  mainPc,                        \* the main thread's place in FlushAndClose
  shutdown,                      \* SignalHandler::IsShutdownRequested()
  arrived,                       \* history: rows given to an Insert function
  copies, fallen,                \* history: times a row entered a writer; the fallback
  trouble                        \* history: a connection attempt failed

serverVars == <<serverUp, outages>>
writerVars == <<queued, failed, stored, lost>>
lockVars == <<sharers, owner>>
bufferVars == <<buffers, active>>
callVars == <<pc, batch, done, phase, spins>>
histories == <<arrived, copies, fallen, trouble>>
vars == <<serverVars, connected, writerVars, degraded, reconnecting, lockVars, bufferVars,
          callVars, fallback, mainPc, shutdown, histories>>

Range(f) == {f[x] : x \in DOMAIN f}

\* The writer that takes the rows of a batch.
TableOf(rows) == IF Range(rows) \subseteq Ticks THEN "trades" ELSE "books"

\* retry_after_reconnect: true for order books and tickers, false for trades.
RetriesTrades(rows) == TRUE
Retries(rows) == TableOf(rows) = "books"

IsValidExchangeTimestamp(r) == r \notin BadRows

\* Configure: the first Connect may fail; degraded_ is left false either way.
Init ==
  /\ serverUp = TRUE /\ outages = 0
  /\ connected \in BOOLEAN
  /\ queued = [tb \in Tables |-> {}] /\ failed = [tb \in Tables |-> FALSE]
  /\ stored = {} /\ lost = {}
  /\ degraded = FALSE /\ reconnecting = FALSE
  /\ sharers = {} /\ owner = None
  /\ buffers = [i \in 0..1 |-> << >>] /\ active = 0
  /\ pc = [a \in Actors |-> "idle"]
  /\ batch = [a \in Actors |-> << >>]
  /\ done = [a \in Actors |-> 0]
  /\ phase = [a \in Actors |-> 1]
  /\ spins = [a \in Actors |-> 0]
  /\ fallback = FALSE
  /\ mainPc = "running"
  /\ shutdown = FALSE
  /\ arrived = {}
  /\ copies = [r \in Rows |-> 0] /\ fallen = [r \in Rows |-> 0]
  /\ trouble = ~connected

-----------------------------------------------------------------------------
(* The server and the writers' own threads *)

ServerDown ==
  /\ serverUp /\ outages < MaxOutages
  /\ serverUp' = FALSE /\ outages' = outages + 1
  /\ UNCHANGED <<connected, writerVars, degraded, reconnecting, lockVars, bufferVars,
                 callVars, fallback, mainPc, shutdown, histories>>

ServerBack ==
  /\ ~serverUp
  /\ serverUp' = TRUE
  /\ UNCHANGED <<outages, connected, writerVars, degraded, reconnecting, lockVars, bufferVars,
                 callVars, fallback, mainPc, shutdown, histories>>

\* The writer's thread takes the rows queued so far and runs the insertion
\* script; a failure keeps the rows out of the database and stops the writer.
WriterSend(tb) ==
  /\ connected /\ queued[tb] # {} /\ ~failed[tb]
  /\ queued' = [queued EXCEPT ![tb] = {}]
  /\ \/ serverUp /\ stored' = stored \cup queued[tb] /\ UNCHANGED <<failed, lost>>
     \/ ~serverUp /\ lost' = lost \cup queued[tb]
        /\ failed' = [failed EXCEPT ![tb] = TRUE] /\ UNCHANGED stored
  /\ UNCHANGED <<serverVars, connected, degraded, reconnecting, lockVars, bufferVars,
                 callVars, fallback, mainPc, shutdown, histories>>

\* waitForThreadCompletion has returned on every writer: nothing is queued,
\* or the writer is in error and sends no more.
Drained == \A tb \in Tables : queued[tb] = {} \/ failed[tb]

\* Destroying the writers deletes what an errored one still has queued.
DestroyWriters ==
  /\ Drained
  /\ lost' = lost \cup UNION Range(queued)
  /\ queued' = [tb \in Tables |-> {}]
  /\ failed' = [tb \in Tables |-> FALSE]
  /\ connected' = FALSE
  /\ UNCHANGED stored

-----------------------------------------------------------------------------
(* Entering InsertWithFallback, and leaving it *)

\* Actor a starts InsertWithFallback on rows.
Enter(a, rows) ==
  /\ pc' = [pc EXCEPT ![a] = "phase1"]
  /\ batch' = [batch EXCEPT ![a] = rows]
  /\ phase' = [phase EXCEPT ![a] = 1]
  /\ UNCHANGED <<done, spins>>

Goto(a, label) ==
  /\ pc' = [pc EXCEPT ![a] = label]
  /\ UNCHANGED <<batch, done, phase, spins>>

Return(a) ==
  /\ pc' = [pc EXCEPT ![a] = "idle"]
  /\ batch' = [batch EXCEPT ![a] = << >>]
  /\ done' = [done EXCEPT ![a] = 0]
  /\ phase' = [phase EXCEPT ![a] = 1]
  /\ spins' = [spins EXCEPT ![a] = 0]

\* The loop of FlushBuffer: trades with an invalid timestamp are dropped;
\* kept[n] is valid_batch after the first n.
ValidBatch(rows) ==
  LET kept[n \in 0..Len(rows)] ==
        IF n = 0 THEN << >>
        ELSE IF IsValidExchangeTimestamp(rows[n]) THEN Append(kept[n - 1], rows[n])
        ELSE kept[n - 1]
  IN  kept[Len(rows)]

\* FlushBuffer: nothing more happens when no valid trade is left.
FlushBuffer(a, rows) ==
  LET valid == ValidBatch(rows)
  IN IF valid = << >> THEN UNCHANGED callVars ELSE Enter(a, valid)

\* threshold_reached || time_elapsed.
FlushDue(rows, elapsed) == Len(rows) >= BufferSize \/ elapsed

\* InsertTick: push into the active buffer; when it is full, or the flush
\* interval has elapsed, take it out, flip the buffers and flush outside the
\* lock.
InsertTick(t, r, elapsed) ==
  /\ pc[t] = "idle" /\ r \in Ticks \ arrived
  /\ arrived' = arrived \cup {r}
  /\ LET rows == Append(buffers[active], r)
     IN IF FlushDue(rows, elapsed)
        THEN /\ buffers' = [buffers EXCEPT ![active] = << >>]
             /\ active' = 1 - active
             /\ FlushBuffer(t, rows)
        ELSE /\ buffers' = [buffers EXCEPT ![active] = rows]
             /\ UNCHANGED <<active, callVars>>
  /\ UNCHANGED <<serverVars, connected, writerVars, degraded, reconnecting, lockVars,
                 fallback, mainPc, shutdown, copies, fallen, trouble>>

\* InsertOrderbook and InsertBookTicker: an invalid timestamp is dropped at once.
InsertBook(t, r) ==
  /\ pc[t] = "idle" /\ r \in Books \ arrived
  /\ arrived' = arrived \cup {r}
  /\ IF IsValidExchangeTimestamp(r) THEN Enter(t, <<r>>) ELSE UNCHANGED callVars
  /\ UNCHANGED <<serverVars, connected, writerVars, degraded, reconnecting, lockVars, bufferVars,
                 fallback, mainPc, shutdown, copies, fallen, trouble>>

-----------------------------------------------------------------------------
(* InsertWithFallback *)

\* Phase 1, and the retry of phase 2: the shared lock, and the degraded flag
\* read under it.  A degraded backend goes on to reconnect the first time and
\* to the fallback the second.
OnFailure(a) == IF phase[a] = 1 THEN "reconnect" ELSE "fallback"

TakeShared(a) ==
  /\ pc[a] \in {"phase1", "retry"}
  /\ owner = None
  /\ phase' = [phase EXCEPT ![a] = IF pc[a] = "phase1" THEN 1 ELSE 2]
  /\ IF degraded
     THEN /\ pc' = [pc EXCEPT ![a] = IF pc[a] = "phase1" THEN "reconnect" ELSE "fallback"]
          /\ UNCHANGED sharers
     ELSE /\ pc' = [pc EXCEPT ![a] = "insert"]
          /\ sharers' = sharers \cup {a}
  /\ done' = [done EXCEPT ![a] = 0]
  /\ UNCHANGED <<serverVars, connected, writerVars, degraded, reconnecting, owner, bufferVars,
                 batch, spins, fallback, mainPc, shutdown, histories>>

\* One row of TableInsertTrades, TableInsertOrderbook or TableInsertBookTicker
\* is accepted by the writer; after the last one the function returns true.
InsertRowSkipsLast(a) ==
  LET tb == TableOf(batch[a])
      n == done[a] + 1
  IN /\ pc[a] = "insert" /\ connected /\ ~failed[tb]
     /\ queued' = [queued EXCEPT ![tb] = @ \cup {batch[a][n]}]
     /\ copies' = [copies EXCEPT ![batch[a][n]] = @ + 1]
     /\ IF n >= Len(batch[a]) - 1
        THEN sharers' = sharers \ {a} /\ Return(a)
        ELSE /\ done' = [done EXCEPT ![a] = n]
             /\ UNCHANGED <<sharers, pc, batch, phase, spins>>
     /\ UNCHANGED <<serverVars, connected, failed, stored, lost, degraded, reconnecting, owner,
                    bufferVars, fallback, mainPc, shutdown, arrived, fallen, trouble>>
InsertRow(a) ==
  LET tb == TableOf(batch[a])
      n == done[a] + 1
  IN /\ pc[a] = "insert" /\ connected /\ ~failed[tb]
     /\ queued' = [queued EXCEPT ![tb] = @ \cup {batch[a][n]}]
     /\ copies' = [copies EXCEPT ![batch[a][n]] = @ + 1]
     /\ IF n = Len(batch[a])
        THEN sharers' = sharers \ {a} /\ Return(a)
        ELSE /\ done' = [done EXCEPT ![a] = n]
             /\ UNCHANGED <<sharers, pc, batch, phase, spins>>
     /\ UNCHANGED <<serverVars, connected, failed, stored, lost, degraded, reconnecting, owner,
                    bufferVars, fallback, mainPc, shutdown, arrived, fallen, trouble>>

\* Not connected, or the writer is in error: the function returns false, with
\* the rows before this one queued, and the backend is degraded under the lock.
InsertFailsKeepsLock(a) ==
  /\ pc[a] = "insert"
  /\ ~connected \/ failed[TableOf(batch[a])]
  /\ degraded' = TRUE
  /\ Goto(a, OnFailure(a))
  /\ UNCHANGED <<serverVars, connected, writerVars, reconnecting, sharers, owner, bufferVars,
                 fallback, mainPc, shutdown, histories>>
InsertFails(a) ==
  /\ pc[a] = "insert"
  /\ ~connected \/ failed[TableOf(batch[a])]
  /\ degraded' = TRUE
  /\ sharers' = sharers \ {a}
  /\ Goto(a, OnFailure(a))
  /\ UNCHANGED <<serverVars, connected, writerVars, reconnecting, owner, bufferVars,
                 fallback, mainPc, shutdown, histories>>

\* What InsertWithFallback does with the result of TryReconnect.
AfterReconnect(a, ok) == IF ok /\ Retries(batch[a]) THEN "retry" ELSE "fallback"

\* TryReconnect: the compare-and-swap on reconnecting_.
TryReconnect(a) ==
  /\ pc[a] = "reconnect"
  /\ reconnecting' = TRUE
  /\ Goto(a, IF reconnecting THEN "spin" ELSE "lock")
  /\ UNCHANGED <<serverVars, connected, writerVars, degraded, lockVars, bufferVars,
                 fallback, mainPc, shutdown, histories>>

\* The losers wait for the winner, until shutdown, or MaxSpin times.
SpinWait(a) ==
  /\ pc[a] = "spin"
  /\ IF ~reconnecting THEN Goto(a, AfterReconnect(a, ~degraded))
     ELSE IF shutdown \/ spins[a] + 1 > MaxSpin THEN Goto(a, AfterReconnect(a, FALSE))
     ELSE spins' = [spins EXCEPT ![a] = @ + 1] /\ UNCHANGED <<pc, batch, done, phase>>
  /\ UNCHANGED <<serverVars, connected, writerVars, degraded, reconnecting, lockVars, bufferVars,
                 fallback, mainPc, shutdown, histories>>

\* The winner takes the lock exclusively.
TakeExclusiveIgnoresSharers(a) ==
  /\ pc[a] = "lock"
  /\ owner = None
  /\ owner' = a
  /\ Goto(a, "destroy")
  /\ UNCHANGED <<serverVars, connected, writerVars, degraded, reconnecting, sharers, bufferVars,
                 fallback, mainPc, shutdown, histories>>
TakeExclusive(a) ==
  /\ pc[a] = "lock"
  /\ owner = None /\ sharers = {}
  /\ owner' = a
  /\ Goto(a, "destroy")
  /\ UNCHANGED <<serverVars, connected, writerVars, degraded, reconnecting, sharers, bufferVars,
                 fallback, mainPc, shutdown, histories>>

\* Reconnect, first half: drain and destroy the writers, close the connection.
ReconnectDestroy(a) ==
  /\ pc[a] = "destroy"
  /\ DestroyWriters
  /\ Goto(a, "connect")
  /\ UNCHANGED <<serverVars, degraded, reconnecting, lockVars, bufferVars,
                 fallback, mainPc, shutdown, histories>>

\* Second half: connect, log in, create what the schema lacks and open the
\* writers.  It can fail with the server up, and does with the server down.
\* TryReconnect then clears degraded_ on success, and reconnecting_ always,
\* before its lock is released.
ReconnectConnectLeavesGate(a, ok) ==
  /\ pc[a] = "connect"
  /\ ok => serverUp
  /\ connected' = ok
  /\ degraded' = (degraded /\ ~ok)
  /\ reconnecting' = ~ok
  /\ trouble' = (trouble \/ ~ok)
  /\ Goto(a, IF ok THEN "unlockOk" ELSE "unlockFailed")
  /\ UNCHANGED <<serverVars, writerVars, lockVars, bufferVars,
                 fallback, mainPc, shutdown, arrived, copies, fallen>>
ReconnectConnect(a, ok) ==
  /\ pc[a] = "connect"
  /\ ok => serverUp
  /\ connected' = ok
  /\ degraded' = (degraded /\ ~ok)
  /\ reconnecting' = FALSE
  /\ trouble' = (trouble \/ ~ok)
  /\ Goto(a, IF ok THEN "unlockOk" ELSE "unlockFailed")
  /\ UNCHANGED <<serverVars, writerVars, lockVars, bufferVars,
                 fallback, mainPc, shutdown, arrived, copies, fallen>>

ReconnectUnlock(a) ==
  /\ pc[a] \in {"unlockOk", "unlockFailed"}
  /\ owner' = None
  /\ Goto(a, AfterReconnect(a, pc[a] = "unlockOk"))
  /\ UNCHANGED <<serverVars, connected, writerVars, degraded, reconnecting, sharers, bufferVars,
                 fallback, mainPc, shutdown, histories>>

\* Phase 3: the whole batch goes to the mmap fallback, created on first use.
WriteFallback(a) ==
  /\ pc[a] = "fallback"
  /\ fallback' = TRUE
  /\ fallen' = [r \in Rows |-> fallen[r] + IF r \in Range(batch[a]) THEN 1 ELSE 0]
  /\ Return(a)
  /\ UNCHANGED <<serverVars, connected, writerVars, degraded, reconnecting, lockVars, bufferVars,
                 mainPc, shutdown, arrived, copies, trouble>>

-----------------------------------------------------------------------------
(* Shutdown *)

RequestShutdown ==
  /\ ~shutdown
  /\ shutdown' = TRUE
  /\ UNCHANGED <<serverVars, connected, writerVars, degraded, reconnecting, lockVars, bufferVars,
                 callVars, fallback, mainPc, histories>>

\* A parser thread that is between two calls ends, and is joined.
EndThread(t) ==
  /\ shutdown /\ pc[t] = "idle"
  /\ Goto(t, "ended")
  /\ UNCHANGED <<serverVars, connected, writerVars, degraded, reconnecting, lockVars, bufferVars,
                 fallback, mainPc, shutdown, histories>>

\* FlushAndClose, after the joins: it flushes what it moved out of the first
\* buffer, then of the second (each is flushed as soon as it is taken here:
\* no other thread is left), closes the fallback and disconnects.
FlushBufferA ==
  /\ mainPc = "running" /\ \A t \in Threads : pc[t] = "ended"
  /\ mainPc' = "flushedA"
  /\ buffers' = [buffers EXCEPT ![0] = << >>]
  /\ FlushBuffer(Main, buffers[0])
  /\ UNCHANGED <<serverVars, connected, writerVars, degraded, reconnecting, lockVars, active,
                 fallback, shutdown, histories>>

FlushBufferB ==
  /\ mainPc = "flushedA" /\ pc[Main] = "idle"
  /\ mainPc' = "flushedB"
  /\ buffers' = [buffers EXCEPT ![1] = << >>]
  /\ FlushBuffer(Main, buffers[1])
  /\ UNCHANGED <<serverVars, connected, writerVars, degraded, reconnecting, lockVars, active,
                 fallback, shutdown, histories>>

CloseFallback ==
  /\ mainPc = "flushedB" /\ pc[Main] = "idle"
  /\ mainPc' = "closed"
  /\ fallback' = FALSE
  /\ UNCHANGED <<serverVars, connected, writerVars, degraded, reconnecting, lockVars, bufferVars,
                 callVars, shutdown, histories>>

\* Disconnect asks for no drain, but destroying a writer drains it all the same.
Disconnect ==
  /\ mainPc = "closed"
  /\ mainPc' = "done"
  /\ DestroyWriters
  /\ UNCHANGED <<serverVars, degraded, reconnecting, lockVars, bufferVars,
                 callVars, fallback, shutdown, histories>>

Finished == mainPc = "done" /\ UNCHANGED vars

-----------------------------------------------------------------------------
Call(a) ==
  \/ TakeShared(a) \/ InsertRow(a) \/ InsertFails(a) \/ TryReconnect(a) \/ SpinWait(a)
  \/ TakeExclusive(a) \/ ReconnectDestroy(a)
  \/ \E ok \in BOOLEAN : ReconnectConnect(a, ok)
  \/ ReconnectUnlock(a) \/ WriteFallback(a)

FlushAndClose == FlushBufferA \/ FlushBufferB \/ CloseFallback \/ Disconnect

Next ==
  \/ ServerDown \/ ServerBack
  \/ \E tb \in Tables : WriterSend(tb)
  \/ \E t \in Threads, r \in Rows :
       (\E elapsed \in BOOLEAN : InsertTick(t, r, elapsed)) \/ InsertBook(t, r)
  \/ \E a \in Actors : Call(a)
  \/ RequestShutdown
  \/ \E t \in Threads : EndThread(t)
  \/ FlushAndClose
  \/ Finished

Spec == Init /\ [][Next]_vars

\* Every thread that can go on does, the writers' threads too, and a thread that
\* may end after the shutdown request does not idle for ever.  Nothing is assumed
\* of the server, of new rows or of the request itself.
Fairness ==
  /\ \A a \in Actors : WF_vars(Call(a))
  /\ \A tb \in Tables : WF_vars(WriterSend(tb))
  /\ \A t \in Threads : WF_vars(EndThread(t))
  /\ WF_vars(FlushAndClose)

FairSpec == Spec /\ Fairness

-----------------------------------------------------------------------------
(* Properties *)

Labels == {"idle", "phase1", "insert", "reconnect", "spin", "lock", "destroy", "connect",
           "unlockOk", "unlockFailed", "retry", "fallback", "ended"}

\* Types of the state, and what the two mutexes protect: no two exclusive
\* owners, and the buffer that is not active is always empty.
TypeOK ==
  /\ serverUp \in BOOLEAN /\ outages \in 0..MaxOutages
  /\ connected \in BOOLEAN /\ degraded \in BOOLEAN /\ reconnecting \in BOOLEAN
  /\ queued \in [Tables -> SUBSET Rows] /\ failed \in [Tables -> BOOLEAN]
  /\ stored \subseteq Rows /\ lost \subseteq Rows
  /\ sharers \subseteq Actors /\ owner \in Actors \cup {None}
  /\ buffers \in [0..1 -> Seq(Ticks)] /\ active \in 0..1
  /\ Len(buffers[active]) < BufferSize /\ buffers[1 - active] = << >>
  /\ pc \in [Actors -> Labels] /\ batch \in [Actors -> Seq(Rows)]
  /\ done \in [Actors -> Nat] /\ \A a \in Actors : done[a] <= Len(batch[a])
  /\ phase \in [Actors -> 1..2] /\ spins \in [Actors -> 0..MaxSpin]
  /\ fallback \in BOOLEAN /\ shutdown \in BOOLEAN
  /\ mainPc \in {"running", "flushedA", "flushedB", "closed", "done"}
  /\ arrived \subseteq Rows /\ trouble \in BOOLEAN
  /\ copies \in [Rows -> Nat] /\ fallen \in [Rows -> Nat]

\* A row an Insert function was given is never forgotten: until it is dropped
\* for its timestamp it is in a buffer, in the batch of a running call, in a
\* writer, in the database, in the fallback, or in a block a writer gave up.
RowsAccounted ==
  TypeOK /\ \A r \in arrived \ BadRows :
    \/ \E i \in 0..1 : r \in Range(buffers[i])
    \/ \E a \in Actors : r \in Range(batch[a])
    \/ \E tb \in Tables : r \in queued[tb]
    \/ r \in stored \cup lost \/ fallen[r] > 0

\* Every row is accounted for, and no store is given it twice: the writers not, whatever reconnects happen
\* between the attempts, and the fallback not.  InsertWithFallback must not
\* retry a batch of trades, part of which the old writer may have sent.  An order
\* book or book ticker, which it does retry, goes to one store only: to the
\* database or to the fallback.
RowsAccountedOnce ==
  /\ RowsAccounted
  /\ \A r \in Rows : copies[r] <= 1 /\ fallen[r] <= 1
  /\ \A r \in Books : copies[r] + fallen[r] <= 1

\* The writers outlive every insertion that has begun on them: a reconnecting
\* thread never destroys them under a thread that holds the shared lock.
WritersOutliveInsert ==
  \A a \in Actors : pc[a] = "insert" => owner = None /\ (done[a] > 0 => connected)

\* A run in which the server stayed up and every connection attempt succeeded
\* ends with every valid row in the database and none in the fallback.
CleanRunStoresAll ==
  mainPc = "done" /\ outages = 0 /\ ~trouble =>
    stored = arrived \ BadRows /\ \A r \in Rows : fallen[r] = 0

\* The gate of TryReconnect opens again after every attempt, so that one failed
\* attempt does not leave the backend on the fallback for good.
ReconnectEnds == reconnecting ~> ~reconnecting

\* Once shutdown is requested every running call returns, whatever the server
\* and the other threads do, and FlushAndClose is reached and ends.
ShutdownCloses == shutdown ~> mainPc = "done"
=============================================================================
