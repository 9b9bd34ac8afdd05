----------------------- MODULE DolphinDBBackendProofs -----------------------
(***************************************************************************)
(* No row is forgotten or given to a store twice, the writers outlive the  *)
(* insertions that use them, and a run without trouble stores every valid  *)
(* row, for every number of parser threads, rows, buffer size and outages. *)
(***************************************************************************)
EXTENDS DolphinDBBackend, RingLemmas

Exclusive == {"destroy", "connect", "unlockOk", "unlockFailed"}
Resting == {"idle", "ended"}

\* Who holds dolphindb_mtx_.
Locking ==
  /\ \A a \in Actors : a \in sharers <=> pc[a] = "insert"
  /\ \A a \in Actors : owner = a <=> pc[a] \in Exclusive
  /\ owner # None => sharers = {}

\* FlushAndClose runs after the joins, one call at a time.
Closing ==
  /\ mainPc # "running" => buffers[0] = << >> /\ \A t \in Threads : pc[t] = "ended"
  /\ mainPc \notin {"running", "flushedA"} => buffers[1] = << >>
  /\ mainPc \notin {"flushedA", "flushedB"} => pc[Main] = "idle"
  /\ mainPc = "done" => \A tb \in Tables : queued[tb] = {}

\* What a call of InsertWithFallback holds: valid rows, all of them trades or a
\* single book.
Batches ==
  \A a \in Actors :
    /\ pc[a] \in Resting <=> batch[a] = << >>
    /\ \A n \in 1..Len(batch[a]) : batch[a][n] \in arrived \ BadRows
    /\ (\A n \in 1..Len(batch[a]) : batch[a][n] \in Ticks)
         \/ (Len(batch[a]) = 1 /\ batch[a][1] \in Books)
    /\ pc[a] = "insert" => done[a] < Len(batch[a]) /\ (done[a] > 0 => connected)
    /\ pc[a] = "retry" => batch[a][1] \in Books

\* A row is in one place of one buffer or of one batch.
OnePlace ==
  /\ \A i \in 0..1 : \A n \in 1..Len(buffers[i]) :
       /\ buffers[i][n] \in arrived
       /\ \A m \in 1..Len(buffers[i]) : buffers[i][m] = buffers[i][n] => m = n
       /\ \A a \in Actors : \A m \in 1..Len(batch[a]) : batch[a][m] # buffers[i][n]
  /\ \A a, b \in Actors : \A n \in 1..Len(batch[a]), m \in 1..Len(batch[b]) :
       batch[a][n] = batch[b][m] => a = b /\ n = m

\* A row of a batch has not been given to a writer, except the first rows of a
\* batch of trades; such a batch is never retried.
Copied ==
  /\ \A r \in Rows : copies[r] <= 1 /\ fallen[r] <= 1
  /\ \A r \in Books : copies[r] + fallen[r] <= 1
  /\ \A r \in Rows \ arrived : copies[r] = 0 /\ fallen[r] = 0
  /\ \A i \in 0..1 : \A n \in 1..Len(buffers[i]) : copies[buffers[i][n]] = 0 /\ fallen[buffers[i][n]] = 0
  /\ \A a \in Actors : \A n \in 1..Len(batch[a]) :
       /\ fallen[batch[a][n]] = 0
       /\ batch[a][n] \in Books \/ pc[a] = "phase1" \/ (pc[a] = "insert" /\ n > done[a])
            => copies[batch[a][n]] = 0
       /\ pc[a] = "insert" /\ n <= done[a] => copies[batch[a][n]] = 1

\* What a writer was given it has queued, has sent or has given up.
Handed(r) == r \in stored \cup lost \/ \E tb \in Tables : r \in queued[tb]
Given ==
  /\ \A r \in Rows : copies[r] = 1 => Handed(r)
  /\ \A r \in Rows : Handed(r) => r \in arrived \ BadRows

\* The server has stayed up and every connection attempt has succeeded.
Clean == outages = 0 /\ ~trouble
CleanSoFar ==
  Clean =>
    /\ serverUp /\ ~degraded /\ lost = {}
    /\ connected \/ mainPc = "done"
    /\ \A tb \in Tables : ~failed[tb]
    /\ \A a \in Actors : pc[a] \in {"idle", "phase1", "insert", "ended"}
    /\ \A r \in Rows : fallen[r] = 0

BackendInv ==
  RowsAccounted /\ Locking /\ Closing /\ Batches /\ OnePlace /\ Copied /\ Given /\ CleanSoFar

-----------------------------------------------------------------------------
\* What the loop of FlushBuffer keeps: valid rows of the buffer, every one of
\* them, and each in one place if it was in one place.
Selection(kept, rows, n) ==
  /\ kept \in Seq(Ticks)
  /\ \A k \in 1..Len(kept) : \E m \in 1..n : kept[k] = rows[m] /\ rows[m] \notin BadRows
  /\ \A m \in 1..n : rows[m] \notin BadRows => \E k \in 1..Len(kept) : kept[k] = rows[m]
  /\ (\A l, m \in 1..Len(rows) : rows[l] = rows[m] => l = m)
       => \A k, j \in 1..Len(kept) : kept[k] = kept[j] => k = j

LEMMA SelectionGrows ==
  ASSUME NEW rows \in Seq(Ticks), NEW n \in 1..Len(rows), NEW kept, Selection(kept, rows, n - 1)
  PROVE  Selection(IF rows[n] \notin BadRows THEN Append(kept, rows[n]) ELSE kept, rows, n)
<1>1. /\ n \in Nat /\ n - 1 \in Nat /\ rows[n] \in Ticks /\ kept \in Seq(Ticks)
      /\ 1..n = (1..(n - 1)) \cup {n} /\ n \notin 1..(n - 1)
  BY DEF Selection
<1>2. CASE rows[n] \in BadRows
  BY <1>1, <1>2, Zenon DEF Selection
<1>3. CASE rows[n] \notin BadRows
  <2> DEFINE t == Append(kept, rows[n])
             L == Len(kept)
  <2>1. /\ t \in Seq(Ticks) /\ L \in Nat /\ Len(t) = L + 1 /\ t[L + 1] = rows[n]
        /\ \A k \in 1..L : t[k] = kept[k]
        /\ 1..(L + 1) = (1..L) \cup {L + 1}
    BY <1>1
  <2> HIDE DEF t
  <2>2. ASSUME NEW k \in 1..Len(t) PROVE \E m \in 1..n : t[k] = rows[m] /\ rows[m] \notin BadRows
    <3>1. CASE k = L + 1
      BY <1>1, <1>3, <2>1, <3>1
    <3>2. CASE k \in 1..L
      <4>1. PICK m \in 1..(n - 1) : kept[k] = rows[m] /\ rows[m] \notin BadRows
        BY <3>2 DEF Selection
      <4> QED
        BY <1>1, <2>1, <3>2, <4>1
    <3> QED
      BY <2>1, <3>1, <3>2
  <2>3. \A m \in 1..n : rows[m] \notin BadRows => \E k \in 1..Len(t) : t[k] = rows[m]
    BY <1>1, <1>3, <2>1 DEF Selection
  <2>4. ASSUME \A l, m \in 1..Len(rows) : rows[l] = rows[m] => l = m,
               NEW k \in 1..Len(t), NEW j \in 1..Len(t), t[k] = t[j]
        PROVE  k = j
    <3>1. ASSUME NEW i \in 1..L PROVE kept[i] # rows[n]
      <4>1. PICK m \in 1..(n - 1) : kept[i] = rows[m]
        BY <3>1 DEF Selection
      <4> QED
        BY <1>1, <2>4, <4>1
    <3> QED
      BY <2>1, <2>4, <3>1, SMTT(30) DEF Selection
  <2> QED
    BY <1>3, <2>1, <2>2, <2>3, <2>4, Zenon DEF Selection, t
<1> QED
  BY <1>2, <1>3

LEMMA ValidBatchSelects ==
  ASSUME NEW rows \in Seq(Ticks)
  PROVE  Selection(ValidBatch(rows), rows, Len(rows))
<1> DEFINE N == Len(rows)
           X == Seq(Ticks)
           Taken(n, x) == IF rows[n] \notin BadRows THEN Append(x, rows[n]) ELSE x
           kept[n \in 0..N] ==
             IF n = 0 THEN << >>
             ELSE IF rows[n] \notin BadRows THEN Append(kept[n - 1], rows[n]) ELSE kept[n - 1]
           Follows(f) == f = [n \in 0..N |-> IF n = 0 THEN << >> ELSE Taken(n, f[n - 1])]
           step == [p \in (1..N) \X X |-> Taken(p[1], p[2])]
<1>1. N \in Nat /\ << >> \in X
  OBVIOUS
<1>2. step \in Steps(N, X)
  BY <1>1 DEF Steps
<1>3. \A n \in 1..N, x \in X : step[<<n, x>>] = Taken(n, x)
  OBVIOUS
<1> HIDE DEF N, step, X
<1>4. PICK f : Takes(f, N, X, << >>, step)
  BY <1>1, <1>2, Recursion
<1>5. Follows(f)
  <2>1. ASSUME NEW n \in 0..N, n # 0 PROVE f[n] = Taken(n, f[n - 1])
    <3>1. n \in 1..N /\ n - 1 \in 0..N /\ f[n - 1] \in X
      BY <1>1, <1>4, <2>1 DEF Takes
    <3> QED
      BY <1>3, <1>4, <3>1, Zenon DEF Takes
  <2> HIDE DEF Taken
  <2> QED
    BY <1>4, <2>1 DEF Takes
<1>6. Follows(kept)
  BY <1>5, Zenon
<1> HIDE DEF kept, Taken
<1>7. kept[0] = << >> /\ \A n \in 1..N : kept[n] = Taken(n, kept[n - 1])
  BY <1>1, <1>6
<1> DEFINE T == {n \in 0..N : Selection(kept[n], rows, n)}
<1>8. 0 \in T
  <2>1. << >> \in Seq(Ticks) /\ 1..Len(<< >>) = {} /\ 1..0 = {}
    OBVIOUS
  <2>2. Selection(<< >>, rows, 0)
    BY <2>1 DEF Selection
  <2> QED
    BY <1>1, <1>7, <2>2
<1>9. ASSUME NEW n \in 1..N, n - 1 \in T PROVE n \in T
  <2>1. n \in 1..Len(rows) /\ n \in 0..N /\ Selection(kept[n - 1], rows, n - 1)
    BY <1>1, <1>9 DEF N
  <2> QED
    BY <1>7, <2>1, SelectionGrows DEF Taken
<1> HIDE DEF T
<1>10. N \in T
  <2>1. 0..N \subseteq T
    BY <1>1, <1>8, <1>9, UpTo, SMTT(30)
  <2> QED
    BY <1>1, <2>1
<1> QED
  BY <1>10 DEF ValidBatch, IsValidExchangeTimestamp, kept, N, T

-----------------------------------------------------------------------------
\* The types, in groups that most steps leave alone; CallsTyped is about the
\* calls of InsertWithFallback.
CallsTyped ==
  /\ pc \in [Actors -> Labels] /\ batch \in [Actors -> Seq(Rows)]
  /\ done \in [Actors -> Nat] /\ \A a \in Actors : done[a] <= Len(batch[a])
  /\ phase \in [Actors -> 1..2] /\ spins \in [Actors -> 0..MaxSpin]
FlagsTyped ==
  /\ serverUp \in BOOLEAN /\ outages \in 0..MaxOutages
  /\ connected \in BOOLEAN /\ degraded \in BOOLEAN /\ reconnecting \in BOOLEAN
  /\ fallback \in BOOLEAN /\ shutdown \in BOOLEAN
  /\ mainPc \in {"running", "flushedA", "flushedB", "closed", "done"}
WritersTyped ==
  /\ queued \in [Tables -> SUBSET Rows] /\ failed \in [Tables -> BOOLEAN]
  /\ stored \subseteq Rows /\ lost \subseteq Rows
LocksTyped == sharers \subseteq Actors /\ owner \in Actors \cup {None}
BuffersTyped ==
  /\ buffers \in [0..1 -> Seq(Ticks)] /\ active \in 0..1
  /\ Len(buffers[active]) < BufferSize /\ buffers[1 - active] = << >>
HistoriesTyped ==
  /\ arrived \subseteq Rows /\ trouble \in BOOLEAN
  /\ copies \in [Rows -> Nat] /\ fallen \in [Rows -> Nat]
Typed == FlagsTyped /\ WritersTyped /\ LocksTyped /\ BuffersTyped /\ CallsTyped /\ HistoriesTyped

\* A part of the state that a step leaves alone keeps its types.
LEMMA GroupsKept ==
  /\ UNCHANGED writerVars /\ WritersTyped => WritersTyped'
  /\ UNCHANGED lockVars /\ LocksTyped => LocksTyped'
  /\ UNCHANGED bufferVars /\ BuffersTyped => BuffersTyped'
  /\ UNCHANGED callVars /\ CallsTyped => CallsTyped'
  /\ UNCHANGED histories /\ HistoriesTyped => HistoriesTyped'
<1>1. UNCHANGED writerVars /\ WritersTyped => WritersTyped'
  BY DEF writerVars, WritersTyped
<1>2. UNCHANGED lockVars /\ LocksTyped => LocksTyped'
  BY DEF lockVars, LocksTyped
<1>3. UNCHANGED bufferVars /\ BuffersTyped => BuffersTyped'
  BY DEF bufferVars, BuffersTyped
<1>4. UNCHANGED callVars /\ CallsTyped => CallsTyped'
  BY DEF callVars, CallsTyped
<1>5. UNCHANGED histories /\ HistoriesTyped => HistoriesTyped'
  BY DEF histories, HistoriesTyped
<1> QED
  BY <1>1, <1>2, <1>3, <1>4, <1>5, Zenon

LEMMA DestroyTyped == WritersTyped /\ DestroyWriters => WritersTyped' /\ connected' \in BOOLEAN
<1> SUFFICES ASSUME WritersTyped, DestroyWriters PROVE WritersTyped' /\ connected' \in BOOLEAN
  OBVIOUS
<1>1. \A tb \in Tables : queued[tb] \subseteq Rows
  BY DEF WritersTyped
<1>2. lost' \subseteq Rows
  BY <1>1, Zenon DEF WritersTyped, DestroyWriters, Range
<1>3. queued' \in [Tables -> SUBSET Rows] /\ failed' \in [Tables -> BOOLEAN]
  BY DEF DestroyWriters
<1> QED
  BY <1>2, <1>3, Zenon DEF WritersTyped, DestroyWriters

LEMMA GotoTyped ==
  ASSUME CallsTyped, NEW a \in Actors, NEW label \in Labels, Goto(a, label)
  PROVE  CallsTyped'
BY DEF CallsTyped, Goto

LEMMA ReturnTyped ==
  ASSUME CallsTyped, NEW a \in Actors, Return(a)
  PROVE  CallsTyped'
BY BoundsAssumption DEF CallsTyped, Return, Labels

\* A call starts where none is running.
LEMMA EnterTyped ==
  ASSUME CallsTyped, NEW a \in Actors, batch[a] = << >>, NEW rows \in Seq(Rows), Enter(a, rows)
  PROVE  CallsTyped'
BY DEF CallsTyped, Enter, Labels

LEMMA FlushTyped ==
  ASSUME CallsTyped, NEW a \in Actors, batch[a] = << >>, NEW rows \in Seq(Ticks), FlushBuffer(a, rows)
  PROVE  CallsTyped'
<1>1. ValidBatch(rows) \in Seq(Rows)
  <2>1. ValidBatch(rows) \in Seq(Ticks)
    BY ValidBatchSelects DEF Selection
  <2> QED
    BY <2>1 DEF Rows
<1>2. CASE UNCHANGED callVars
  BY <1>2 DEF callVars, CallsTyped
<1> QED
  BY <1>1, <1>2, EnterTyped DEF FlushBuffer

LEMMA BackendStarts == Init => BackendInv
<1> SUFFICES ASSUME Init PROVE BackendInv
  OBVIOUS
<1> USE BufferSizeAssumption, BoundsAssumption, ThreadsAssumption
<1>1. TypeOK
  <2>1. CallsTyped
    BY DEF Init, CallsTyped, Labels
  <2>2. buffers \in [0..1 -> Seq(Ticks)] /\ buffers[active] = << >> /\ buffers[1 - active] = << >>
    BY DEF Init
  <2>3. Len(buffers[active]) < BufferSize
    BY <2>2
  <2>4. outages \in 0..MaxOutages /\ active \in 0..1
    BY DEF Init
  <2>5. copies \in [Rows -> Nat] /\ fallen \in [Rows -> Nat]
    BY DEF Init
  <2>6. queued \in [Tables -> SUBSET Rows] /\ failed \in [Tables -> BOOLEAN]
    BY Zenon DEF Init
  <2>7. /\ serverUp \in BOOLEAN /\ connected \in BOOLEAN /\ degraded \in BOOLEAN
        /\ reconnecting \in BOOLEAN /\ fallback \in BOOLEAN /\ shutdown \in BOOLEAN
        /\ trouble \in BOOLEAN
    BY Zenon DEF Init
  <2>8. /\ stored \subseteq Rows /\ lost \subseteq Rows /\ arrived \subseteq Rows
        /\ sharers \subseteq Actors /\ owner \in Actors \cup {None}
        /\ mainPc \in {"running", "flushedA", "flushedB", "closed", "done"}
    BY Zenon DEF Init
  <2> QED
    BY <2>1, <2>2, <2>3, <2>4, <2>5, <2>6, <2>7, <2>8 DEF CallsTyped, TypeOK
<1>2. \A a \in Actors : batch[a] = << >> /\ pc[a] = "idle" /\ 1..Len(batch[a]) = {}
  BY DEF Init
<1>3. \A i \in 0..1 : buffers[i] = << >> /\ 1..Len(buffers[i]) = {}
  BY DEF Init
<1>4. RowsAccounted
  BY <1>1 DEF Init, RowsAccounted
<1>5. Locking
  BY <1>2 DEF Init, Locking, Exclusive, Actors, None, Main
<1>6. Closing /\ Batches
  BY <1>2 DEF Init, Closing, Batches, Resting, Actors
<1>7. OnePlace
  BY <1>2, <1>3 DEF OnePlace
<1>8. Copied
  BY <1>2, <1>3 DEF Copied, Init, Rows
<1>9. Given
  BY DEF Init, Given, Handed
<1>10. CleanSoFar
  BY <1>2, Zenon DEF Init, CleanSoFar, Clean
<1> QED
  BY <1>4, <1>5, <1>6, <1>7, <1>8, <1>9, <1>10 DEF BackendInv

\* Every step keeps the types.
LEMMA TypeKept == TypeOK /\ Batches /\ Closing /\ [Next]_vars => TypeOK'
<1> SUFFICES ASSUME TypeOK, Batches, Closing, [Next]_vars PROVE Typed'
  BY Zenon DEF Typed, TypeOK, FlagsTyped, WritersTyped, LocksTyped, BuffersTyped, CallsTyped, HistoriesTyped
<1>0. FlagsTyped /\ WritersTyped /\ LocksTyped /\ BuffersTyped /\ CallsTyped /\ HistoriesTyped
  BY Zenon DEF TypeOK, FlagsTyped, WritersTyped, LocksTyped, BuffersTyped, CallsTyped, HistoriesTyped
<1> USE DEF Typed
<1>1. CASE ServerDown
  <2>1. outages' \in 0..MaxOutages
    BY <1>0, <1>1, BoundsAssumption DEF ServerDown, FlagsTyped
  <2> QED
    BY <1>0, <1>1, <2>1, GroupsKept, Zenon DEF ServerDown, FlagsTyped
<1>2. CASE ServerBack
  BY <1>0, <1>2, GroupsKept, Zenon DEF ServerBack, FlagsTyped
<1>3. ASSUME NEW tb \in Tables, WriterSend(tb) PROVE Typed'
  <2>1. WritersTyped'
    BY <1>0, <1>3, Zenon DEF WriterSend, WritersTyped
  <2> QED
    BY <1>0, <1>3, <2>1, GroupsKept, Zenon DEF WriterSend, FlagsTyped, serverVars
<1>4. ASSUME NEW t \in Threads, NEW r \in Rows, NEW elapsed \in BOOLEAN, InsertTick(t, r, elapsed) PROVE Typed'
  <2> DEFINE rows == Append(buffers[active], r)
  <2>1. t \in Actors /\ batch[t] = << >> /\ buffers[active] \in Seq(Ticks) /\ rows \in Seq(Ticks)
    BY <1>0, <1>4 DEF InsertTick, BuffersTyped, Batches, Resting, Actors
  <2> HIDE DEF rows
  <2>2. BuffersTyped' /\ CallsTyped'
    <3>1. CASE FlushDue(rows, elapsed)
      <4>1. /\ buffers' = [buffers EXCEPT ![active] = << >>] /\ active' = 1 - active
            /\ FlushBuffer(t, rows)
        BY <1>4, <3>1, Zenon DEF InsertTick, rows
      <4>2. CallsTyped'
        BY <1>0, <2>1, <4>1, FlushTyped, Zenon
      <4> QED
        BY <1>0, <4>1, <4>2, BufferSizeAssumption DEF BuffersTyped
    <3>2. CASE ~FlushDue(rows, elapsed)
      <4>1. buffers' = [buffers EXCEPT ![active] = rows] /\ UNCHANGED <<active, callVars>>
        BY <1>4, <3>2, Zenon DEF InsertTick, rows
      <4>2. BuffersTyped'
        BY <1>0, <2>1, <3>2, <4>1, BufferSizeAssumption DEF BuffersTyped, FlushDue
      <4> QED
        BY <1>0, <4>1, <4>2, GroupsKept, Zenon
    <3> QED
      BY <3>1, <3>2
  <2>3. HistoriesTyped'
    BY <1>0, <1>4, Zenon DEF InsertTick, HistoriesTyped
  <2> QED
    BY <1>0, <1>4, <2>2, <2>3, GroupsKept, Zenon DEF InsertTick, FlagsTyped, serverVars
<1>5. ASSUME NEW t \in Threads, NEW r \in Rows, InsertBook(t, r) PROVE Typed'
  <2>1. t \in Actors /\ batch[t] = << >> /\ <<r>> \in Seq(Rows)
    BY <1>5 DEF InsertBook, Batches, Resting, Actors
  <2>2. CallsTyped'
    BY <1>0, <1>5, <2>1, EnterTyped, GroupsKept, Zenon DEF InsertBook
  <2>3. HistoriesTyped'
    BY <1>0, <1>5, Zenon DEF InsertBook, HistoriesTyped
  <2> QED
    BY <1>0, <1>5, <2>2, <2>3, GroupsKept, Zenon DEF InsertBook, FlagsTyped, serverVars
<1>6. ASSUME NEW a \in Actors, TakeShared(a) PROVE Typed'
  <2>1. CallsTyped'
    <3>1. \E label \in {"insert", "reconnect", "fallback"} : pc' = [pc EXCEPT ![a] = label]
      BY <1>6 DEF TakeShared
    <3>2. pc' \in [Actors -> Labels]
      BY <1>0, <3>1 DEF CallsTyped, Labels
    <3>3. /\ phase' = [phase EXCEPT ![a] = IF pc[a] = "phase1" THEN 1 ELSE 2]
          /\ done' = [done EXCEPT ![a] = 0] /\ UNCHANGED <<batch, spins>>
      BY <1>6, Zenon DEF TakeShared
    <3> QED
      BY <1>0, <3>2, <3>3 DEF CallsTyped
  <2>2. LocksTyped'
    BY <1>0, <1>6 DEF TakeShared, LocksTyped
  <2> QED
    BY <1>0, <1>6, <2>1, <2>2, GroupsKept, Zenon DEF TakeShared, FlagsTyped, serverVars
<1>7. ASSUME NEW a \in Actors, InsertRow(a) PROVE Typed'
  <2> DEFINE tb == TableOf(batch[a])
             n == done[a] + 1
             x == batch[a][n]
  <2>1. pc[a] = "insert" /\ done[a] < Len(batch[a]) /\ done[a] \in Nat /\ batch[a] \in Seq(Rows)
    BY <1>0, <1>7 DEF InsertRow, Batches, CallsTyped
  <2>2. n \in 1..Len(batch[a]) /\ n \in Nat /\ x \in Rows
    BY <2>1
  <2>3. tb \in Tables
    BY DEF TableOf, Tables
  <2>4. queued' = [queued EXCEPT ![tb] = @ \cup {x}] /\ copies' = [copies EXCEPT ![x] = @ + 1]
    BY <1>7, Zenon DEF InsertRow
  <2>5. CallsTyped'
    <3>1. CASE n = Len(batch[a])
      BY <1>0, <1>7, <3>1, ReturnTyped, Zenon DEF InsertRow
    <3>2. CASE n # Len(batch[a])
      <4>1. done' = [done EXCEPT ![a] = n] /\ UNCHANGED <<pc, batch, phase, spins>>
        BY <1>7, <3>2, Zenon DEF InsertRow
      <4> HIDE DEF n
      <4> QED
        BY <1>0, <2>2, <4>1 DEF CallsTyped
    <3> QED
      BY <3>1, <3>2
  <2>6. LocksTyped'
    BY <1>0, <1>7 DEF InsertRow, LocksTyped
  <2> HIDE DEF tb, x
  <2>7. queued' \in [Tables -> SUBSET Rows]
    BY <1>0, <2>2, <2>3, <2>4 DEF WritersTyped
  <2>8. copies' \in [Rows -> Nat]
    BY <1>0, <2>2, <2>4 DEF HistoriesTyped
  <2>9. WritersTyped' /\ HistoriesTyped'
    BY <1>0, <1>7, <2>7, <2>8, Zenon DEF InsertRow, WritersTyped, HistoriesTyped
  <2> QED
    BY <1>0, <1>7, <2>5, <2>6, <2>9, GroupsKept, Zenon DEF InsertRow, FlagsTyped, serverVars
<1>8. ASSUME NEW a \in Actors, InsertFails(a) PROVE Typed'
  <2>1. CallsTyped'
    BY <1>0, <1>8, GotoTyped, Zenon DEF InsertFails, Labels, OnFailure
  <2>2. LocksTyped'
    BY <1>0, <1>8, Zenon DEF InsertFails, LocksTyped
  <2> QED
    BY <1>0, <1>8, <2>1, <2>2, GroupsKept, Zenon DEF InsertFails, FlagsTyped, serverVars
<1>9. ASSUME NEW a \in Actors, TryReconnect(a) PROVE Typed'
  <2>1. CallsTyped'
    BY <1>0, <1>9, GotoTyped DEF TryReconnect, Labels
  <2> QED
    BY <1>0, <1>9, <2>1, GroupsKept, Zenon DEF TryReconnect, FlagsTyped, serverVars
<1>10. ASSUME NEW a \in Actors, SpinWait(a) PROVE Typed'
  <2>1. CallsTyped'
    <3>1. \A ok : AfterReconnect(a, ok) \in Labels
      BY Zenon DEF AfterReconnect, Labels
    <3>2. CASE \E ok : Goto(a, AfterReconnect(a, ok))
      BY <1>0, <3>1, <3>2, GotoTyped, Zenon
    <3>3. CASE ~reconnecting
      BY <1>10, <3>2, <3>3, Zenon DEF SpinWait
    <3>4. CASE reconnecting /\ (shutdown \/ spins[a] + 1 > MaxSpin)
      BY <1>10, <3>2, <3>4, Zenon DEF SpinWait
    <3>5. CASE reconnecting /\ ~(shutdown \/ spins[a] + 1 > MaxSpin)
      <4>1. spins' = [spins EXCEPT ![a] = @ + 1] /\ UNCHANGED <<pc, batch, done, phase>>
        BY <1>10, <3>5, Zenon DEF SpinWait
      <4> QED
        BY <1>0, <3>5, <4>1, BoundsAssumption DEF CallsTyped
    <3> QED
      BY <3>3, <3>4, <3>5, Zenon
  <2> QED
    BY <1>0, <1>10, <2>1, GroupsKept, Zenon DEF SpinWait, FlagsTyped, serverVars
<1>11. ASSUME NEW a \in Actors, TakeExclusive(a) PROVE Typed'
  <2>1. CallsTyped'
    BY <1>0, <1>11, GotoTyped DEF TakeExclusive, Labels
  <2>2. LocksTyped'
    BY <1>0, <1>11, Zenon DEF TakeExclusive, LocksTyped
  <2> QED
    BY <1>0, <1>11, <2>1, <2>2, GroupsKept, Zenon DEF TakeExclusive, FlagsTyped, serverVars
<1>12. ASSUME NEW a \in Actors, ReconnectDestroy(a) PROVE Typed'
  <2>1. CallsTyped'
    BY <1>0, <1>12, GotoTyped DEF ReconnectDestroy, Labels
  <2>2. WritersTyped' /\ connected' \in BOOLEAN
    BY <1>0, <1>12, DestroyTyped, Zenon DEF ReconnectDestroy
  <2> QED
    BY <1>0, <1>12, <2>1, <2>2, GroupsKept, Zenon DEF ReconnectDestroy, FlagsTyped, serverVars
<1>13. ASSUME NEW a \in Actors, NEW ok \in BOOLEAN, ReconnectConnect(a, ok) PROVE Typed'
  <2>1. CallsTyped'
    BY <1>0, <1>13, GotoTyped DEF ReconnectConnect, Labels
  <2>2. HistoriesTyped' /\ FlagsTyped'
    BY <1>0, <1>13, Zenon DEF ReconnectConnect, HistoriesTyped, FlagsTyped, serverVars
  <2> QED
    BY <1>0, <1>13, <2>1, <2>2, GroupsKept, Zenon DEF ReconnectConnect
<1>14. ASSUME NEW a \in Actors, ReconnectUnlock(a) PROVE Typed'
  <2>1. CallsTyped'
    BY <1>0, <1>14, GotoTyped DEF ReconnectUnlock, Labels, AfterReconnect
  <2>2. LocksTyped'
    BY <1>0, <1>14, Zenon DEF ReconnectUnlock, LocksTyped
  <2> QED
    BY <1>0, <1>14, <2>1, <2>2, GroupsKept, Zenon DEF ReconnectUnlock, FlagsTyped, serverVars
<1>15. ASSUME NEW a \in Actors, WriteFallback(a) PROVE Typed'
  <2>1. CallsTyped'
    BY <1>0, <1>15, ReturnTyped, Zenon DEF WriteFallback
  <2>2. HistoriesTyped'
    BY <1>0, <1>15 DEF WriteFallback, HistoriesTyped
  <2> QED
    BY <1>0, <1>15, <2>1, <2>2, GroupsKept, Zenon DEF WriteFallback, FlagsTyped, serverVars
<1>16. CASE RequestShutdown
  BY <1>0, <1>16, GroupsKept, Zenon DEF RequestShutdown, FlagsTyped, serverVars
<1>17. ASSUME NEW t \in Threads, EndThread(t) PROVE Typed'
  <2>1. CallsTyped'
    BY <1>0, <1>17, GotoTyped DEF EndThread, Labels, Actors
  <2> QED
    BY <1>0, <1>17, <2>1, GroupsKept, Zenon DEF EndThread, FlagsTyped, serverVars
<1>18. CASE FlushBufferA
  <2>1. Main \in Actors /\ batch[Main] = << >> /\ buffers[0] \in Seq(Ticks)
    BY <1>0, <1>18 DEF FlushBufferA, BuffersTyped, Batches, Closing, Resting, Actors
  <2>2. CallsTyped'
    BY <1>0, <1>18, <2>1, FlushTyped, Zenon DEF FlushBufferA
  <2>3. BuffersTyped'
    BY <1>0, <1>18, BufferSizeAssumption DEF FlushBufferA, BuffersTyped
  <2> QED
    BY <1>0, <1>18, <2>2, <2>3, GroupsKept, Zenon DEF FlushBufferA, FlagsTyped, serverVars
<1>19. CASE FlushBufferB
  <2>1. Main \in Actors /\ batch[Main] = << >> /\ buffers[1] \in Seq(Ticks)
    BY <1>0, <1>19 DEF FlushBufferB, BuffersTyped, Batches, Closing, Resting, Actors
  <2>2. CallsTyped'
    BY <1>0, <1>19, <2>1, FlushTyped, Zenon DEF FlushBufferB
  <2>3. BuffersTyped'
    BY <1>0, <1>19, BufferSizeAssumption DEF FlushBufferB, BuffersTyped
  <2> QED
    BY <1>0, <1>19, <2>2, <2>3, GroupsKept, Zenon DEF FlushBufferB, FlagsTyped, serverVars
<1>20. CASE CloseFallback
  BY <1>0, <1>20, GroupsKept, Zenon DEF CloseFallback, FlagsTyped, serverVars
<1>21. CASE Disconnect
  <2>1. WritersTyped' /\ connected' \in BOOLEAN
    BY <1>0, <1>21, DestroyTyped, Zenon DEF Disconnect
  <2> QED
    BY <1>0, <1>21, <2>1, GroupsKept, Zenon DEF Disconnect, FlagsTyped, serverVars
<1>22. CASE UNCHANGED vars
  BY <1>0, <1>22, GroupsKept, Zenon DEF vars, FlagsTyped, serverVars
<1> HIDE DEF Typed
<1> QED
  BY <1>1, <1>2, <1>3, <1>4, <1>5, <1>6, <1>7, <1>8, <1>9, <1>10, <1>11, <1>12, <1>13, <1>14, <1>15, <1>16, <1>17, <1>18, <1>19, <1>20, <1>21, <1>22, Zenon
  DEF Next, Call, FlushAndClose, Finished

\* The lock is held by those who are in its sections.
LEMMA LockingKept ==
  TypeOK /\ Closing /\ Locking /\ [Next]_vars => Locking'
<1> SUFFICES ASSUME TypeOK, Closing, Locking, [Next]_vars PROVE Locking'
  BY Zenon
<1>0. pc \in [Actors -> Labels] /\ sharers \subseteq Actors /\ None \notin Actors
  BY ThreadsAssumption, Zenon DEF TypeOK, Actors, Main, None
<1> USE <1>0 DEF Locking, Exclusive
<1>1. CASE ServerDown
  BY <1>1, Zenon DEF ServerDown, callVars, lockVars
<1>2. CASE ServerBack
  BY <1>2, Zenon DEF ServerBack, callVars, lockVars
<1>3. ASSUME NEW tb \in Tables, WriterSend(tb) PROVE Locking'
  BY <1>3, Zenon DEF WriterSend, callVars, lockVars
<1>4. ASSUME NEW t \in Threads, NEW r \in Rows, NEW elapsed \in BOOLEAN, InsertTick(t, r, elapsed) PROVE Locking'
  BY <1>4, Zenon DEF InsertTick, FlushBuffer, Enter, callVars, lockVars, Actors
<1>5. ASSUME NEW t \in Threads, NEW r \in Rows, InsertBook(t, r) PROVE Locking'
  BY <1>5, Zenon DEF InsertBook, Enter, callVars, lockVars, Actors
<1>6. ASSUME NEW a \in Actors, TakeShared(a) PROVE Locking'
  BY <1>6, Zenon DEF TakeShared
<1>7. ASSUME NEW a \in Actors, InsertRow(a) PROVE Locking'
  BY <1>7, Zenon DEF InsertRow, Return
<1>8. ASSUME NEW a \in Actors, InsertFails(a) PROVE Locking'
  BY <1>8, Zenon DEF InsertFails, Goto, lockVars, OnFailure
<1>9. ASSUME NEW a \in Actors, TryReconnect(a) PROVE Locking'
  BY <1>9, Zenon DEF TryReconnect, Goto, lockVars
<1>10. ASSUME NEW a \in Actors, SpinWait(a) PROVE Locking'
  BY <1>10, Zenon DEF SpinWait, Goto, lockVars, AfterReconnect
<1>11. ASSUME NEW a \in Actors, TakeExclusive(a) PROVE Locking'
  BY <1>11, Zenon DEF TakeExclusive, Goto, lockVars
<1>12. ASSUME NEW a \in Actors, ReconnectDestroy(a) PROVE Locking'
  BY <1>12, Zenon DEF ReconnectDestroy, Goto, lockVars
<1>13. ASSUME NEW a \in Actors, NEW ok \in BOOLEAN, ReconnectConnect(a, ok) PROVE Locking'
  BY <1>13, Zenon DEF ReconnectConnect, Goto, lockVars
<1>14. ASSUME NEW a \in Actors, ReconnectUnlock(a) PROVE Locking'
  BY <1>14, Zenon DEF ReconnectUnlock, Goto, lockVars, AfterReconnect
<1>15. ASSUME NEW a \in Actors, WriteFallback(a) PROVE Locking'
  BY <1>15, Zenon DEF WriteFallback, Return, lockVars
<1>16. CASE RequestShutdown
  BY <1>16, Zenon DEF RequestShutdown, callVars, lockVars
<1>17. ASSUME NEW t \in Threads, EndThread(t) PROVE Locking'
  BY <1>17, Zenon DEF EndThread, Goto, lockVars, Actors
<1>18. CASE FlushBufferA
  BY <1>18, Zenon DEF FlushBufferA, Closing, FlushBuffer, Enter, callVars, lockVars, Actors
<1>19. CASE FlushBufferB
  BY <1>19, Zenon DEF FlushBufferB, Closing, FlushBuffer, Enter, callVars, lockVars, Actors
<1>20. CASE CloseFallback
  BY <1>20, Zenon DEF CloseFallback, callVars, lockVars
<1>21. CASE Disconnect
  BY <1>21, Zenon DEF Disconnect, callVars, lockVars
<1>22. CASE UNCHANGED vars
  BY <1>22, Zenon DEF vars, callVars, lockVars
<1> QED
  BY <1>1, <1>2, <1>3, <1>4, <1>5, <1>6, <1>7, <1>8, <1>9, <1>10, <1>11, <1>12, <1>13, <1>14, <1>15, <1>16, <1>17, <1>18, <1>19, <1>20, <1>21, <1>22, Zenon
  DEF Next, Call, FlushAndClose, Finished

\* FlushAndClose finds the parser threads ended and leaves the buffers empty.
LEMMA ClosingKept ==
  TypeOK /\ Closing /\ [Next]_vars => Closing'
<1> SUFFICES ASSUME TypeOK, Closing, [Next]_vars PROVE Closing'
  BY Zenon
<1>0. /\ pc \in [Actors -> Labels] /\ Main \in Actors /\ Threads \subseteq Actors /\ Main \notin Threads
      /\ buffers \in [0..1 -> Seq(Ticks)] /\ active \in 0..1
      /\ mainPc \in {"running", "flushedA", "flushedB", "closed", "done"}
      /\ \A a \in Actors : a = Main \/ a \in Threads
  BY ThreadsAssumption, Zenon DEF TypeOK, Actors
<1> USE <1>0 DEF Closing
<1>1. CASE ServerDown
  BY <1>1, Zenon DEF ServerDown, writerVars, bufferVars, callVars
<1>2. CASE ServerBack
  BY <1>2, Zenon DEF ServerBack, writerVars, bufferVars, callVars
<1>3. ASSUME NEW tb \in Tables, WriterSend(tb) PROVE Closing'
  BY <1>3, Zenon DEF WriterSend, bufferVars, callVars
<1>4. ASSUME NEW t \in Threads, NEW r \in Rows, NEW elapsed \in BOOLEAN, InsertTick(t, r, elapsed) PROVE Closing'
  BY <1>4, Zenon DEF InsertTick, FlushBuffer, Enter, writerVars, callVars
<1>5. ASSUME NEW t \in Threads, NEW r \in Rows, InsertBook(t, r) PROVE Closing'
  BY <1>5, Zenon DEF InsertBook, Enter, writerVars, bufferVars, callVars
<1>6. ASSUME NEW a \in Actors, TakeShared(a) PROVE Closing'
  BY <1>6, Zenon DEF TakeShared, writerVars, bufferVars
<1>7. ASSUME NEW a \in Actors, InsertRow(a) PROVE Closing'
  BY <1>7, Zenon DEF InsertRow, Return, bufferVars
<1>8. ASSUME NEW a \in Actors, InsertFails(a) PROVE Closing'
  BY <1>8, Zenon DEF InsertFails, Goto, writerVars, bufferVars
<1>9. ASSUME NEW a \in Actors, TryReconnect(a) PROVE Closing'
  BY <1>9, Zenon DEF TryReconnect, Goto, writerVars, bufferVars
<1>10. ASSUME NEW a \in Actors, SpinWait(a) PROVE Closing'
  BY <1>10, Zenon DEF SpinWait, Goto, writerVars, bufferVars
<1>11. ASSUME NEW a \in Actors, TakeExclusive(a) PROVE Closing'
  BY <1>11, Zenon DEF TakeExclusive, Goto, writerVars, bufferVars
<1>12. ASSUME NEW a \in Actors, ReconnectDestroy(a) PROVE Closing'
  BY <1>12, Zenon DEF ReconnectDestroy, Goto, DestroyWriters, bufferVars
<1>13. ASSUME NEW a \in Actors, NEW ok \in BOOLEAN, ReconnectConnect(a, ok) PROVE Closing'
  BY <1>13, Zenon DEF ReconnectConnect, Goto, writerVars, bufferVars
<1>14. ASSUME NEW a \in Actors, ReconnectUnlock(a) PROVE Closing'
  BY <1>14, Zenon DEF ReconnectUnlock, Goto, writerVars, bufferVars
<1>15. ASSUME NEW a \in Actors, WriteFallback(a) PROVE Closing'
  BY <1>15, Zenon DEF WriteFallback, Return, writerVars, bufferVars
<1>16. CASE RequestShutdown
  BY <1>16, Zenon DEF RequestShutdown, writerVars, bufferVars, callVars
<1>17. ASSUME NEW t \in Threads, EndThread(t) PROVE Closing'
  BY <1>17, Zenon DEF EndThread, Goto, writerVars, bufferVars
<1>18. CASE FlushBufferA
  BY <1>18 DEF FlushBufferA, FlushBuffer, Enter, writerVars, callVars
<1>19. CASE FlushBufferB
  BY <1>19 DEF FlushBufferB, FlushBuffer, Enter, writerVars, callVars
<1>20. CASE CloseFallback
  BY <1>20, Zenon DEF CloseFallback, writerVars, bufferVars, callVars
<1>21. CASE Disconnect
  BY <1>21, Zenon DEF Disconnect, DestroyWriters, bufferVars, callVars
<1>22. CASE UNCHANGED vars
  BY <1>22, Zenon DEF vars, writerVars, bufferVars, callVars
<1> HIDE DEF Closing
<1> QED
  BY <1>1, <1>2, <1>3, <1>4, <1>5, <1>6, <1>7, <1>8, <1>9, <1>10, <1>11, <1>12, <1>13, <1>14, <1>15, <1>16, <1>17, <1>18, <1>19, <1>20, <1>21, <1>22, Zenon
  DEF Next, Call, FlushAndClose, Finished

\* A writer never loses a row without a trace.
LEMMA HandedStays ==
  ASSUME TypeOK, [Next]_vars, NEW r \in Rows, Handed(r)
  PROVE  Handed(r)'
<1>0. queued \in [Tables -> SUBSET Rows]
  BY Zenon DEF TypeOK
<1>1. CASE UNCHANGED writerVars
  BY <1>1, Zenon DEF writerVars, Handed
<1>2. ASSUME NEW tb \in Tables, WriterSend(tb) PROVE Handed(r)'
  BY <1>0, <1>2, Zenon DEF WriterSend, Handed
<1>3. ASSUME NEW a \in Actors, InsertRow(a) PROVE Handed(r)'
  <2>1. PICK tb \in Tables : \E x : queued' = [queued EXCEPT ![tb] = @ \cup {x}]
    BY <1>3, Zenon DEF InsertRow, TableOf, Tables
  <2> QED
    BY <1>0, <1>3, <2>1, Zenon DEF InsertRow, Handed
<1>4. CASE DestroyWriters
  BY <1>0, <1>4, Zenon DEF DestroyWriters, Handed, Range
<1> QED
  BY <1>1, <1>2, <1>3, <1>4, Zenon
  DEF Next, vars, Call, FlushAndClose, Finished, ServerDown, ServerBack, InsertTick, InsertBook,
      TakeShared, InsertFails, TryReconnect, SpinWait, TakeExclusive, ReconnectDestroy,
      ReconnectConnect, ReconnectUnlock, WriteFallback, RequestShutdown, EndThread, FlushBufferA,
      FlushBufferB, CloseFallback, Disconnect

-----------------------------------------------------------------------------
(* Starting a call of InsertWithFallback *)

\* Rows that no store and no running call has: what is about to be inserted ...
Pending(rows) ==
  /\ \A n \in 1..Len(rows) : rows[n] \in arrived' /\ copies[rows[n]] = 0 /\ fallen[rows[n]] = 0
  /\ \A n, m \in 1..Len(rows) : rows[n] = rows[m] => n = m
  /\ \A n \in 1..Len(rows), a \in Actors : \A m \in 1..Len(batch[a]) : batch[a][m] # rows[n]

\* ... and what stays in the buffers.
Behind(rows) ==
  \A i \in 0..1 : Pending(buffers'[i])
    /\ \A n \in 1..Len(buffers'[i]), m \in 1..Len(rows) : buffers'[i][n] # rows[m]

\* Rows that nobody moves stay in one place.
LEMMA OnePlaceStays == OnePlace /\ UNCHANGED <<buffers, batch, arrived>> => OnePlace'
BY DEF OnePlace

\* So is what waits in a buffer.
LEMMA BufferPending ==
  ASSUME OnePlace, Copied, arrived \subseteq arrived', NEW i \in 0..1 PROVE Pending(buffers[i])
<1>1. \A n \in 1..Len(buffers[i]) : copies[buffers[i][n]] = 0 /\ fallen[buffers[i][n]] = 0
  BY Zenon DEF Copied
<1>2. \A n \in 1..Len(buffers[i]) : buffers[i][n] \in arrived'
  BY Zenon DEF OnePlace
<1>3. /\ \A n, m \in 1..Len(buffers[i]) : buffers[i][n] = buffers[i][m] => n = m
      /\ \A n \in 1..Len(buffers[i]), b \in Actors : \A m \in 1..Len(batch[b]) : batch[b][m] # buffers[i][n]
  BY Zenon DEF OnePlace
<1> QED
  BY <1>1, <1>2, <1>3, Zenon DEF Pending

\* What Copied says of one row of one batch.
LEMMA CopiedAt ==
  ASSUME Copied, NEW b \in Actors, NEW m \in 1..Len(batch[b])
  PROVE  /\ fallen[batch[b][m]] = 0
         /\ batch[b][m] \in Books \/ pc[b] = "phase1" \/ (pc[b] = "insert" /\ m > done[b])
              => copies[batch[b][m]] = 0
         /\ pc[b] = "insert" /\ m <= done[b] => copies[batch[b][m]] = 1
BY Zenon DEF Copied

\* A call that starts on pending valid rows keeps the invariant of the batches.
LEMMA EnterKeeps ==
  ASSUME TypeOK, Batches, OnePlace, Copied, NEW a \in Actors, pc[a] \in Resting,
         NEW rows \in Seq(Rows), rows # << >>, Enter(a, rows), Pending(rows), Behind(rows),
         \A n \in 1..Len(rows) : rows[n] \notin BadRows,
         (\A n \in 1..Len(rows) : rows[n] \in Ticks) \/ (Len(rows) = 1 /\ rows[1] \in Books),
         arrived \subseteq arrived', UNCHANGED <<connected, copies, fallen>>
  PROVE  Batches' /\ OnePlace' /\ Copied'
<1>1. /\ pc \in [Actors -> Labels] /\ batch \in [Actors -> Seq(Rows)] /\ done' = done
      /\ pc'[a] = "phase1" /\ batch'[a] = rows
      /\ \A b \in Actors : b # a => pc'[b] = pc[b] /\ batch'[b] = batch[b]
  BY Zenon DEF TypeOK, Enter
<1>2. Batches'
  <2> SUFFICES ASSUME NEW b \in Actors
               PROVE  (/\ pc[b] \in Resting <=> batch[b] = << >>
                       /\ \A n \in 1..Len(batch[b]) : batch[b][n] \in arrived \ BadRows
                       /\ (\A n \in 1..Len(batch[b]) : batch[b][n] \in Ticks)
                            \/ (Len(batch[b]) = 1 /\ batch[b][1] \in Books)
                       /\ pc[b] = "insert" => done[b] < Len(batch[b]) /\ (done[b] > 0 => connected)
                       /\ pc[b] = "retry" => batch[b][1] \in Books)'
    BY Zenon DEF Batches
  <2>1. CASE b = a
    BY <1>1, <2>1, Zenon DEF Pending, Resting
  <2>2. CASE b # a
    BY <1>1, <2>2, Zenon DEF Batches
  <2> QED
    BY <2>1, <2>2, Zenon
<1>3. OnePlace'
  <2>1. ASSUME NEW i \in 0..1, NEW n \in 1..Len(buffers'[i])
        PROVE  (/\ buffers[i][n] \in arrived
                /\ \A m \in 1..Len(buffers[i]) : buffers[i][m] = buffers[i][n] => m = n
                /\ \A b \in Actors : \A m \in 1..Len(batch[b]) : batch[b][m] # buffers[i][n])'
    <3>1. /\ buffers'[i][n] \in arrived'
          /\ \A m \in 1..Len(buffers'[i]) : buffers'[i][m] = buffers'[i][n] => m = n
      BY Zenon DEF Behind, Pending
    <3>2. ASSUME NEW b \in Actors, NEW m \in 1..Len(batch'[b]) PROVE batch'[b][m] # buffers'[i][n]
      <4>1. CASE b = a
        BY <1>1, <4>1, Zenon DEF Behind
      <4>2. CASE b # a
        BY <1>1, <4>2 DEF Behind, Pending
      <4> QED
        BY <4>1, <4>2, Zenon
    <3> QED
      BY <3>1, <3>2, Zenon
  <2>2. ASSUME NEW b \in Actors, NEW c \in Actors, NEW n \in 1..Len(batch'[b]), NEW m \in 1..Len(batch'[c]),
               batch'[b][n] = batch'[c][m]
        PROVE  b = c /\ n = m
    <3>1. CASE b # a /\ c # a
      <4>1. batch'[b] = batch[b] /\ batch'[c] = batch[c]
        BY <1>1, <3>1, Zenon
      <4>2. n \in 1..Len(batch[b]) /\ m \in 1..Len(batch[c]) /\ batch[b][n] = batch[c][m]
        BY <2>2, <4>1, Zenon
      <4>3. \A i \in 1..Len(batch[b]), j \in 1..Len(batch[c]) : batch[b][i] = batch[c][j] => b = c /\ i = j
        BY Zenon DEF OnePlace
      <4> QED
        BY <4>2, <4>3, Zenon
    <3>2. CASE b = a /\ c = a
      BY <1>1, <2>2, <3>2, Zenon DEF Pending
    <3>3. CASE (b = a) # (c = a)
      BY <1>1, <2>2, <3>3 DEF Pending
    <3> QED
      BY <3>1, <3>2, <3>3, Zenon
  <2> QED
    BY <2>1, <2>2, Zenon DEF OnePlace
<1>4. Copied'
  <2>1. \A i \in 0..1 : \A n \in 1..Len(buffers'[i]) : copies[buffers'[i][n]] = 0 /\ fallen[buffers'[i][n]] = 0
    BY Zenon DEF Behind, Pending
  <2>2. ASSUME NEW b \in Actors, NEW n \in 1..Len(batch'[b])
        PROVE  /\ fallen[batch'[b][n]] = 0
               /\ batch'[b][n] \in Books \/ pc'[b] = "phase1" \/ (pc'[b] = "insert" /\ n > done[b])
                    => copies[batch'[b][n]] = 0
               /\ pc'[b] = "insert" /\ n <= done[b] => copies[batch'[b][n]] = 1
    <3>1. CASE b = a
      BY <1>1, <3>1, Zenon DEF Pending
    <3>2. CASE b # a
      BY <1>1, <3>2 DEF Copied
    <3> QED
      BY <3>1, <3>2, Zenon
  <2>3. /\ \A r \in Rows : copies[r] <= 1 /\ fallen[r] <= 1
        /\ \A r \in Books : copies[r] + fallen[r] <= 1
        /\ \A r \in Rows \ arrived' : copies[r] = 0 /\ fallen[r] = 0
    BY Zenon DEF Copied
  <2> QED
    BY <1>1, <2>1, <2>2, <2>3, ZenonT(30) DEF Copied
<1> QED
  BY <1>2, <1>3, <1>4, Zenon

\* The same where no call starts and rows only move into the buffers.
LEMMA StayKeeps ==
  ASSUME Batches, OnePlace, Copied, UNCHANGED callVars, Behind(<< >>),
         arrived \subseteq arrived', UNCHANGED <<connected, copies, fallen>>
  PROVE  Batches' /\ OnePlace' /\ Copied'
<1>1. Batches'
  BY Zenon DEF Batches, callVars
<1>2. OnePlace'
  <2>1. ASSUME NEW i \in 0..1, NEW n \in 1..Len(buffers'[i])
        PROVE  (/\ buffers[i][n] \in arrived
                /\ \A m \in 1..Len(buffers[i]) : buffers[i][m] = buffers[i][n] => m = n
                /\ \A b \in Actors : \A m \in 1..Len(batch[b]) : batch[b][m] # buffers[i][n])'
    <3>1. Pending(buffers'[i]) /\ batch' = batch
      BY Zenon DEF Behind, callVars
    <3> QED
      BY <3>1, Zenon DEF Pending
  <2>2. \A a, b \in Actors : \A n \in 1..Len(batch'[a]), m \in 1..Len(batch'[b]) :
          batch'[a][n] = batch'[b][m] => a = b /\ n = m
    <3>1. batch' = batch
      BY Zenon DEF callVars
    <3> QED
      BY <3>1 DEF OnePlace
  <2> QED
    BY <2>1, <2>2, Zenon DEF OnePlace
<1>3. Copied'
  <2>1. \A i \in 0..1 : \A n \in 1..Len(buffers'[i]) : copies[buffers'[i][n]] = 0 /\ fallen[buffers'[i][n]] = 0
    BY Zenon DEF Behind, Pending
  <2> QED
    BY <2>1, Zenon DEF Copied, callVars
<1> QED
  BY <1>1, <1>2, <1>3, Zenon

\* FlushBuffer does one or the other with what is valid of a buffer.
LEMMA FlushKeeps ==
  ASSUME TypeOK, Batches, OnePlace, Copied, NEW a \in Actors, pc[a] \in Resting,
         NEW rows \in Seq(Ticks), FlushBuffer(a, rows), Pending(rows), Behind(rows),
         arrived \subseteq arrived', UNCHANGED <<connected, copies, fallen>>
  PROVE  Batches' /\ OnePlace' /\ Copied'
<1> DEFINE valid == ValidBatch(rows)
<1>1. Selection(valid, rows, Len(rows))
  BY ValidBatchSelects, Zenon
<1>2. CASE valid = << >>
  <2>1. Behind(<< >>)
    BY DEF Behind
  <2> QED
    BY <1>2, <2>1, StayKeeps, Zenon DEF FlushBuffer
<1>3. CASE valid # << >>
  <2>1. Enter(a, valid)
    BY <1>3, Zenon DEF FlushBuffer
  <2> HIDE DEF valid
  <2>2. /\ valid \in Seq(Rows) /\ \A n \in 1..Len(valid) : valid[n] \in Ticks
        /\ \A n \in 1..Len(valid) : valid[n] \notin BadRows /\ \E m \in 1..Len(rows) : valid[n] = rows[m]
    <3>1. valid \in Seq(Ticks)
      BY <1>1, Zenon DEF Selection
    <3>2. \A n \in 1..Len(valid) : valid[n] \notin BadRows /\ \E m \in 1..Len(rows) : valid[n] = rows[m]
      BY <1>1, Zenon DEF Selection
    <3>3. valid \in Seq(Rows) /\ \A n \in 1..Len(valid) : valid[n] \in Ticks
      BY <3>1 DEF Rows
    <3> QED
      BY <3>2, <3>3, Zenon
  <2>3. Pending(valid)
    <3>1. \A n, m \in 1..Len(valid) : valid[n] = valid[m] => n = m
      BY <1>1, Zenon DEF Selection, Pending
    <3>2. ASSUME NEW n \in 1..Len(valid)
          PROVE  /\ valid[n] \in arrived' /\ copies[valid[n]] = 0 /\ fallen[valid[n]] = 0
                 /\ \A b \in Actors : \A m \in 1..Len(batch[b]) : batch[b][m] # valid[n]
      <4>1. PICK m \in 1..Len(rows) : valid[n] = rows[m]
        BY <2>2, Zenon
      <4>2. /\ rows[m] \in arrived' /\ copies[rows[m]] = 0 /\ fallen[rows[m]] = 0
            /\ \A b \in Actors : \A k \in 1..Len(batch[b]) : batch[b][k] # rows[m]
        BY Zenon DEF Pending
      <4> QED
        BY <4>1, <4>2, Zenon
    <3> QED
      BY <3>1, <3>2, Zenon DEF Pending
  <2>4. Behind(valid)
    <3>1. ASSUME NEW i \in 0..1, NEW n \in 1..Len(buffers'[i]), NEW m \in 1..Len(valid)
          PROVE  buffers'[i][n] # valid[m]
      <4>1. PICK k \in 1..Len(rows) : valid[m] = rows[k]
        BY <2>2, Zenon
      <4> QED
        BY <4>1, Zenon DEF Behind
    <3> QED
      BY <3>1, Zenon DEF Behind
  <2> QED
    BY <1>3, <2>1, <2>2, <2>3, <2>4, EnterKeeps, Zenon
<1> QED
  BY <1>2, <1>3, Zenon

-----------------------------------------------------------------------------
(* The rest of a call *)

Holdings == Batches /\ OnePlace /\ Copied

\* Only a batch with a book in it is retried, and it holds nothing else.
LEMMA RetryIsBook ==
  ASSUME TypeOK, Batches, NEW a \in Actors, NEW ok \in BOOLEAN, AfterReconnect(a, ok) = "retry"
  PROVE  batch[a][1] \in Books
<1>1. ~(Range(batch[a]) \subseteq Ticks)
  BY Zenon DEF AfterReconnect, Retries, TableOf
<1>2. batch[a] \in Seq(Rows) /\ DOMAIN batch[a] = 1..Len(batch[a])
  BY DEF TypeOK
<1>3. ~(\A n \in 1..Len(batch[a]) : batch[a][n] \in Ticks)
  BY <1>1, <1>2, Zenon DEF Range
<1> QED
  BY <1>3, Zenon DEF Batches

\* A call that goes on outside phase 1 and the insertion keeps its rows.
LEMMA GotoKeeps ==
  ASSUME TypeOK, Holdings, NEW a \in Actors, pc[a] \notin Resting,
         NEW label \in Labels \ (Resting \cup {"phase1", "insert"}), Goto(a, label),
         label = "retry" => batch[a][1] \in Books,
         \A b \in Actors : b # a /\ pc[b] = "insert" => connected' = connected,
         UNCHANGED <<buffers, arrived, copies, fallen>>
  PROVE  Holdings'
<1>1. /\ pc'[a] = label /\ UNCHANGED <<batch, done>>
      /\ \A b \in Actors : b # a => pc'[b] = pc[b]
  BY Zenon DEF TypeOK, Goto
<1>2. Batches'
  BY <1>1 DEF Holdings, Batches
<1>3. OnePlace'
  BY <1>1, OnePlaceStays, ZenonT(30) DEF Holdings
<1>4. Copied'
  <2>1. ASSUME NEW b \in Actors, NEW n \in 1..Len(batch[b])
        PROVE  /\ fallen[batch[b][n]] = 0
               /\ batch[b][n] \in Books \/ pc'[b] = "phase1" \/ (pc'[b] = "insert" /\ n > done[b])
                    => copies[batch[b][n]] = 0
               /\ pc'[b] = "insert" /\ n <= done[b] => copies[batch[b][n]] = 1
    <3>1. pc'[b] \in {"phase1", "insert"} => pc'[b] = pc[b]
      BY <1>1, Zenon
    <3> QED
      BY <3>1, CopiedAt, Zenon DEF Holdings
  <2>2. /\ \A r \in Rows : copies[r] <= 1 /\ fallen[r] <= 1
        /\ \A r \in Books : copies[r] + fallen[r] <= 1
        /\ \A r \in Rows \ arrived : copies[r] = 0 /\ fallen[r] = 0
        /\ \A i \in 0..1 : \A n \in 1..Len(buffers[i]) : copies[buffers[i][n]] = 0 /\ fallen[buffers[i][n]] = 0
    BY Zenon DEF Holdings, Copied
  <2> QED
    BY <1>1, <2>1, <2>2, ZenonT(30) DEF Copied
<1> QED
  BY <1>2, <1>3, <1>4, Zenon DEF Holdings

\* A call that starts to insert has given no row to a writer yet.
LEMMA TakeSharedKeeps ==
  ASSUME TypeOK, Holdings, NEW a \in Actors, TakeShared(a)
  PROVE  Holdings'
<1>1. /\ pc[a] \in {"phase1", "retry"} /\ pc'[a] \in {"insert", "reconnect", "fallback"} /\ done'[a] = 0
      /\ \A b \in Actors : b # a => pc'[b] = pc[b] /\ done'[b] = done[b]
      /\ UNCHANGED <<batch, buffers, arrived, copies, fallen, connected>>
  BY Zenon DEF TypeOK, TakeShared, bufferVars, histories
<1>2. batch[a] \in Seq(Rows) /\ batch[a] # << >> /\ Len(batch[a]) \in Nat /\ Len(batch[a]) > 0
  <2>1. batch[a] \in Seq(Rows)
    BY Zenon DEF TypeOK
  <2>2. batch[a] # << >>
    BY <1>1, ZenonT(30) DEF Holdings, Batches, Resting
  <2> QED
    BY <2>1, <2>2
<1>3. Batches'
  BY <1>1, <1>2, SMTT(30) DEF Holdings, Batches, Resting
<1>4. OnePlace'
  BY <1>1, OnePlaceStays, Zenon DEF Holdings
<1>5. \A n \in 1..Len(batch[a]) : copies[batch[a][n]] = 0
  <2>1. CASE pc[a] = "phase1"
    BY <2>1, ZenonT(30) DEF Holdings, Copied
  <2>2. CASE pc[a] = "retry"
    <3>1. batch[a][1] \in Books /\ batch[a][1] \notin Ticks /\ 1 \in 1..Len(batch[a])
      BY <1>2, <2>2, DisjointAssumption DEF Holdings, Batches
    <3>2. Len(batch[a]) = 1
      BY <3>1, Zenon DEF Holdings, Batches
    <3> QED
      BY <3>1, <3>2, SMTT(30) DEF Holdings, Copied
  <2> QED
    BY <1>1, <2>1, <2>2, Zenon
<1>6. Copied'
  <2>1. ASSUME NEW b \in Actors, NEW n \in 1..Len(batch[b])
        PROVE  /\ fallen[batch[b][n]] = 0
               /\ batch[b][n] \in Books \/ pc'[b] = "phase1" \/ (pc'[b] = "insert" /\ n > done'[b])
                    => copies[batch[b][n]] = 0
               /\ pc'[b] = "insert" /\ n <= done'[b] => copies[batch[b][n]] = 1
    <3>1. CASE b = a
      <4>1. fallen[batch[b][n]] = 0 /\ copies[batch[b][n]] = 0
        BY <1>5, <3>1, Zenon DEF Holdings, Copied
      <4>2. done'[b] = 0 /\ n > 0 /\ ~(n <= 0)
        BY <1>1, <3>1
      <4> QED
        BY <4>1, <4>2, Zenon
    <3>2. CASE b # a
      <4>1. pc'[b] = pc[b] /\ done'[b] = done[b]
        BY <1>1, <3>2, Zenon
      <4> QED
        BY <4>1, Zenon DEF Holdings, Copied
    <3> QED
      BY <3>1, <3>2, Zenon
  <2> QED
    BY <1>1, <2>1, Zenon DEF Holdings, Copied
<1> QED
  BY <1>3, <1>4, <1>6, Zenon DEF Holdings

\* A call that returns lets go of its rows and of nothing else.
LEMMA ReturnKeeps ==
  ASSUME TypeOK, Batches, OnePlace, NEW a \in Actors, Return(a), UNCHANGED <<buffers, arrived, connected>>
  PROVE  /\ Batches' /\ OnePlace'
         /\ 1..Len(batch'[a]) = {}
         /\ \A b \in Actors : b # a => batch'[b] = batch[b] /\ pc'[b] = pc[b] /\ done'[b] = done[b]
<1>1. /\ pc'[a] = "idle" /\ batch'[a] = << >>
      /\ \A b \in Actors : b # a => batch'[b] = batch[b] /\ pc'[b] = pc[b] /\ done'[b] = done[b]
  BY Zenon DEF TypeOK, Return
<1>2. 1..Len(batch'[a]) = {}
  BY <1>1
<1>3. Batches'
  BY <1>1, <1>2, Zenon DEF Batches, Resting
<1>4. OnePlace'
  <2>1. ASSUME NEW i \in 0..1, NEW n \in 1..Len(buffers[i])
        PROVE  /\ buffers[i][n] \in arrived
               /\ \A m \in 1..Len(buffers[i]) : buffers[i][m] = buffers[i][n] => m = n
               /\ \A b \in Actors : \A m \in 1..Len(batch'[b]) : batch'[b][m] # buffers[i][n]
    <3>1. ASSUME NEW b \in Actors, NEW m \in 1..Len(batch'[b]) PROVE batch'[b][m] # buffers[i][n]
      <4>1. batch'[b] = batch[b]
        <5>1. b # a
          BY <1>2, Zenon
        <5> QED
          BY <1>1, <5>1, Zenon
      <4>2. \A k \in 1..Len(batch[b]) : batch[b][k] # buffers[i][n]
        BY DEF OnePlace
      <4> QED
        BY <4>1, <4>2, Zenon
    <3> QED
      BY <3>1, Zenon DEF OnePlace
  <2>2. ASSUME NEW b \in Actors, NEW c \in Actors, NEW n \in 1..Len(batch'[b]), NEW m \in 1..Len(batch'[c]),
               batch'[b][n] = batch'[c][m]
        PROVE  b = c /\ n = m
    <3>1. b # a /\ c # a
      BY <1>2, <2>2, Zenon
    <3>2. n \in 1..Len(batch[b]) /\ m \in 1..Len(batch[c]) /\ batch[b][n] = batch[c][m]
      BY <1>1, <2>2, <3>1, Zenon
    <3>3. \A i \in 1..Len(batch[b]), j \in 1..Len(batch[c]) : batch[b][i] = batch[c][j] => b = c /\ i = j
      BY Zenon DEF OnePlace
    <3> QED
      BY <3>2, <3>3, Zenon
  <2>3. buffers' = buffers /\ arrived' = arrived
    BY Zenon
  <2>4. ASSUME NEW i \in 0..1, NEW n \in 1..Len(buffers'[i])
        PROVE  (/\ buffers[i][n] \in arrived
                /\ \A m \in 1..Len(buffers[i]) : buffers[i][m] = buffers[i][n] => m = n
                /\ \A b \in Actors : \A m \in 1..Len(batch[b]) : batch[b][m] # buffers[i][n])'
    BY <2>1, <2>3, Zenon
  <2> QED
    BY <2>2, <2>4, Zenon DEF OnePlace
<1> QED
  BY <1>1, <1>2, <1>3, <1>4, Zenon

\* The row InsertRow gives to the writer no writer has had.
LEMMA InsertRowKeeps ==
  ASSUME TypeOK, Holdings, NEW a \in Actors, InsertRow(a)
  PROVE  Holdings'
<1> DEFINE n == done[a] + 1
           x == batch[a][n]
<1>1. /\ pc[a] = "insert" /\ connected /\ done[a] \in Nat /\ batch[a] \in Seq(Rows)
      /\ done[a] < Len(batch[a]) /\ copies \in [Rows -> Nat] /\ Books \subseteq Rows
      /\ UNCHANGED <<buffers, arrived, fallen, connected>>
  BY Zenon DEF TypeOK, Holdings, Batches, InsertRow, bufferVars, Rows
<1>2. n \in 1..Len(batch[a]) /\ n > done[a] /\ x \in Rows
  BY <1>1, SMTT(30)
<1>3. copies[x] = 0 /\ fallen[x] = 0 /\ x \in arrived
  BY <1>1, <1>2, Zenon DEF Holdings, Copied, Batches
<1>4. copies'[x] = 1 /\ \A r \in Rows : r # x => copies'[r] = copies[r]
  <2>1. copies' = [copies EXCEPT ![x] = @ + 1]
    BY Zenon DEF InsertRow
  <2> QED
    BY <1>1, <1>2, <1>3, <2>1
<1>5. /\ \A i \in 0..1 : \A m \in 1..Len(buffers[i]) : buffers[i][m] # x
      /\ \A b \in Actors : b # a => \A m \in 1..Len(batch[b]) : batch[b][m] # x
      /\ \A m \in 1..Len(batch[a]) : m # n => batch[a][m] # x
  <2>1. \A i \in 0..1 : \A m \in 1..Len(buffers[i]) : \A k \in 1..Len(batch[a]) : batch[a][k] # buffers[i][m]
    BY Zenon DEF Holdings, OnePlace
  <2>2. \A b \in Actors : \A m \in 1..Len(batch[b]), k \in 1..Len(batch[a]) :
          batch[b][m] = batch[a][k] => b = a /\ m = k
    BY Zenon DEF Holdings, OnePlace
  <2> HIDE DEF n
  <2> QED
    BY <1>2, <2>1, <2>2, Zenon
<1>6. /\ \A i \in 0..1 : \A m \in 1..Len(buffers[i]) : buffers[i][m] \in Rows
      /\ \A b \in Actors : \A m \in 1..Len(batch[b]) : batch[b][m] \in Rows
  <2>1. buffers \in [0..1 -> Seq(Ticks)] /\ batch \in [Actors -> Seq(Rows)]
    BY Zenon DEF TypeOK
  <2> QED
    BY <2>1 DEF Rows
<1> HIDE DEF n, x
<1>7. /\ \A r \in Rows : copies'[r] <= 1 /\ fallen[r] <= 1
      /\ \A r \in Books : copies'[r] + fallen[r] <= 1
      /\ \A r \in Rows \ arrived : copies'[r] = 0 /\ fallen[r] = 0
  <2>1. /\ \A r \in Rows : copies[r] <= 1 /\ fallen[r] <= 1
        /\ \A r \in Books : copies[r] + fallen[r] <= 1
        /\ \A r \in Rows \ arrived : copies[r] = 0 /\ fallen[r] = 0
    BY Zenon DEF Holdings, Copied
  <2> QED
    BY <1>1, <1>2, <1>3, <1>4, <2>1, SMTT(30)
<1>8. \A i \in 0..1 : \A m \in 1..Len(buffers[i]) : copies'[buffers[i][m]] = 0 /\ fallen[buffers[i][m]] = 0
  <2> SUFFICES ASSUME NEW i \in 0..1, NEW m \in 1..Len(buffers[i])
               PROVE  copies'[buffers[i][m]] = 0 /\ fallen[buffers[i][m]] = 0
    BY Zenon
  <2>1. copies'[buffers[i][m]] = copies[buffers[i][m]]
    BY <1>4, <1>5, <1>6, Zenon
  <2>2. copies[buffers[i][m]] = 0 /\ fallen[buffers[i][m]] = 0
    BY Zenon DEF Holdings, Copied
  <2> QED
    BY <2>1, <2>2, Zenon
<1>9. ASSUME NEW b \in Actors, b # a, NEW m \in 1..Len(batch[b])
      PROVE  copies'[batch[b][m]] = copies[batch[b][m]]
  BY <1>4, <1>5, <1>6, <1>9, Zenon
<1>10. CASE n = Len(batch[a])
  <2>1. Return(a)
    BY <1>10, Zenon DEF InsertRow, n
  <2>2. /\ Batches' /\ OnePlace' /\ 1..Len(batch'[a]) = {}
        /\ \A b \in Actors : b # a => batch'[b] = batch[b] /\ pc'[b] = pc[b] /\ done'[b] = done[b]
    BY <1>1, <2>1, ReturnKeeps, Zenon DEF Holdings
  <2>3. ASSUME NEW b \in Actors, NEW m \in 1..Len(batch'[b])
        PROVE  /\ fallen[batch'[b][m]] = 0
               /\ batch'[b][m] \in Books \/ pc'[b] = "phase1" \/ (pc'[b] = "insert" /\ m > done'[b])
                    => copies'[batch'[b][m]] = 0
               /\ pc'[b] = "insert" /\ m <= done'[b] => copies'[batch'[b][m]] = 1
    <3>1. b # a /\ batch'[b] = batch[b] /\ pc'[b] = pc[b] /\ done'[b] = done[b]
      BY <2>2, <2>3, Zenon
    <3>2. m \in 1..Len(batch[b])
      BY <2>3, <3>1, Zenon
    <3>3. copies'[batch[b][m]] = copies[batch[b][m]]
      BY <1>9, <3>1, <3>2, Zenon
    <3>4. /\ fallen[batch[b][m]] = 0
          /\ batch[b][m] \in Books \/ pc[b] = "phase1" \/ (pc[b] = "insert" /\ m > done[b])
               => copies[batch[b][m]] = 0
          /\ pc[b] = "insert" /\ m <= done[b] => copies[batch[b][m]] = 1
      BY <3>2, CopiedAt, Zenon DEF Holdings
    <3> QED
      BY <3>1, <3>3, <3>4, Zenon
  <2>4. Copied'
    BY <1>1, <1>7, <1>8, <2>3, Zenon DEF Copied
  <2> QED
    BY <2>2, <2>4, Zenon DEF Holdings
<1>11. CASE n # Len(batch[a])
  <2>1. done' = [done EXCEPT ![a] = n] /\ UNCHANGED <<pc, batch>>
    BY <1>11, Zenon DEF InsertRow, n
  <2>2. done'[a] = n /\ \A b \in Actors : b # a => done'[b] = done[b]
    BY <2>1, Zenon DEF TypeOK
  <2>3. n < Len(batch[a]) /\ Len(batch[a]) # 1 /\ n = done[a] + 1
    <3>1. Len(batch[a]) \in Nat
      BY <1>1
    <3>2. n = done[a] + 1 /\ done[a] \in Nat /\ done[a] < Len(batch[a])
      BY <1>1, Zenon DEF n
    <3>3. n < Len(batch[a])
      BY <1>11, <3>1, <3>2
    <3>4. n \in Nat /\ n >= 1
      BY <3>2
    <3>5. Len(batch[a]) # 1
      <4> SUFFICES ASSUME Len(batch[a]) = 1 PROVE FALSE
        BY Zenon
      <4>1. n < 1
        BY <3>3, Zenon
      <4> QED
        BY <3>4, <4>1
    <3> QED
      BY <3>2, <3>3, <3>5, Zenon
  <2>4. \A m \in 1..Len(batch[a]) : batch[a][m] \in Ticks /\ batch[a][m] \notin Books
    BY <2>3, DisjointAssumption, Zenon DEF Holdings, Batches
  <2>5. Batches'
    BY <1>1, <2>1, <2>2, <2>3, Zenon DEF Holdings, Batches
  <2>6. OnePlace'
    BY <1>1, <2>1, OnePlaceStays, Zenon DEF Holdings
  <2>7. ASSUME NEW b \in Actors, NEW m \in 1..Len(batch[b])
        PROVE  /\ fallen[batch[b][m]] = 0
               /\ batch[b][m] \in Books \/ pc[b] = "phase1" \/ (pc[b] = "insert" /\ m > done'[b])
                    => copies'[batch[b][m]] = 0
               /\ pc[b] = "insert" /\ m <= done'[b] => copies'[batch[b][m]] = 1
    <3>1. CASE b # a
      <4>1. copies'[batch[b][m]] = copies[batch[b][m]] /\ done'[b] = done[b]
        BY <1>9, <2>2, <3>1, Zenon
      <4> QED
        BY <4>1, Zenon DEF Holdings, Copied
    <3>2. CASE b = a /\ m = n
      <4>1. batch[b][m] = x /\ done'[b] = n /\ pc[b] = "insert" /\ x \notin Books
        BY <1>1, <2>2, <2>4, <3>2, Zenon DEF x
      <4>2. ~(m > n)
        BY <1>2, <3>2
      <4> QED
        BY <1>3, <1>4, <4>1, <4>2, Zenon
    <3>3. CASE b = a /\ m # n
      <4>1. copies'[batch[a][m]] = copies[batch[a][m]]
        BY <1>4, <1>5, <1>6, <3>3, Zenon
      <4>2. (m > n => m > done[a]) /\ (m <= n => m <= done[a])
        BY <1>1, <2>3, <3>3
      <4> QED
        BY <1>1, <2>2, <2>4, <3>3, <4>1, <4>2, Zenon DEF Holdings, Copied
    <3> QED
      BY <3>1, <3>2, <3>3, Zenon
  <2>8. Copied'
    BY <1>1, <1>7, <1>8, <2>1, <2>7, Zenon DEF Copied
  <2> QED
    BY <2>5, <2>6, <2>8, Zenon DEF Holdings
<1> QED
  BY <1>10, <1>11, Zenon

\* The rows of a batch that goes to the fallback have not been there.
LEMMA WriteFallbackKeeps ==
  ASSUME TypeOK, Holdings, NEW a \in Actors, WriteFallback(a)
  PROVE  Holdings'
<1>1. /\ Return(a) /\ UNCHANGED <<buffers, arrived, copies, connected>> /\ Books \subseteq Rows
      /\ fallen' = [r \in Rows |-> fallen[r] + IF r \in Range(batch[a]) THEN 1 ELSE 0]
      /\ fallen \in [Rows -> Nat] /\ copies \in [Rows -> Nat]
  BY Zenon DEF WriteFallback, bufferVars, Rows, TypeOK
<1>2. /\ Batches' /\ OnePlace' /\ 1..Len(batch'[a]) = {}
      /\ \A b \in Actors : b # a => batch'[b] = batch[b] /\ pc'[b] = pc[b] /\ done'[b] = done[b]
  BY <1>1, ReturnKeeps, Zenon DEF Holdings
<1>3. /\ \A i \in 0..1 : \A m \in 1..Len(buffers[i]) : buffers[i][m] \in Rows
      /\ \A b \in Actors : \A m \in 1..Len(batch[b]) : batch[b][m] \in Rows
      /\ \A b \in Actors : DOMAIN batch[b] = 1..Len(batch[b])
  <2>1. buffers \in [0..1 -> Seq(Ticks)] /\ batch \in [Actors -> Seq(Rows)]
    BY Zenon DEF TypeOK
  <2> QED
    BY <2>1 DEF Rows
<1>4. ASSUME NEW r \in Rows, \A m \in 1..Len(batch[a]) : batch[a][m] # r PROVE fallen'[r] = fallen[r]
  <2>1. r \notin Range(batch[a])
    BY <1>3, <1>4, Zenon DEF Range
  <2> QED
    BY <1>1, <2>1
<1>5. ASSUME NEW m \in 1..Len(batch[a])
      PROVE  /\ fallen'[batch[a][m]] = 1 /\ batch[a][m] \in arrived
             /\ batch[a][m] \in Books => copies[batch[a][m]] = 0
  <2>1. fallen[batch[a][m]] = 0 /\ batch[a][m] \in Range(batch[a]) /\ batch[a][m] \in Rows
    BY <1>3, Zenon DEF Holdings, Copied, Range
  <2>2. fallen'[batch[a][m]] = 1
    BY <1>1, <2>1
  <2> QED
    BY <2>2, Zenon DEF Holdings, Copied, Batches
<1>6. ASSUME NEW r \in Rows
      PROVE  /\ copies[r] <= 1 /\ fallen'[r] <= 1 /\ (r \in Books => copies[r] + fallen'[r] <= 1)
             /\ r \notin arrived => copies[r] = 0 /\ fallen'[r] = 0
  <2>1. CASE \E m \in 1..Len(batch[a]) : batch[a][m] = r
    <3>1. fallen'[r] = 1 /\ r \in arrived /\ (r \in Books => copies[r] = 0)
      BY <1>5, <2>1, Zenon
    <3>2. copies[r] <= 1 /\ copies[r] \in Nat
      BY <1>1, Zenon DEF Holdings, Copied
    <3> QED
      BY <3>1, <3>2
  <2>2. CASE \A m \in 1..Len(batch[a]) : batch[a][m] # r
    BY <1>1, <1>4, <2>2, Zenon DEF Holdings, Copied
  <2> QED
    BY <2>1, <2>2, Zenon
<1>7. ASSUME NEW i \in 0..1, NEW m \in 1..Len(buffers[i])
      PROVE  copies[buffers[i][m]] = 0 /\ fallen'[buffers[i][m]] = 0
  <2>1. \A k \in 1..Len(batch[a]) : batch[a][k] # buffers[i][m]
    BY Zenon DEF Holdings, OnePlace
  <2> QED
    BY <1>3, <1>4, <2>1, Zenon DEF Holdings, Copied
<1>8. ASSUME NEW b \in Actors, NEW m \in 1..Len(batch'[b])
      PROVE  /\ fallen'[batch'[b][m]] = 0
             /\ batch'[b][m] \in Books \/ pc'[b] = "phase1" \/ (pc'[b] = "insert" /\ m > done'[b])
                  => copies[batch'[b][m]] = 0
             /\ pc'[b] = "insert" /\ m <= done'[b] => copies[batch'[b][m]] = 1
  <2>1. b # a /\ batch'[b] = batch[b] /\ pc'[b] = pc[b] /\ done'[b] = done[b]
    BY <1>2, <1>8, Zenon
  <2>2. \A k \in 1..Len(batch[a]) : batch[a][k] # batch[b][m]
    BY <2>1, Zenon DEF Holdings, OnePlace
  <2>3. fallen'[batch[b][m]] = fallen[batch[b][m]]
    BY <1>3, <1>4, <2>1, <2>2, Zenon
  <2>4. m \in 1..Len(batch[b])
    BY <1>8, <2>1, Zenon
  <2>5. /\ fallen[batch[b][m]] = 0
        /\ batch[b][m] \in Books \/ pc[b] = "phase1" \/ (pc[b] = "insert" /\ m > done[b])
             => copies[batch[b][m]] = 0
        /\ pc[b] = "insert" /\ m <= done[b] => copies[batch[b][m]] = 1
    BY <2>4, CopiedAt, Zenon DEF Holdings
  <2> QED
    BY <2>1, <2>3, <2>5, Zenon
<1>9. Copied'
  <2>1. UNCHANGED <<buffers, arrived, copies>> /\ Books \subseteq Rows
    BY <1>1, Zenon
  <2>2. /\ \A r \in Rows : copies'[r] <= 1 /\ fallen'[r] <= 1
        /\ \A r \in Books : copies'[r] + fallen'[r] <= 1
        /\ \A r \in Rows \ arrived' : copies'[r] = 0 /\ fallen'[r] = 0
    BY <1>6, <2>1, Zenon
  <2>3. \A i \in 0..1 : \A m \in 1..Len(buffers'[i]) : copies'[buffers'[i][m]] = 0 /\ fallen'[buffers'[i][m]] = 0
    BY <1>7, <2>1, Zenon
  <2>4. copies' = copies
    BY <2>1, Zenon
  <2> QED
    BY <1>8, <2>2, <2>3, <2>4, Zenon DEF Copied
<1> QED
  BY <1>2, <1>9, Zenon DEF Holdings

\* Every step keeps what the buffers and the calls hold.
LEMMA HoldingsKept ==
  TypeOK /\ Locking /\ Closing /\ Holdings /\ [Next]_vars => Holdings'
<1> SUFFICES ASSUME TypeOK, Locking, Closing, Holdings, [Next]_vars PROVE Holdings'
  BY Zenon
<1>0. UNCHANGED <<buffers, pc, batch, done, arrived, copies, fallen, connected>> => Holdings'
  <2> SUFFICES ASSUME UNCHANGED <<buffers, pc, batch, done, arrived, copies, fallen, connected>> PROVE Holdings'
    BY Zenon
  <2>1. Batches'
    BY Zenon DEF Holdings, Batches
  <2>2. OnePlace'
    BY OnePlaceStays, Zenon DEF Holdings
  <2>3. Copied'
    BY Zenon DEF Holdings, Copied
  <2> QED
    BY <2>1, <2>2, <2>3, Zenon DEF Holdings
<1>1. CASE ServerDown
  BY <1>1, <1>0, Zenon DEF ServerDown, bufferVars, callVars, histories
<1>2. CASE ServerBack
  BY <1>2, <1>0, Zenon DEF ServerBack, bufferVars, callVars, histories
<1>3. ASSUME NEW tb \in Tables, WriterSend(tb) PROVE Holdings'
  BY <1>3, <1>0, Zenon DEF WriterSend, bufferVars, callVars, histories
<1>4. ASSUME NEW t \in Threads, NEW r \in Rows, NEW elapsed \in BOOLEAN, InsertTick(t, r, elapsed) PROVE Holdings'
  <2> DEFINE rows == Append(buffers[active], r)
             L == Len(buffers[active])
  <2>1. /\ t \in Actors /\ pc[t] \in Resting /\ r \in Ticks \ arrived /\ arrived' = arrived \cup {r}
        /\ active \in 0..1 /\ buffers \in [0..1 -> Seq(Ticks)] /\ buffers[1 - active] = << >>
        /\ UNCHANGED <<connected, copies, fallen>> /\ batch \in [Actors -> Seq(Rows)]
    BY <1>4, Zenon DEF InsertTick, TypeOK, Actors, Resting
  <2>2. /\ rows \in Seq(Ticks) /\ L \in Nat /\ Len(rows) = L + 1 /\ rows[L + 1] = r
        /\ \A n \in 1..L : rows[n] = buffers[active][n]
        /\ 1..(L + 1) = (1..L) \cup {L + 1}
    BY <2>1
  <2>3. /\ \A n \in 1..L : rows[n] \in arrived /\ copies[rows[n]] = 0 /\ fallen[rows[n]] = 0
        /\ \A n, m \in 1..L : rows[n] = rows[m] => n = m
        /\ \A n \in 1..L, b \in Actors : \A m \in 1..Len(batch[b]) : batch[b][m] # rows[n]
    <3>1. /\ \A n \in 1..L : buffers[active][n] \in arrived /\ copies[buffers[active][n]] = 0
                              /\ fallen[buffers[active][n]] = 0
          /\ \A n, m \in 1..L : buffers[active][n] = buffers[active][m] => n = m
          /\ \A n \in 1..L, b \in Actors : \A m \in 1..Len(batch[b]) : batch[b][m] # buffers[active][n]
      <4>1. \A n \in 1..L : copies[buffers[active][n]] = 0 /\ fallen[buffers[active][n]] = 0
        BY <2>1, Zenon DEF Holdings, Copied
      <4>2. \A n \in 1..L : buffers[active][n] \in arrived
        BY <2>1, Zenon DEF Holdings, OnePlace
      <4>3. \A n, m \in 1..L : buffers[active][n] = buffers[active][m] => n = m
        BY <2>1, Zenon DEF Holdings, OnePlace
      <4>4. \A n \in 1..L, b \in Actors : \A m \in 1..Len(batch[b]) : batch[b][m] # buffers[active][n]
        BY <2>1, Zenon DEF Holdings, OnePlace
      <4> QED
        BY <4>1, <4>2, <4>3, <4>4, Zenon
    <3> HIDE DEF rows, L
    <3>2. \A n \in 1..L : rows[n] \in arrived /\ copies[rows[n]] = 0 /\ fallen[rows[n]] = 0
      BY <2>2, <3>1, Zenon
    <3>3. \A n, m \in 1..L : rows[n] = rows[m] => n = m
      BY <2>2, <3>1, Zenon
    <3>4. ASSUME NEW n \in 1..L, NEW b \in Actors, NEW m \in 1..Len(batch[b]) PROVE batch[b][m] # rows[n]
      <4>1. rows[n] = buffers[active][n]
        BY <2>2, Zenon
      <4> QED
        BY <3>1, <4>1, ZenonT(30)
    <3> QED
      BY <3>2, <3>3, <3>4, Zenon
  <2>4. /\ copies[r] = 0 /\ fallen[r] = 0 /\ r \in Rows
        /\ \A b \in Actors : \A m \in 1..Len(batch[b]) : batch[b][m] # r
    BY <2>1 DEF Holdings, Batches, Copied, Rows
  <2> HIDE DEF rows, L
  <2>5. Pending(rows)
    <3>1. ASSUME NEW n \in 1..Len(rows), NEW m \in 1..Len(rows), rows[n] = rows[m] PROVE n = m
      <4>1. (n \in 1..L \/ (n = L + 1 /\ rows[n] = r)) /\ (m \in 1..L \/ (m = L + 1 /\ rows[m] = r))
        BY <2>2, Zenon
      <4>2. \A k \in 1..L : rows[k] # r
        BY <2>1, <2>3, Zenon
      <4> QED
        BY <2>3, <3>1, <4>1, <4>2, Zenon
    <3>2. ASSUME NEW n \in 1..Len(rows)
          PROVE  /\ rows[n] \in arrived' /\ copies[rows[n]] = 0 /\ fallen[rows[n]] = 0
                 /\ \A b \in Actors : \A m \in 1..Len(batch[b]) : batch[b][m] # rows[n]
      <4>1. n \in 1..L \/ (n = L + 1 /\ rows[n] = r)
        BY <2>2, Zenon
      <4> QED
        BY <2>1, <2>3, <2>4, <4>1, Zenon
    <3> QED
      BY <3>1, <3>2, Zenon DEF Pending
  <2>6. Pending(<< >>)
    BY DEF Pending
  <2>7. CASE FlushDue(rows, elapsed)
    <3>1. buffers' = [buffers EXCEPT ![active] = << >>] /\ FlushBuffer(t, rows)
      BY <1>4, <2>7, Zenon DEF InsertTick, rows
    <3>2. \A i \in 0..1 : buffers'[i] = << >>
      BY <2>1, <3>1
    <3>3. Behind(rows)
      BY <2>6, <3>2 DEF Behind
    <3> QED
      BY <2>1, <2>2, <2>5, <3>1, <3>3, FlushKeeps, Zenon DEF Holdings
  <2>8. CASE ~FlushDue(rows, elapsed)
    <3>1. buffers' = [buffers EXCEPT ![active] = rows] /\ UNCHANGED callVars
      BY <1>4, <2>8, Zenon DEF InsertTick, rows
    <3>2. \A i \in 0..1 : buffers'[i] = rows \/ buffers'[i] = << >>
      BY <2>1, <3>1, SMTT(30)
    <3>3. Behind(<< >>)
      BY <2>5, <2>6, <3>2 DEF Behind
    <3> QED
      BY <2>1, <3>1, <3>3, StayKeeps, Zenon DEF Holdings
  <2> QED
    BY <2>7, <2>8, Zenon
<1>5. ASSUME NEW t \in Threads, NEW r \in Rows, InsertBook(t, r) PROVE Holdings'
  <2>1. /\ t \in Actors /\ pc[t] \in Resting /\ r \in Books \ arrived /\ arrived' = arrived \cup {r}
        /\ buffers \in [0..1 -> Seq(Ticks)] /\ r \in Rows /\ r \notin Ticks
        /\ UNCHANGED <<connected, copies, fallen, buffers>>
    BY <1>5, DisjointAssumption, ZenonT(30) DEF InsertBook, TypeOK, Actors, Resting, Rows, bufferVars
  <2>2. /\ copies[r] = 0 /\ fallen[r] = 0
        /\ \A b \in Actors : \A m \in 1..Len(batch[b]) : batch[b][m] # r
    BY <2>1 DEF Holdings, Batches, Copied
  <2>3. Len(<<r>>) = 1 /\ <<r>>[1] = r /\ 1..1 = {1} /\ <<r>> \in Seq(Rows) /\ <<r>> # << >>
    BY <2>1
  <2>4. Pending(<<r>>)
    BY <2>1, <2>2, <2>3, ZenonT(30) DEF Pending
  <2>5. ASSUME NEW i \in 0..1 PROVE Pending(buffers[i]) /\ \A n \in 1..Len(buffers[i]) : buffers[i][n] # r
    <3>1. \A n \in 1..Len(buffers[i]) : buffers[i][n] \in arrived /\ buffers[i][n] # r
      BY <2>1 DEF Holdings, OnePlace
    <3> QED
      BY <2>1, <3>1, BufferPending, Zenon DEF Holdings
  <2>6. Behind(<<r>>) /\ Behind(<< >>)
    BY <2>1, <2>3, <2>5 DEF Behind
  <2>7. CASE IsValidExchangeTimestamp(r)
    <3>1. Enter(t, <<r>>) /\ r \notin BadRows
      BY <1>5, <2>7, Zenon DEF InsertBook, IsValidExchangeTimestamp
    <3> QED
      BY <2>1, <2>3, <2>4, <2>6, <3>1, EnterKeeps, Zenon DEF Holdings
  <2>8. CASE ~IsValidExchangeTimestamp(r)
    <3>1. UNCHANGED callVars
      BY <1>5, <2>8, Zenon DEF InsertBook
    <3> QED
      BY <2>1, <2>6, <3>1, StayKeeps, Zenon DEF Holdings
  <2> QED
    BY <2>7, <2>8, Zenon
<1>6. ASSUME NEW a \in Actors, TakeShared(a) PROVE Holdings'
  BY <1>6, TakeSharedKeeps, Zenon
<1>7. ASSUME NEW a \in Actors, InsertRow(a) PROVE Holdings'
  BY <1>7, InsertRowKeeps, Zenon
<1>8. ASSUME NEW a \in Actors, InsertFails(a) PROVE Holdings'
  <2> DEFINE label == OnFailure(a)
  <2>1. pc[a] = "insert" /\ Goto(a, label) /\ UNCHANGED <<buffers, arrived, copies, fallen, connected>>
    BY <1>8, Zenon DEF InsertFails, bufferVars, histories
  <2>3. pc[a] \notin Resting /\ label \in Labels \ (Resting \cup {"phase1", "insert", "retry"})
    BY <2>1, Zenon DEF Labels, Resting, OnFailure
  <2> HIDE DEF label
  <2> QED
    BY <2>1, <2>3, GotoKeeps, Zenon
<1>9. ASSUME NEW a \in Actors, TryReconnect(a) PROVE Holdings'
  <2> DEFINE label == IF reconnecting THEN "spin" ELSE "lock"
  <2>1. pc[a] = "reconnect" /\ Goto(a, label) /\ UNCHANGED <<buffers, arrived, copies, fallen, connected>>
    BY <1>9, Zenon DEF TryReconnect, bufferVars, histories
  <2>3. pc[a] \notin Resting /\ label \in Labels \ (Resting \cup {"phase1", "insert", "retry"})
    BY <2>1, Zenon DEF Labels, Resting
  <2> HIDE DEF label
  <2> QED
    BY <2>1, <2>3, GotoKeeps, Zenon
<1>10. ASSUME NEW a \in Actors, SpinWait(a) PROVE Holdings'
  <2>1. pc[a] = "spin" /\ UNCHANGED <<buffers, arrived, copies, fallen, connected>>
    BY <1>10, Zenon DEF SpinWait, bufferVars, histories
  <2>2. CASE UNCHANGED <<pc, batch, done, phase>>
    BY <1>0, <2>1, <2>2, Zenon
  <2>3. ASSUME NEW ok \in BOOLEAN, Goto(a, AfterReconnect(a, ok)) PROVE Holdings'
    <3> DEFINE label == AfterReconnect(a, ok)
    <3>1. label = "retry" => batch[a][1] \in Books
      BY RetryIsBook, Zenon DEF Holdings
    <3>2. pc[a] \notin Resting /\ label \in Labels \ (Resting \cup {"phase1", "insert"})
      BY <2>1, Zenon DEF Labels, Resting, AfterReconnect
    <3>3. Goto(a, label)
      BY <2>3, Zenon
    <3> HIDE DEF label
    <3> QED
      BY <2>1, <3>1, <3>2, <3>3, GotoKeeps, Zenon
  <2>4. (~degraded) \in BOOLEAN /\ FALSE \in BOOLEAN
    BY Zenon DEF TypeOK
  <2> QED
    BY <1>10, <2>2, <2>3, <2>4, Zenon DEF SpinWait
<1>11. ASSUME NEW a \in Actors, TakeExclusive(a) PROVE Holdings'
  <2> DEFINE label == "destroy"
  <2>1. pc[a] = "lock" /\ Goto(a, label) /\ UNCHANGED <<buffers, arrived, copies, fallen, connected>>
    BY <1>11, Zenon DEF TakeExclusive, bufferVars, histories
  <2>3. pc[a] \notin Resting /\ label \in Labels \ (Resting \cup {"phase1", "insert", "retry"})
    BY <2>1, Zenon DEF Labels, Resting
  <2> HIDE DEF label
  <2> QED
    BY <2>1, <2>3, GotoKeeps, Zenon
<1>12. ASSUME NEW a \in Actors, ReconnectDestroy(a) PROVE Holdings'
  <2> DEFINE label == "connect"
  <2>1. pc[a] = "destroy" /\ Goto(a, label) /\ UNCHANGED <<buffers, arrived, copies, fallen>>
    BY <1>12, Zenon DEF ReconnectDestroy, bufferVars, histories
  <2>2. \A b \in Actors : b # a => pc[b] # "insert"
    <3>1. a # None
      BY ThreadsAssumption, Zenon DEF Actors, Main, None
    <3> QED
      BY <2>1, <3>1, Zenon DEF Locking, Exclusive
  <2>3. pc[a] \notin Resting /\ label \in Labels \ (Resting \cup {"phase1", "insert", "retry"})
    BY <2>1, Zenon DEF Labels, Resting
  <2> HIDE DEF label
  <2> QED
    BY <2>1, <2>2, <2>3, GotoKeeps, Zenon
<1>13. ASSUME NEW a \in Actors, NEW ok \in BOOLEAN, ReconnectConnect(a, ok) PROVE Holdings'
  <2> DEFINE label == IF ok THEN "unlockOk" ELSE "unlockFailed"
  <2>1. pc[a] = "connect" /\ Goto(a, label) /\ UNCHANGED <<buffers, arrived, copies, fallen>>
    BY <1>13, Zenon DEF ReconnectConnect, bufferVars, histories
  <2>2. \A b \in Actors : b # a => pc[b] # "insert"
    <3>1. a # None
      BY ThreadsAssumption, Zenon DEF Actors, Main, None
    <3> QED
      BY <2>1, <3>1, Zenon DEF Locking, Exclusive
  <2>3. pc[a] \notin Resting /\ label \in Labels \ (Resting \cup {"phase1", "insert", "retry"})
    BY <2>1, Zenon DEF Labels, Resting
  <2> HIDE DEF label
  <2> QED
    BY <2>1, <2>2, <2>3, GotoKeeps, Zenon
<1>14. ASSUME NEW a \in Actors, ReconnectUnlock(a) PROVE Holdings'
  <2> DEFINE label == AfterReconnect(a, pc[a] = "unlockOk")
  <2>1. pc[a] \in {"unlockOk", "unlockFailed"} /\ Goto(a, label) /\ UNCHANGED <<buffers, arrived, copies, fallen, connected>>
    BY <1>14, Zenon DEF ReconnectUnlock, bufferVars, histories
  <2>2. label \in {"retry", "fallback"} /\ (label = "retry" => batch[a][1] \in Books)
    <3>1. (pc[a] = "unlockOk") \in BOOLEAN
      BY Zenon
    <3>2. label = "retry" => batch[a][1] \in Books
      BY <3>1, RetryIsBook, Zenon DEF Holdings
    <3> QED
      BY <3>2, Zenon DEF AfterReconnect
  <2>3. pc[a] \notin Resting /\ label \in Labels \ (Resting \cup {"phase1", "insert"})
    BY <2>1, <2>2, Zenon DEF Labels, Resting
  <2> HIDE DEF label
  <2> QED
    BY <2>1, <2>2, <2>3, GotoKeeps, Zenon
<1>15. ASSUME NEW a \in Actors, WriteFallback(a) PROVE Holdings'
  BY <1>15, WriteFallbackKeeps, Zenon
<1>16. CASE RequestShutdown
  BY <1>16, <1>0, Zenon DEF RequestShutdown, bufferVars, callVars, histories
<1>17. ASSUME NEW t \in Threads, EndThread(t) PROVE Holdings'
  <2>1. /\ t \in Actors /\ pc[t] \in Resting /\ pc'[t] = "ended"
        /\ \A b \in Actors : b # t => pc'[b] = pc[b]
        /\ UNCHANGED <<batch, done, buffers, arrived, copies, fallen, connected>>
    BY <1>17, Zenon DEF EndThread, Goto, TypeOK, Actors, Resting, bufferVars, histories
  <2>2. batch[t] = << >> /\ 1..Len(batch[t]) = {}
    BY <2>1 DEF Holdings, Batches
  <2>3. Batches'
    BY <2>1, <2>2, ZenonT(30) DEF Holdings, Batches, Resting
  <2>4. OnePlace'
    BY <2>1, OnePlaceStays, Zenon DEF Holdings
  <2>5. Copied'
    BY <2>1, <2>2 DEF Holdings, Copied
  <2> QED
    BY <2>3, <2>4, <2>5, Zenon DEF Holdings
<1>18. CASE FlushBufferA
  <2>1. /\ Main \in Actors /\ pc[Main] \in Resting /\ FlushBuffer(Main, buffers[0])
        /\ buffers \in [0..1 -> Seq(Ticks)] /\ buffers' = [buffers EXCEPT ![0] = << >>]
        /\ UNCHANGED <<arrived, connected, copies, fallen>>
    BY <1>18, Zenon DEF FlushBufferA, Closing, TypeOK, Actors, Resting, histories
  <2>2. \A i \in 0..1 : Pending(buffers[i])
    BY <2>1, BufferPending, Zenon DEF Holdings
  <2>3. buffers[0] = << >> \/ buffers[1] = << >>
    BY DEF TypeOK
  <2>4. Behind(buffers[0])
    <3>1. Pending(<< >>)
      BY DEF Pending
    <3>2. buffers'[0] = << >> /\ buffers'[1] = buffers[1]
      BY <2>1
    <3>3. \A i \in 0..1 : buffers'[i] = << >> \/ (buffers'[i] = buffers[i] /\ buffers[0] = << >>)
      BY <2>3, <3>2
    <3> QED
      BY <2>2, <3>1, <3>3 DEF Behind
  <2> QED
    BY <2>1, <2>2, <2>4, FlushKeeps DEF Holdings
<1>19. CASE FlushBufferB
  <2>1. /\ Main \in Actors /\ pc[Main] \in Resting /\ FlushBuffer(Main, buffers[1])
        /\ buffers \in [0..1 -> Seq(Ticks)] /\ buffers' = [buffers EXCEPT ![1] = << >>]
        /\ UNCHANGED <<arrived, connected, copies, fallen>>
    BY <1>19, Zenon DEF FlushBufferB, Closing, TypeOK, Actors, Resting, histories
  <2>2. \A i \in 0..1 : Pending(buffers[i])
    BY <2>1, BufferPending, Zenon DEF Holdings
  <2>3. buffers[0] = << >> \/ buffers[1] = << >>
    BY DEF TypeOK
  <2>4. Behind(buffers[1])
    <3>1. Pending(<< >>)
      BY DEF Pending
    <3>2. buffers'[1] = << >> /\ buffers'[0] = buffers[0]
      BY <2>1
    <3>3. \A i \in 0..1 : buffers'[i] = << >> \/ (buffers'[i] = buffers[i] /\ buffers[1] = << >>)
      BY <2>3, <3>2
    <3> QED
      BY <2>2, <3>1, <3>3 DEF Behind
  <2> QED
    BY <2>1, <2>2, <2>4, FlushKeeps DEF Holdings
<1>20. CASE CloseFallback
  BY <1>20, <1>0, Zenon DEF CloseFallback, bufferVars, callVars, histories
<1>21. CASE Disconnect
  <2>1. \A a \in Actors : pc[a] # "insert"
    BY <1>21, Zenon DEF Disconnect, Closing, Actors
  <2>2. UNCHANGED <<buffers, callVars, arrived, copies, fallen>>
    BY <1>21, Zenon DEF Disconnect, bufferVars, histories
  <2>3. Batches'
    BY <2>1, <2>2, ZenonT(30) DEF callVars, Holdings, Batches
  <2>4. OnePlace' /\ Copied'
    BY <2>2 DEF callVars, Holdings, OnePlace, Copied
  <2> QED
    BY <2>3, <2>4, Zenon DEF Holdings
<1>22. CASE UNCHANGED vars
  BY <1>22, <1>0, Zenon DEF vars, callVars, bufferVars, histories
<1> QED
  BY <1>1, <1>2, <1>3, <1>4, <1>5, <1>6, <1>7, <1>8, <1>9, <1>10, <1>11, <1>12, <1>13, <1>14, <1>15, <1>16, <1>17, <1>18, <1>19, <1>20, <1>21, <1>22, ZenonT(30)
  DEF Next, Call, FlushAndClose, Finished

\* A writer is given valid rows that arrived, and never forgets one.
LEMMA GivenKept ==
  TypeOK /\ Holdings /\ Given /\ [Next]_vars => Given'
<1> SUFFICES ASSUME TypeOK, Holdings, Given, [Next]_vars PROVE Given'
  BY Zenon
<1>0. UNCHANGED <<writerVars, arrived, copies>> => Given'
  BY Zenon DEF writerVars, Given, Handed
<1>00. queued \in [Tables -> SUBSET Rows] /\ copies \in [Rows -> Nat]
  BY Zenon DEF TypeOK
<1>1. CASE ServerDown
  BY <1>1, <1>0, Zenon DEF ServerDown, histories
<1>2. CASE ServerBack
  BY <1>2, <1>0, Zenon DEF ServerBack, histories
<1>3. ASSUME NEW tb \in Tables, WriterSend(tb) PROVE Given'
  BY <1>3, <1>00, Zenon DEF WriterSend, Given, Handed, histories
<1>4. ASSUME NEW t \in Threads, NEW r \in Rows, NEW elapsed \in BOOLEAN, InsertTick(t, r, elapsed) PROVE Given'
  BY <1>4, Zenon DEF InsertTick, writerVars, Given, Handed
<1>5. ASSUME NEW t \in Threads, NEW r \in Rows, InsertBook(t, r) PROVE Given'
  BY <1>5, Zenon DEF InsertBook, writerVars, Given, Handed
<1>6. ASSUME NEW a \in Actors, TakeShared(a) PROVE Given'
  BY <1>6, <1>0, Zenon DEF TakeShared, histories
<1>7. ASSUME NEW a \in Actors, InsertRow(a) PROVE Given'
  <2> DEFINE tb == TableOf(batch[a])
             x == batch[a][done[a] + 1]
  <2>1. tb \in Tables
    BY Zenon DEF TableOf, Tables
  <2>2. done[a] + 1 \in 1..Len(batch[a]) /\ x \in arrived \ BadRows /\ x \in Rows
    <3>1. done[a] \in Nat /\ done[a] < Len(batch[a]) /\ batch[a] \in Seq(Rows)
      BY <1>7, Zenon DEF InsertRow, TypeOK, Holdings, Batches
    <3>2. done[a] + 1 \in 1..Len(batch[a])
      BY <3>1
    <3> QED
      BY <3>1, <3>2 DEF Holdings, Batches
  <2>3. /\ queued' = [queued EXCEPT ![tb] = @ \cup {x}] /\ UNCHANGED <<stored, lost, arrived>>
        /\ copies' = [copies EXCEPT ![x] = @ + 1]
    BY <1>7, Zenon DEF InsertRow
  <2> HIDE DEF tb, x
  <2>4. \A r \in Rows : Handed(r)' <=> Handed(r) \/ r = x
    BY <1>00, <2>1, <2>3, Zenon DEF Handed
  <2> QED
    BY <1>00, <2>2, <2>3, <2>4, Zenon DEF Given
<1>8. ASSUME NEW a \in Actors, InsertFails(a) PROVE Given'
  BY <1>8, <1>0, Zenon DEF InsertFails, histories
<1>9. ASSUME NEW a \in Actors, TryReconnect(a) PROVE Given'
  BY <1>9, <1>0, Zenon DEF TryReconnect, histories
<1>10. ASSUME NEW a \in Actors, SpinWait(a) PROVE Given'
  BY <1>10, <1>0, Zenon DEF SpinWait, histories
<1>11. ASSUME NEW a \in Actors, TakeExclusive(a) PROVE Given'
  BY <1>11, <1>0, Zenon DEF TakeExclusive, histories
<1>12. ASSUME NEW a \in Actors, ReconnectDestroy(a) PROVE Given'
  <2>1. \A r \in Rows : Handed(r)' <=> Handed(r)
    BY <1>12, <1>00, Zenon DEF ReconnectDestroy, DestroyWriters, Handed, Range
  <2> QED
    BY <1>12, <2>1, Zenon DEF ReconnectDestroy, Given, histories
<1>13. ASSUME NEW a \in Actors, NEW ok \in BOOLEAN, ReconnectConnect(a, ok) PROVE Given'
  BY <1>13, <1>0, Zenon DEF ReconnectConnect
<1>14. ASSUME NEW a \in Actors, ReconnectUnlock(a) PROVE Given'
  BY <1>14, <1>0, Zenon DEF ReconnectUnlock, histories
<1>15. ASSUME NEW a \in Actors, WriteFallback(a) PROVE Given'
  BY <1>15, <1>0, Zenon DEF WriteFallback
<1>16. CASE RequestShutdown
  BY <1>16, <1>0, Zenon DEF RequestShutdown, histories
<1>17. ASSUME NEW t \in Threads, EndThread(t) PROVE Given'
  BY <1>17, <1>0, Zenon DEF EndThread, histories
<1>18. CASE FlushBufferA
  BY <1>18, <1>0, Zenon DEF FlushBufferA, histories
<1>19. CASE FlushBufferB
  BY <1>19, <1>0, Zenon DEF FlushBufferB, histories
<1>20. CASE CloseFallback
  BY <1>20, <1>0, Zenon DEF CloseFallback, histories
<1>21. CASE Disconnect
  <2>1. \A r \in Rows : Handed(r)' <=> Handed(r)
    BY <1>21, <1>00, Zenon DEF Disconnect, DestroyWriters, Handed, Range
  <2> QED
    BY <1>21, <2>1, Zenon DEF Disconnect, Given, histories
<1>22. CASE UNCHANGED vars
  BY <1>22, <1>0, Zenon DEF vars, histories
<1> QED
  BY <1>1, <1>2, <1>3, <1>4, <1>5, <1>6, <1>7, <1>8, <1>9, <1>10, <1>11, <1>12, <1>13, <1>14, <1>15, <1>16, <1>17, <1>18, <1>19, <1>20, <1>21, <1>22, ZenonT(30)
  DEF Next, Call, FlushAndClose, Finished

\* A run without trouble never leaves the path to the database.
LEMMA CleanKept ==
  TypeOK /\ Closing /\ CleanSoFar /\ [Next]_vars => CleanSoFar'
<1> SUFFICES ASSUME TypeOK, Closing, CleanSoFar, [Next]_vars PROVE CleanSoFar'
  BY Zenon
<1>0. queued \in [Tables -> SUBSET Rows] /\ failed \in [Tables -> BOOLEAN] /\ pc \in [Actors -> Labels]
  BY Zenon DEF TypeOK
<1>1. CASE ServerDown
  <2>1. outages' # 0
    BY <1>1 DEF ServerDown, TypeOK
  <2> QED
    BY <2>1, Zenon DEF CleanSoFar, Clean
<1>2. CASE ServerBack
  BY <1>2, <1>0, Zenon DEF ServerBack, CleanSoFar, Clean, writerVars, callVars, histories
<1>3. ASSUME NEW tb \in Tables, WriterSend(tb) PROVE CleanSoFar'
  BY <1>3, <1>0, Zenon DEF WriterSend, CleanSoFar, Clean, serverVars, callVars, histories
<1>4. ASSUME NEW t \in Threads, NEW r \in Rows, NEW elapsed \in BOOLEAN, InsertTick(t, r, elapsed) PROVE CleanSoFar'
  <2>1. \A b \in Actors : pc'[b] = pc[b] \/ pc'[b] = "phase1"
    BY <1>4, Zenon DEF InsertTick, FlushBuffer, Enter, callVars, TypeOK
  <2> QED
    BY <1>4, <2>1, Zenon DEF InsertTick, CleanSoFar, Clean, serverVars, writerVars
<1>5. ASSUME NEW t \in Threads, NEW r \in Rows, InsertBook(t, r) PROVE CleanSoFar'
  <2>1. \A b \in Actors : pc'[b] = pc[b] \/ pc'[b] = "phase1"
    BY <1>5, Zenon DEF InsertBook, FlushBuffer, Enter, callVars, TypeOK
  <2> QED
    BY <1>5, <2>1, Zenon DEF InsertBook, CleanSoFar, Clean, serverVars, writerVars
<1>6. ASSUME NEW a \in Actors, TakeShared(a) PROVE CleanSoFar'
  BY <1>6, <1>0, Zenon DEF TakeShared, CleanSoFar, Clean, serverVars, writerVars, histories
<1>7. ASSUME NEW a \in Actors, InsertRow(a) PROVE CleanSoFar'
  <2>1. \A b \in Actors : pc'[b] = pc[b] \/ pc'[b] = "idle"
    BY <1>7, SMTT(30) DEF InsertRow, Return, TypeOK
  <2> QED
    BY <1>7, <2>1, ZenonT(30) DEF InsertRow, CleanSoFar, Clean, serverVars
<1>8. ASSUME NEW a \in Actors, InsertFails(a) PROVE CleanSoFar'
  <2>1. ~Clean
    <3>1. mainPc # "done"
      BY <1>8, Zenon DEF InsertFails, Closing, Actors
    <3>2. TableOf(batch[a]) \in Tables
      BY Zenon DEF TableOf, Tables
    <3> QED
      BY <1>8, <3>1, <3>2, Zenon DEF InsertFails, CleanSoFar
  <2>2. ~Clean'
    BY <1>8, <2>1, Zenon DEF InsertFails, Clean, serverVars, histories
  <2> QED
    BY <2>2, Zenon DEF CleanSoFar
<1>9. ASSUME NEW a \in Actors, TryReconnect(a) PROVE CleanSoFar'
  <2>1. ~Clean
    BY <1>9, Zenon DEF TryReconnect, CleanSoFar
  <2>2. ~Clean'
    BY <1>9, <2>1, Zenon DEF TryReconnect, Clean, serverVars, histories
  <2> QED
    BY <2>2, Zenon DEF CleanSoFar
<1>10. ASSUME NEW a \in Actors, SpinWait(a) PROVE CleanSoFar'
  <2>1. ~Clean
    BY <1>10, Zenon DEF SpinWait, CleanSoFar
  <2>2. ~Clean'
    BY <1>10, <2>1, Zenon DEF SpinWait, Clean, serverVars, histories
  <2> QED
    BY <2>2, Zenon DEF CleanSoFar
<1>11. ASSUME NEW a \in Actors, TakeExclusive(a) PROVE CleanSoFar'
  <2>1. ~Clean
    BY <1>11, Zenon DEF TakeExclusive, CleanSoFar
  <2>2. ~Clean'
    BY <1>11, <2>1, Zenon DEF TakeExclusive, Clean, serverVars, histories
  <2> QED
    BY <2>2, Zenon DEF CleanSoFar
<1>12. ASSUME NEW a \in Actors, ReconnectDestroy(a) PROVE CleanSoFar'
  <2>1. ~Clean
    BY <1>12, Zenon DEF ReconnectDestroy, CleanSoFar
  <2>2. ~Clean'
    BY <1>12, <2>1, Zenon DEF ReconnectDestroy, Clean, serverVars, histories
  <2> QED
    BY <2>2, Zenon DEF CleanSoFar
<1>13. ASSUME NEW a \in Actors, NEW ok \in BOOLEAN, ReconnectConnect(a, ok) PROVE CleanSoFar'
  <2>1. ~Clean
    BY <1>13, Zenon DEF ReconnectConnect, CleanSoFar
  <2>2. ~Clean'
    BY <1>13, <2>1, Zenon DEF ReconnectConnect, Clean, serverVars
  <2> QED
    BY <2>2, Zenon DEF CleanSoFar
<1>14. ASSUME NEW a \in Actors, ReconnectUnlock(a) PROVE CleanSoFar'
  <2>1. ~Clean
    BY <1>14, Zenon DEF ReconnectUnlock, CleanSoFar
  <2>2. ~Clean'
    BY <1>14, <2>1, Zenon DEF ReconnectUnlock, Clean, serverVars, histories
  <2> QED
    BY <2>2, Zenon DEF CleanSoFar
<1>15. ASSUME NEW a \in Actors, WriteFallback(a) PROVE CleanSoFar'
  <2>1. ~Clean
    BY <1>15, Zenon DEF WriteFallback, CleanSoFar
  <2>2. ~Clean'
    BY <1>15, <2>1, Zenon DEF WriteFallback, Clean, serverVars
  <2> QED
    BY <2>2, Zenon DEF CleanSoFar
<1>16. CASE RequestShutdown
  BY <1>16, <1>0, Zenon DEF RequestShutdown, CleanSoFar, Clean, serverVars, writerVars, callVars, histories
<1>17. ASSUME NEW t \in Threads, EndThread(t) PROVE CleanSoFar'
  BY <1>17, <1>0, Zenon DEF EndThread, CleanSoFar, Clean, Goto, serverVars, writerVars, histories
<1>18. CASE FlushBufferA
  <2>1. \A b \in Actors : pc'[b] = pc[b] \/ pc'[b] = "phase1"
    BY <1>18, Zenon DEF FlushBufferA, FlushBuffer, Enter, callVars, TypeOK
  <2> QED
    BY <1>18, <2>1, Zenon DEF FlushBufferA, CleanSoFar, Clean, serverVars, writerVars, histories
<1>19. CASE FlushBufferB
  <2>1. \A b \in Actors : pc'[b] = pc[b] \/ pc'[b] = "phase1"
    BY <1>19, Zenon DEF FlushBufferB, FlushBuffer, Enter, callVars, TypeOK
  <2> QED
    BY <1>19, <2>1, Zenon DEF FlushBufferB, CleanSoFar, Clean, serverVars, writerVars, histories
<1>20. CASE CloseFallback
  BY <1>20, <1>0, Zenon DEF CloseFallback, CleanSoFar, Clean, serverVars, writerVars, callVars, histories
<1>21. CASE Disconnect
  <2> SUFFICES ASSUME Clean' PROVE CleanSoFar'
    BY Zenon DEF CleanSoFar
  <2>1. Clean
    BY <1>21, Zenon DEF Disconnect, Clean, serverVars, histories
  <2>2. \A tb \in Tables : queued[tb] = {}
    BY <1>21, <2>1, Zenon DEF Disconnect, DestroyWriters, Drained, CleanSoFar
  <2>3. lost' = {}
    <3>1. lost = {} /\ lost' = lost \cup UNION Range(queued)
      BY <1>21, <2>1, Zenon DEF Disconnect, DestroyWriters, CleanSoFar
    <3>2. Range(queued) \subseteq {{}}
      BY <1>0, <2>2, Zenon DEF Range
    <3> QED
      BY <3>1, <3>2, Zenon
  <2>4. \A tb \in Tables : ~failed'[tb]
    BY <1>21, Zenon DEF Disconnect, DestroyWriters
  <2> QED
    BY <1>21, <2>1, <2>3, <2>4, Zenon DEF Disconnect, CleanSoFar, serverVars, callVars, histories
<1>22. CASE UNCHANGED vars
  BY <1>22, Zenon DEF vars, CleanSoFar, Clean, serverVars, writerVars, callVars, histories
<1> QED
  BY <1>1, <1>2, <1>3, <1>4, <1>5, <1>6, <1>7, <1>8, <1>9, <1>10, <1>11, <1>12, <1>13, <1>14, <1>15, <1>16, <1>17, <1>18, <1>19, <1>20, <1>21, <1>22, ZenonT(30)
  DEF Next, Call, FlushAndClose, Finished

-----------------------------------------------------------------------------
In(s, x) == \E n \in DOMAIN s : s[n] = x

\* Where RowsAccounted looks for a row.
Placed(r) ==
  \/ \E i \in 0..1 : In(buffers[i], r)
  \/ \E a \in Actors : In(batch[a], r)
  \/ Handed(r) \/ fallen[r] > 0
Accounted == \A r \in arrived \ BadRows : Placed(r)

LEMMA AccountedMeans == RowsAccounted <=> TypeOK /\ Accounted
BY Zenon DEF RowsAccounted, Accounted, Placed, Handed, In, Range

\* A row pushed to the back of a buffer joins the rows in it.
LEMMA AppendAdds ==
  ASSUME NEW S, NEW s \in Seq(S), NEW r \in S
  PROVE  Append(s, r) \in Seq(S) /\ In(Append(s, r), r) /\ \A x : In(s, x) => In(Append(s, r), x)
<1>1. Append(s, r) \in Seq(S) /\ DOMAIN s = 1..Len(s) /\ DOMAIN Append(s, r) = 1..(Len(s) + 1)
  OBVIOUS
<1>2. Append(s, r)[Len(s) + 1] = r /\ \A n \in 1..Len(s) : Append(s, r)[n] = s[n]
  OBVIOUS
<1>3. Len(s) + 1 \in 1..(Len(s) + 1) /\ \A n \in 1..Len(s) : n \in 1..(Len(s) + 1)
  OBVIOUS
<1> QED
  BY <1>1, <1>2, <1>3, Zenon DEF In

\* What is valid of a flushed buffer is in the batch of the call.
LEMMA FlushTakesAll ==
  ASSUME TypeOK, NEW a \in Actors, NEW rows \in Seq(Ticks), FlushBuffer(a, rows),
         NEW x \in Rows \ BadRows, In(rows, x)
  PROVE  In(batch'[a], x)
<1> DEFINE valid == ValidBatch(rows)
<1>1. valid \in Seq(Ticks) /\ In(valid, x)
  <2>1. Selection(valid, rows, Len(rows))
    BY ValidBatchSelects, Zenon
  <2> HIDE DEF valid
  <2>2. PICK m \in 1..Len(rows) : rows[m] = x
    BY DEF In
  <2>3. PICK k \in 1..Len(valid) : valid[k] = x
    BY <2>1, <2>2, Zenon DEF Selection
  <2> QED
    <3>1. valid \in Seq(Ticks)
      BY <2>1, Zenon DEF Selection
    <3>2. DOMAIN valid = 1..Len(valid)
      BY <3>1
    <3> QED
      BY <2>3, <3>1, <3>2, Zenon DEF In
<1>2. valid # << >>
  BY <1>1 DEF In
<1>3. batch' = [batch EXCEPT ![a] = valid]
  BY <1>2, Zenon DEF FlushBuffer, Enter
<1> HIDE DEF valid
<1> QED
  BY <1>1, <1>3, Zenon DEF TypeOK

\* No step forgets a row.
LEMMA AccountedKept ==
  TypeOK /\ Closing /\ Holdings /\ Given /\ Accounted /\ [Next]_vars => Accounted'
<1> SUFFICES ASSUME TypeOK, Closing, Holdings, Given, Accounted, [Next]_vars PROVE Accounted'
  BY Zenon
<1>0. /\ \A r \in arrived \ BadRows : r \in Rows /\ Placed(r)
      /\ \A r \in Rows : Handed(r) => Handed(r)'
  BY HandedStays, Zenon DEF Accounted, TypeOK
<1>00. \A r \in Ticks : r \in Rows
  BY Zenon DEF Rows
<1> USE DEF Accounted
<1>1. CASE ServerDown
  <2>1. UNCHANGED <<arrived, buffers, batch, fallen>>
    BY <1>1, Zenon DEF ServerDown, bufferVars, callVars, histories
  <2> QED
    BY <1>0, <2>1, Zenon DEF Placed
<1>2. CASE ServerBack
  <2>1. UNCHANGED <<arrived, buffers, batch, fallen>>
    BY <1>2, Zenon DEF ServerBack, bufferVars, callVars, histories
  <2> QED
    BY <1>0, <2>1, Zenon DEF Placed
<1>3. ASSUME NEW tb \in Tables, WriterSend(tb) PROVE Accounted'
  <2>1. UNCHANGED <<arrived, buffers, batch, fallen>>
    BY <1>3, Zenon DEF WriterSend, bufferVars, callVars, histories
  <2> QED
    BY <1>0, <2>1, Zenon DEF Placed
<1>4. ASSUME NEW t \in Threads, NEW r \in Rows, NEW elapsed \in BOOLEAN, InsertTick(t, r, elapsed) PROVE Accounted'
  <2> DEFINE rows == Append(buffers[active], r)
  <2>1. /\ t \in Actors /\ batch[t] = << >> /\ r \in Ticks /\ arrived' = arrived \cup {r}
        /\ active \in 0..1 /\ buffers \in [0..1 -> Seq(Ticks)] /\ buffers[1 - active] = << >>
        /\ UNCHANGED <<fallen, queued, stored, lost>>
    BY <1>4, Zenon DEF InsertTick, TypeOK, Holdings, Batches, Actors, Resting, writerVars
  <2>2. rows \in Seq(Ticks) /\ In(rows, r) /\ \A x : In(buffers[active], x) => In(rows, x)
    <3>1. buffers[active] \in Seq(Ticks)
      BY <2>1, Zenon
    <3> QED
      BY <2>1, <3>1, AppendAdds, Zenon
  <2>3. \A x : ~In(<< >>, x)
    BY SMTT(30) DEF In
  <2>4. \A i \in 0..1 : i = active \/ i = 1 - active
    BY <2>1, SMTT(30)
  <2> HIDE DEF rows
  <2>5. CASE FlushDue(rows, elapsed)
    <3>1. FlushBuffer(t, rows)
      BY <1>4, <2>5, Zenon DEF InsertTick, rows
    <3>2. \A x \in Rows \ BadRows : In(rows, x) => In(batch'[t], x)
      BY <2>1, <2>2, <3>1, FlushTakesAll, Zenon
    <3>3. \A b \in Actors : b # t => batch'[b] = batch[b]
      BY <2>1, <3>1, Zenon DEF FlushBuffer, Enter, callVars, TypeOK
    <3> QED
      BY <1>0, <1>00, <2>1, <2>2, <2>3, <2>4, <3>2, <3>3, SMTT(30) DEF Placed, Handed
  <2>6. CASE ~FlushDue(rows, elapsed)
    <3>1. buffers' = [buffers EXCEPT ![active] = rows] /\ UNCHANGED batch
      BY <1>4, <2>6, Zenon DEF InsertTick, callVars, rows
    <3>2. buffers'[active] = rows /\ active \in 0..1
      BY <2>1, <3>1, Zenon
    <3> QED
      BY <1>0, <1>00, <2>1, <2>2, <2>3, <2>4, <3>1, <3>2, Zenon DEF Placed, Handed
  <2> QED
    BY <2>5, <2>6, Zenon
<1>5. ASSUME NEW t \in Threads, NEW r \in Rows, InsertBook(t, r) PROVE Accounted'
  <2>1. /\ t \in Actors /\ batch[t] = << >> /\ arrived' = arrived \cup {r}
        /\ UNCHANGED <<fallen, queued, stored, lost, buffers>>
    BY <1>5, Zenon DEF InsertBook, TypeOK, Holdings, Batches, Actors, Resting, writerVars, bufferVars
  <2>2. In(<<r>>, r) /\ \A x : ~In(<< >>, x)
    BY SMTT(30) DEF In
  <2>3. CASE r \notin BadRows
    <3>1. batch' = [batch EXCEPT ![t] = <<r>>]
      BY <1>5, <2>3, Zenon DEF InsertBook, Enter, IsValidExchangeTimestamp
    <3>2. batch'[t] = <<r>> /\ \A b \in Actors : b # t => batch'[b] = batch[b]
      BY <2>1, <3>1, Zenon DEF TypeOK
    <3> QED
      BY <1>0, <2>1, <2>2, <3>2 DEF Placed, Handed
  <2>4. CASE r \in BadRows
    <3>1. UNCHANGED batch
      BY <1>5, <2>4, Zenon DEF InsertBook, IsValidExchangeTimestamp, callVars
    <3> QED
      BY <1>0, <2>1, <2>4, <3>1, Zenon DEF Placed, Handed
  <2> QED
    BY <2>3, <2>4, Zenon
<1>6. ASSUME NEW a \in Actors, TakeShared(a) PROVE Accounted'
  <2>1. UNCHANGED <<arrived, buffers, batch, fallen>>
    BY <1>6, Zenon DEF TakeShared, bufferVars, histories
  <2> QED
    BY <1>0, <2>1, Zenon DEF Placed
<1>7. ASSUME NEW a \in Actors, InsertRow(a) PROVE Accounted'
  <2>1. UNCHANGED <<arrived, buffers, fallen>>
    BY <1>7, Zenon DEF InsertRow, bufferVars
  <2>2. CASE UNCHANGED batch
    BY <1>0, <2>1, <2>2, Zenon DEF Placed
  <2>3. CASE done[a] + 1 = Len(batch[a]) /\ Return(a)
    <3>1. /\ batch'[a] = << >> /\ \A b \in Actors : b # a => batch'[b] = batch[b]
      BY <2>3, Zenon DEF Return, TypeOK
    <3>2. ASSUME NEW x \in Rows, In(batch[a], x) PROVE Handed(x)'
      <4>1. batch[a] \in Seq(Rows) /\ done[a] \in Nat /\ pc[a] = "insert" /\ Len(batch[a]) \in Nat
        BY <1>7 DEF InsertRow, TypeOK
      <4>2. PICK m \in 1..Len(batch[a]) : batch[a][m] = x
        BY <3>2, <4>1 DEF In
      <4>3. CASE m <= done[a]
        <5>1. copies[x] = 1
          BY <4>1, <4>2, <4>3, Zenon DEF Holdings, Copied
        <5> QED
          BY <5>1, HandedStays, Zenon DEF Given
      <4>4. CASE m = done[a] + 1
        <5> DEFINE tb == TableOf(batch[a])
        <5>1. tb \in Tables
          BY Zenon DEF TableOf, Tables
        <5>2. queued' = [queued EXCEPT ![tb] = @ \cup {x}]
          BY <1>7, <4>2, <4>4, Zenon DEF InsertRow
        <5> HIDE DEF tb
        <5> QED
          BY <5>1, <5>2, Zenon DEF Handed, TypeOK
      <4> QED
        BY <2>3, <4>1, <4>3, <4>4, SMTT(30)
    <3> QED
      BY <1>0, <2>1, <3>1, <3>2, Zenon DEF Placed
  <2> QED
    BY <1>7, <2>2, <2>3, Zenon DEF InsertRow
<1>8. ASSUME NEW a \in Actors, InsertFails(a) PROVE Accounted'
  <2>1. UNCHANGED <<arrived, buffers, batch, fallen>>
    BY <1>8, Zenon DEF InsertFails, Goto, bufferVars, histories
  <2> QED
    BY <1>0, <2>1, Zenon DEF Placed
<1>9. ASSUME NEW a \in Actors, TryReconnect(a) PROVE Accounted'
  <2>1. UNCHANGED <<arrived, buffers, batch, fallen>>
    BY <1>9, Zenon DEF TryReconnect, Goto, bufferVars, histories
  <2> QED
    BY <1>0, <2>1, Zenon DEF Placed
<1>10. ASSUME NEW a \in Actors, SpinWait(a) PROVE Accounted'
  <2>1. UNCHANGED <<arrived, buffers, batch, fallen>>
    BY <1>10, Zenon DEF SpinWait, Goto, bufferVars, histories
  <2> QED
    BY <1>0, <2>1, Zenon DEF Placed
<1>11. ASSUME NEW a \in Actors, TakeExclusive(a) PROVE Accounted'
  <2>1. UNCHANGED <<arrived, buffers, batch, fallen>>
    BY <1>11, Zenon DEF TakeExclusive, Goto, bufferVars, histories
  <2> QED
    BY <1>0, <2>1, Zenon DEF Placed
<1>12. ASSUME NEW a \in Actors, ReconnectDestroy(a) PROVE Accounted'
  <2>1. UNCHANGED <<arrived, buffers, batch, fallen>>
    BY <1>12, Zenon DEF ReconnectDestroy, Goto, bufferVars, histories
  <2> QED
    BY <1>0, <2>1, Zenon DEF Placed
<1>13. ASSUME NEW a \in Actors, NEW ok \in BOOLEAN, ReconnectConnect(a, ok) PROVE Accounted'
  <2>1. UNCHANGED <<arrived, buffers, batch, fallen>>
    BY <1>13, Zenon DEF ReconnectConnect, Goto, bufferVars
  <2> QED
    BY <1>0, <2>1, Zenon DEF Placed
<1>14. ASSUME NEW a \in Actors, ReconnectUnlock(a) PROVE Accounted'
  <2>1. UNCHANGED <<arrived, buffers, batch, fallen>>
    BY <1>14, Zenon DEF ReconnectUnlock, Goto, bufferVars, histories
  <2> QED
    BY <1>0, <2>1, Zenon DEF Placed
<1>15. ASSUME NEW a \in Actors, WriteFallback(a) PROVE Accounted'
  <2>1. /\ UNCHANGED <<arrived, buffers, queued, stored, lost>> /\ Return(a)
        /\ fallen' = [r \in Rows |-> fallen[r] + IF r \in Range(batch[a]) THEN 1 ELSE 0]
        /\ fallen \in [Rows -> Nat]
    BY <1>15, Zenon DEF WriteFallback, TypeOK, bufferVars, writerVars
  <2>2. \A b \in Actors : b # a => batch'[b] = batch[b]
    BY <2>1, Zenon DEF Return, TypeOK
  <2>3. ASSUME NEW x \in Rows, In(batch[a], x) PROVE fallen'[x] > 0
    BY <2>1, <2>3 DEF In, Range
  <2>4. \A x \in Rows : fallen[x] > 0 => fallen'[x] > 0
    BY <2>1
  <2> QED
    BY <1>0, <2>1, <2>2, <2>3, <2>4, Zenon DEF Placed, Handed
<1>16. CASE RequestShutdown
  <2>1. UNCHANGED <<arrived, buffers, batch, fallen>>
    BY <1>16, Zenon DEF RequestShutdown, bufferVars, callVars, histories
  <2> QED
    BY <1>0, <2>1, Zenon DEF Placed
<1>17. ASSUME NEW t \in Threads, EndThread(t) PROVE Accounted'
  <2>1. UNCHANGED <<arrived, buffers, batch, fallen>>
    BY <1>17, Zenon DEF EndThread, Goto, bufferVars, histories
  <2> QED
    BY <1>0, <2>1, Zenon DEF Placed
<1>18. CASE FlushBufferA
  <2>1. /\ Main \in Actors /\ batch[Main] = << >> /\ FlushBuffer(Main, buffers[0])
        /\ buffers \in [0..1 -> Seq(Ticks)] /\ buffers' = [buffers EXCEPT ![0] = << >>]
        /\ UNCHANGED <<arrived, fallen, queued, stored, lost>>
    BY <1>18, Zenon DEF FlushBufferA, Closing, TypeOK, Holdings, Batches, Actors, Resting, writerVars, histories
  <2>2. 0 \in 0..1 /\ 1 \in 0..1 /\ \A i \in 0..1 : i = 0 \/ i = 1
    OBVIOUS
  <2>3. \A x \in Rows \ BadRows : In(buffers[0], x) => In(batch'[Main], x)
    <3>1. buffers[0] \in Seq(Ticks)
      BY <2>1, <2>2, Zenon
    <3> QED
      BY <2>1, <3>1, FlushTakesAll, Zenon
  <2>4. \A b \in Actors : b # Main => batch'[b] = batch[b]
    BY <2>1, ZenonT(30) DEF FlushBuffer, Enter, callVars, TypeOK
  <2>5. buffers'[1] = buffers[1] /\ \A x : ~In(<< >>, x)
    BY <2>1 DEF In
  <2>6. ASSUME NEW x \in arrived \ BadRows PROVE Placed(x)'
    <3>1. x \in Rows /\ Placed(x)
      BY <1>0, Zenon
    <3>2. CASE In(buffers[0], x)
      BY <2>1, <2>3, <3>1, <3>2, Zenon DEF Placed
    <3>3. CASE In(buffers[1], x)
      BY <2>2, <2>5, <3>3, Zenon DEF Placed
    <3>4. ASSUME NEW b \in Actors, In(batch[b], x) PROVE Placed(x)'
      <4>1. b # Main
        BY <2>1, <2>5, <3>4, Zenon
      <4>2. batch'[b] = batch[b]
        BY <2>4, <4>1, Zenon
      <4> QED
        BY <3>4, <4>2, Zenon DEF Placed
    <3>5. CASE Handed(x) \/ fallen[x] > 0
      BY <1>0, <2>1, <3>1, <3>5, Zenon DEF Placed
    <3> QED
      BY <2>2, <3>1, <3>2, <3>3, <3>4, <3>5, Zenon DEF Placed
  <2> QED
    BY <2>1, <2>6, Zenon
<1>19. CASE FlushBufferB
  <2>1. /\ Main \in Actors /\ batch[Main] = << >> /\ FlushBuffer(Main, buffers[1])
        /\ buffers \in [0..1 -> Seq(Ticks)] /\ buffers' = [buffers EXCEPT ![1] = << >>]
        /\ UNCHANGED <<arrived, fallen, queued, stored, lost>>
    BY <1>19, Zenon DEF FlushBufferB, Closing, TypeOK, Holdings, Batches, Actors, Resting, writerVars, histories
  <2>2. 0 \in 0..1 /\ 1 \in 0..1 /\ \A i \in 0..1 : i = 0 \/ i = 1
    OBVIOUS
  <2>3. \A x \in Rows \ BadRows : In(buffers[1], x) => In(batch'[Main], x)
    <3>1. buffers[1] \in Seq(Ticks)
      BY <2>1, <2>2, Zenon
    <3> QED
      BY <2>1, <3>1, FlushTakesAll, Zenon
  <2>4. \A b \in Actors : b # Main => batch'[b] = batch[b]
    BY <2>1, Zenon DEF FlushBuffer, Enter, callVars, TypeOK
  <2>5. buffers'[0] = buffers[0] /\ \A x : ~In(<< >>, x)
    BY <2>1 DEF In
  <2>6. ASSUME NEW x \in arrived \ BadRows PROVE Placed(x)'
    <3>1. x \in Rows /\ Placed(x)
      BY <1>0, Zenon
    <3>2. CASE In(buffers[1], x)
      BY <2>1, <2>3, <3>1, <3>2, Zenon DEF Placed
    <3>3. CASE In(buffers[0], x)
      BY <2>2, <2>5, <3>3, Zenon DEF Placed
    <3>4. ASSUME NEW b \in Actors, In(batch[b], x) PROVE Placed(x)'
      <4>1. b # Main
        BY <2>1, <2>5, <3>4, Zenon
      <4>2. batch'[b] = batch[b]
        BY <2>4, <4>1, Zenon
      <4> QED
        BY <3>4, <4>2, Zenon DEF Placed
    <3>5. CASE Handed(x) \/ fallen[x] > 0
      BY <1>0, <2>1, <3>1, <3>5, Zenon DEF Placed
    <3> QED
      BY <2>2, <3>1, <3>2, <3>3, <3>4, <3>5, Zenon DEF Placed
  <2> QED
    BY <2>1, <2>6, Zenon
<1>20. CASE CloseFallback
  <2>1. UNCHANGED <<arrived, buffers, batch, fallen>>
    BY <1>20, Zenon DEF CloseFallback, bufferVars, callVars, histories
  <2> QED
    BY <1>0, <2>1, Zenon DEF Placed
<1>21. CASE Disconnect
  <2>1. UNCHANGED <<arrived, buffers, batch, fallen>>
    BY <1>21, Zenon DEF Disconnect, bufferVars, callVars, histories
  <2> QED
    BY <1>0, <2>1, Zenon DEF Placed
<1>22. CASE UNCHANGED vars
  <2>1. UNCHANGED <<arrived, buffers, batch, fallen>>
    BY <1>22, Zenon DEF vars, bufferVars, callVars, histories
  <2> QED
    BY <1>0, <2>1, Zenon DEF Placed
<1> QED
  BY <1>1, <1>2, <1>3, <1>4, <1>5, <1>6, <1>7, <1>8, <1>9, <1>10, <1>11, <1>12, <1>13, <1>14, <1>15, <1>16, <1>17, <1>18, <1>19, <1>20, <1>21, <1>22, ZenonT(30)
  DEF Next, Call, FlushAndClose, Finished

-----------------------------------------------------------------------------
\* The inductive invariant of DolphinDBBackend: who holds the lock, what each
\* call holds, and where every row is.
THEOREM BackendKeepsInv == Spec => []BackendInv
<1>1. BackendInv /\ [Next]_vars => BackendInv'
  <2> SUFFICES ASSUME BackendInv, [Next]_vars PROVE BackendInv'
    BY Zenon
  <2>1. TypeOK /\ Accounted /\ Locking /\ Closing /\ Holdings /\ Given /\ CleanSoFar
    BY AccountedMeans, Zenon DEF BackendInv, Holdings
  <2>2. TypeOK' /\ Locking' /\ Closing'
    BY <2>1, TypeKept, LockingKept, ClosingKept, Zenon DEF Holdings
  <2>3. Holdings' /\ Given' /\ CleanSoFar' /\ Accounted'
    BY <2>1, HoldingsKept, GivenKept, CleanKept, AccountedKept, Zenon
  <2>4. RowsAccounted'
    BY <2>2, <2>3, Zenon DEF RowsAccounted, Accounted, Placed, Handed, In, Range
  <2> QED
    BY <2>2, <2>3, <2>4, Zenon DEF BackendInv, Holdings
<1> QED
  BY <1>1, BackendStarts, PTL DEF Spec

\* RowsAccountedOnce: every valid row that arrived is in a buffer, in a batch,
\* with a writer, stored, lost with a writer or in the fallback, and neither
\* the writers nor the fallback are given it twice; a book goes to one of them.
THEOREM RowsGoToOneStore == Spec => []RowsAccountedOnce
<1>1. BackendInv => RowsAccountedOnce
  BY Zenon DEF BackendInv, Copied, RowsAccountedOnce
<1> QED
  BY <1>1, BackendKeepsInv, PTL

\* WritersOutliveInsert: TryReconnect, which destroys the writers under the
\* exclusive lock, never does so while a thread inserts under the shared one.
THEOREM WritersAreNotDestroyed == Spec => []WritersOutliveInsert
<1>1. BackendInv => WritersOutliveInsert
  <2> SUFFICES ASSUME BackendInv, NEW a \in Actors, pc[a] = "insert"
               PROVE  owner = None /\ (done[a] > 0 => connected)
    BY Zenon DEF WritersOutliveInsert
  <2> QED
    BY Zenon DEF BackendInv, Locking, Batches
<1> QED
  BY <1>1, BackendKeepsInv, PTL

\* CleanRunStoresAll: after FlushAndClose of a run without an outage or a failed
\* connection attempt the database has exactly the valid rows that arrived.
THEOREM CleanRunsStoreAll == Spec => []CleanRunStoresAll
<1>1. BackendInv => CleanRunStoresAll
  <2> SUFFICES ASSUME BackendInv, mainPc = "done", Clean
               PROVE  stored = arrived \ BadRows /\ \A r \in Rows : fallen[r] = 0
    BY Zenon DEF CleanRunStoresAll, Clean
  <2>1. /\ TypeOK /\ Accounted /\ Given /\ lost = {} /\ \A r \in Rows : fallen[r] = 0
    BY AccountedMeans, Zenon DEF BackendInv, CleanSoFar
  <2>2. /\ buffers[0] = << >> /\ buffers[1] = << >> /\ \A tb \in Tables : queued[tb] = {}
        /\ \A a \in Actors : pc[a] \in Resting
    BY Zenon DEF BackendInv, Closing, Actors, Resting
  <2>3. /\ \A i \in 0..1 : buffers[i] = << >>
        /\ \A a \in Actors : batch[a] = << >>
        /\ \A x : ~In(<< >>, x)
    BY <2>2 DEF BackendInv, Batches, In
  <2>4. ASSUME NEW r \in arrived \ BadRows PROVE r \in stored
    <3>1. Placed(r) /\ r \in Rows
      BY <2>1, Zenon DEF Accounted, TypeOK
    <3>2. fallen[r] = 0 /\ ~(fallen[r] > 0)
      BY <2>1, <3>1
    <3>3. \A i \in 0..1 : ~In(buffers[i], r)
      BY <2>3, Zenon
    <3>4. \A a \in Actors : ~In(batch[a], r)
      BY <2>3, Zenon
    <3>5. Handed(r)
      BY <3>1, <3>2, <3>3, <3>4, Zenon DEF Placed
    <3> QED
      BY <2>1, <2>2, <3>5, Zenon DEF Handed
  <2>5. \A r \in stored : r \in arrived \ BadRows
    BY <2>1, Zenon DEF Given, Handed, TypeOK
  <2> QED
    BY <2>1, <2>4, <2>5, Zenon
<1> QED
  BY <1>1, BackendKeepsInv, PTL
=============================================================================
