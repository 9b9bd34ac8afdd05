------------------------ MODULE DataDispatcherProofs -----------------------
(***************************************************************************)
(* SpscQueue is a FIFO for every capacity and every number of calls, as    *)
(* long as a single thread pushes; the sequence lock of TelemetrySlot      *)
(* never lets a mixture of two writes through, for every set of fields.    *)
(* Both hold of the threads that use them together: a dispatching thread   *)
(* and the publisher only take steps of SpscQueue, a dispatching thread    *)
(* and the agent only steps of TelemetrySlot.                              *)
(***************************************************************************)
EXTENDS DataDispatcher, RingLemmas, SequenceTheorems

-----------------------------------------------------------------------------
(* SpscQueue *)

\* The contract of the class: one thread calls try_push.
SingleProducer == \A p, q \in Producers : p = q

\* What try_pop returned is exactly what try_push accepted, in the same order
\* and nothing twice: the items popped so far are the first items accepted.
FifoDelivery ==
  /\ Len(popped) <= Len(accepted)
  /\ \A i \in 1..Len(popped) : popped[i] = accepted[i]

\* The queue is never more than full and never less than empty, whatever stale
\* values of read_pos_ the full test used, and an accepted item stays in its
\* slot until it is popped.
AcceptedStaysQueued ==
  /\ readPos <= writePos
  /\ writePos - readPos <= Capacity
  /\ Len(accepted) = writePos /\ Len(popped) = readPos
  /\ \A i \in readPos..(writePos - 1) : slots[Slot(i)] = accepted[i + 1]

\* The ring's bookkeeping.  A producer inside try_push still has the current
\* write_pos_ in w, since nobody else writes it; room that it saw can only have
\* grown; the slot it has filled is the one after the last published; and the
\* consumer inside try_pop holds the oldest queued item.
PushInv(p) ==
  /\ pushPc[p] # "idle" => pushW[p] = writePos /\ offers[p] >= 1
  /\ pushPc[p] \in {"copy", "publish"} => writePos - readPos < Capacity
  /\ pushPc[p] = "publish" => slots[Slot(writePos)] = <<p, offers[p]>>

PopInv ==
  /\ popPc # "idle" => readPos < writePos
  /\ popPc = "advance" => popOut = accepted[readPos + 1]

IInv ==
  /\ TypeOK
  /\ AcceptedStaysQueued
  /\ FifoDelivery
  /\ \A p \in Producers : PushInv(p)
  /\ PopInv

-----------------------------------------------------------------------------
\* Positions have slots, and those less than a lap apart have different ones.
LEMMA RingSlots ==
  /\ \A a \in Nat : Slot(a) \in Indexes
  /\ \A a, b \in Nat : a < b /\ b < a + Capacity => Slot(a) # Slot(b)
BY CapacityAssumption, SlotInRing, SlotsDiffer, Zenon DEF Slot, Indexes

\* The initial states satisfy the inductive invariant.
LEMMA InitIInv == Init => IInv
BY CapacityAssumption, MaxOffersAssumption
DEF Init, IInv, TypeOK, AcceptedStaysQueued, FifoDelivery, PushInv, PopInv, Items, Indexes

\* Every step of a single producer and the consumer keeps the bookkeeping.
LEMMA NextIInv == SingleProducer /\ IInv /\ [Next]_vars => IInv'
<1> SUFFICES ASSUME SingleProducer, IInv, [Next]_vars PROVE IInv'
  OBVIOUS
<1> USE CapacityAssumption, MaxOffersAssumption
        DEF IInv, TypeOK, AcceptedStaysQueued, FifoDelivery, PushInv, PopInv, pushVars, popVars
<1>1. ASSUME NEW p \in Producers, PushLoadWrite(p) PROVE IInv'
  BY <1>1 DEF PushLoadWrite, SingleProducer
<1>2. ASSUME NEW p \in Producers, PushHasRoom(p) PROVE IInv'
  BY <1>2 DEF PushHasRoom, HasRoom, SingleProducer
<1>3. ASSUME NEW p \in Producers, PushFull(p) PROVE IInv'
  BY <1>3 DEF PushFull, SingleProducer
<1>4. ASSUME NEW p \in Producers, PushCopy(p) PROVE IInv'
  <2>1. pushW[p] = writePos /\ writePos - readPos < Capacity /\ <<p, offers[p]>> \in Items
    BY <1>4 DEF PushCopy, Items
  <2>2. Slot(writePos) \in Indexes
    BY RingSlots
  <2>3. \A i \in readPos..(writePos - 1) : Slot(i) # Slot(writePos)
    BY <2>1, RingSlots, SMTT(30)
  <2>4. \A i \in readPos..(writePos - 1) : slots'[Slot(i)] = accepted[i + 1]
    BY <1>4, <2>1, <2>3, RingSlots DEF PushCopy
  <2>5. QED
    BY <1>4, <2>1, <2>2, <2>4, SMTT(30) DEF PushCopy, SingleProducer
<1>5. ASSUME NEW p \in Producers, PushPublish(p) PROVE IInv'
  <2>1. pushW[p] = writePos /\ <<p, offers[p]>> \in Items
    BY <1>5 DEF PushPublish, Items
  <2>2. /\ accepted' \in Seq(Items) /\ Len(accepted') = writePos + 1
        /\ \A i \in 1..writePos : accepted'[i] = accepted[i]
        /\ accepted'[writePos + 1] = <<p, offers[p]>>
    BY <1>5, <2>1 DEF PushPublish
  <2>3. writePos' = writePos + 1 /\ UNCHANGED <<slots, readPos, popVars, popped>>
    BY <1>5, <2>1 DEF PushPublish
  <2>4. ASSUME NEW i \in readPos'..(writePos' - 1)
        PROVE  slots'[Slot(i)] = accepted'[i + 1]
    <3>1. CASE i = writePos
      BY <1>5, <2>2, <2>3, <3>1, Zenon DEF PushPublish
    <3>2. CASE i \in readPos..(writePos - 1)
      <4>1. slots[Slot(i)] = accepted[i + 1]
        BY <3>2
      <4>2. i + 1 \in 1..writePos
        BY <3>2
      <4>3. QED
        BY <2>2, <2>3, <4>1, <4>2
    <3>3. QED
      BY <2>3, <3>1, <3>2
  <2>5. \A q \in Producers : pushPc'[q] = "idle"
    BY <1>5 DEF PushPublish, SingleProducer
  <2>6. AcceptedStaysQueued'
    <3>1. writePos - readPos < Capacity
      BY <1>5 DEF PushPublish
    <3>2. QED
      BY <2>2, <2>3, <2>4, <3>1
  <2>7. FifoDelivery'
    BY <2>2, <2>3
  <2>8. TypeOK'
    BY <1>5, <2>2, <2>3 DEF PushPublish
  <2>9. PopInv'
    BY <2>2, <2>3, SMTT(30)
  <2>10. QED
    BY <2>5, <2>6, <2>7, <2>8, <2>9, Zenon
<1>6. ASSUME PopLoadWrite PROVE IInv'
  BY <1>6 DEF PopLoadWrite
<1>7. ASSUME PopCopy PROVE IInv'
  BY <1>7, RingSlots DEF PopCopy
<1>8. ASSUME PopAdvance PROVE IInv'
  <2>1. /\ popped' \in Seq(Items \cup {NoItem}) /\ Len(popped') = readPos + 1
        /\ \A i \in 1..readPos : popped'[i] = popped[i]
        /\ popped'[readPos + 1] = accepted[readPos + 1]
    BY <1>8 DEF PopAdvance
  <2>2. QED
    BY <1>8, <2>1 DEF PopAdvance
<1>9. ASSUME UNCHANGED vars PROVE IInv'
  BY <1>9 DEF vars
<1>10. QED
  BY <1>1, <1>2, <1>3, <1>4, <1>5, <1>6, <1>7, <1>8, <1>9, Zenon DEF Next, TryPush, TryPop, Done

\* The bookkeeping of the ring holds in every state.
THEOREM Bookkeeping == ASSUME SingleProducer PROVE Spec => []IInv
<1>1. Init => IInv
  BY InitIInv
<1>2. IInv /\ [Next]_vars => IInv'
  BY NextIInv
<1>3. QED
  BY <1>1, <1>2, PTL DEF Spec

\* Type correctness of the queue.
THEOREM TypeCorrect == ASSUME SingleProducer PROVE Spec => []TypeOK
<1>1. Spec => []IInv
  BY Bookkeeping
<1>2. QED
  BY <1>1, PTL DEF IInv

\* try_pop returns exactly the items try_push accepted, in order.
THEOREM Delivery == ASSUME SingleProducer PROVE Spec => []FifoDelivery
<1>1. Spec => []IInv
  BY Bookkeeping
<1>2. QED
  BY <1>1, PTL DEF IInv

\* An accepted item stays in its slot until it is popped.
THEOREM Kept == ASSUME SingleProducer PROVE Spec => []AcceptedStaysQueued
<1>1. Spec => []IInv
  BY Bookkeeping
<1>2. QED
  BY <1>1, PTL DEF IInv

\* The plain copies into and out of a slot never overlap.
THEOREM RaceFree == ASSUME SingleProducer PROVE Spec => []NoDataRace
<1>1. IInv => NoDataRace
  <2> SUFFICES ASSUME IInv, NEW p \in Producers, pushPc[p] = "copy", popPc = "copy"
               PROVE  Slot(pushW[p]) # Slot(readPos)
    BY DEF NoDataRace, SingleProducer
  <2>1. pushW[p] = writePos /\ writePos < readPos + Capacity /\ readPos < writePos
    BY CapacityAssumption DEF IInv, TypeOK, PushInv, PopInv
  <2>2. QED
    BY <2>1, RingSlots DEF IInv, TypeOK
<1>2. Spec => []IInv
  BY Bookkeeping
<1>3. QED
  BY <1>1, <1>2, PTL

-----------------------------------------------------------------------------
\* Appending to a sequence appends to the segment that reaches its end.
LEMMA SegmentAppend ==
  ASSUME NEW S, NEW s \in Seq(S), NEW e \in S, NEW m \in 1..(Len(s) + 1)
  PROVE  SubSeq(Append(s, e), m, Len(s) + 1) = Append(SubSeq(s, m, Len(s)), e)
<1> DEFINE t == Append(s, e)
           seg == SubSeq(s, m, Len(s))
<1>1. /\ t \in Seq(S) /\ Len(t) = Len(s) + 1
      /\ \A i \in 1..Len(s) : t[i] = s[i]
      /\ t[Len(s) + 1] = e
  BY AppendProperties
<1>2. /\ seg \in Seq(S) /\ Len(seg) = Len(s) - m + 1
      /\ \A i \in 1..(Len(s) - m + 1) : seg[i] = s[m + i - 1]
  <2>1. \A i \in m..Len(s) : s[i] \in S
    BY ElementOfSeq
  <2>2. QED
    BY <2>1, SubSeqProperties, LenProperties
<1>3. /\ SubSeq(t, m, Len(s) + 1) \in Seq(S)
      /\ Len(SubSeq(t, m, Len(s) + 1)) = Len(s) - m + 2
      /\ \A i \in 1..(Len(s) - m + 2) : SubSeq(t, m, Len(s) + 1)[i] = t[m + i - 1]
  <2>1. \A i \in m..(Len(s) + 1) : t[i] \in S
    BY <1>1, ElementOfSeq
  <2>2. QED
    BY <2>1, SubSeqProperties, LenProperties
<1>4. /\ Append(seg, e) \in Seq(S)
      /\ Len(Append(seg, e)) = Len(s) - m + 2
      /\ \A i \in 1..(Len(s) - m + 1) : Append(seg, e)[i] = s[m + i - 1]
      /\ Append(seg, e)[Len(s) - m + 2] = e
  <2>1. /\ Append(seg, e) \in Seq(S)
        /\ Len(Append(seg, e)) = Len(seg) + 1
        /\ \A i \in 1..Len(seg) : Append(seg, e)[i] = seg[i]
        /\ Append(seg, e)[Len(seg) + 1] = e
    BY <1>2, AppendProperties
  <2>2. QED
    BY <1>2, <2>1, LenProperties
<1>5. \A i \in 1..(Len(s) - m + 2) : SubSeq(t, m, Len(s) + 1)[i] = Append(seg, e)[i]
  BY <1>1, <1>3, <1>4, LenProperties
<1>6. QED
  BY <1>3, <1>4, <1>5, SeqEqual, Zenon

\* Dropping the first position of a segment that reaches the end is its tail.
LEMMA SegmentTail ==
  ASSUME NEW S, NEW s \in Seq(S), NEW m \in 1..Len(s)
  PROVE  /\ SubSeq(s, m, Len(s)) # << >>
         /\ SubSeq(s, m + 1, Len(s)) = Tail(SubSeq(s, m, Len(s)))
<1>1. Len(s) \in m..Len(s) /\ Len(s) \in Int
  BY LenProperties
<1>2. \A i \in m..Len(s) : s[i] \in S
  BY ElementOfSeq
<1>3. SubSeq(s, m, Len(s)) \in Seq(S) /\ Len(SubSeq(s, m, Len(s))) = Len(s) - m + 1
  <2>1. m \in Int /\ m <= Len(s)
    BY <1>1
  <2>2. QED
    BY <1>1, <1>2, <2>1, SubSeqProperties
<1>4. SubSeq(s, m, Len(s)) # << >>
  <2>1. Len(SubSeq(s, m, Len(s))) # 0
    <3> DEFINE l == Len(s)
    <3>1. l \in Nat /\ m \in 1..l
      BY LenProperties
    <3> HIDE DEF l
    <3>2. l - m + 1 # 0
      BY <3>1
    <3>3. QED
      BY <1>3, <3>2 DEF l
  <2>2. QED
    BY <2>1, EmptySeq, Zenon
<1>5. SubSeq(s, m + 1, Len(s)) = Tail(SubSeq(s, m, Len(s)))
  BY <1>1, HeadTailOfSubSeq, SMTT(20)
<1>6. QED
  BY <1>4, <1>5

-----------------------------------------------------------------------------
(* The refinement of BoundedFifo. *)

Queued == SubSeq(accepted, Len(popped) + 1, Len(accepted))

\* The ring buffer implements the bounded FIFO: only the two release stores
\* change what is queued, the first by one item at the back, the second by one
\* item at the front, which is what try_pop returns.
THEOREM Refinement == ASSUME SingleProducer PROVE Spec => ImplementsFifo
<1> USE DEF Fifo!Init, Fifo!Next, Fifo!Put, Fifo!Get
<1>1. Init => Fifo!Init
  BY SMTT(30) DEF Init
<1>2. ASSUME IInv, [Next]_vars PROVE [Fifo!Next]_<<Queued, popped>>
  <2> USE DEF Queued
  <2>1. /\ accepted \in Seq(Items) /\ popped \in Seq(Items)
        /\ Len(popped) <= Len(accepted) /\ Len(accepted) - Len(popped) <= Capacity
        /\ Len(popped) = readPos /\ Len(accepted) = writePos
    BY <1>2 DEF IInv, TypeOK, AcceptedStaysQueued
  <2>2. ASSUME NEW p \in Producers, PushPublish(p) PROVE Fifo!Put
    <3>1. <<p, offers[p]>> \in Items /\ writePos - readPos < Capacity
      BY <1>2, <2>2, MaxOffersAssumption DEF IInv, TypeOK, PushInv, PushPublish, Items
    <3>2. Len(Queued) = Len(accepted) - Len(popped)
      BY <2>1
    <3>3. Queued' = Append(Queued, <<p, offers[p]>>)
      <4>1. Queued' = SubSeq(Append(accepted, <<p, offers[p]>>), Len(popped) + 1, Len(accepted) + 1)
        <5>1. accepted' = Append(accepted, <<p, offers[p]>>) /\ popped' = popped
          BY <2>2 DEF PushPublish
        <5>2. Len(accepted') = Len(accepted) + 1
          BY <2>1, <3>1, <5>1, AppendProperties
        <5>3. QED
          BY <5>1, <5>2, Zenon
      <4>2. Len(popped) + 1 \in 1..(Len(accepted) + 1)
        BY <2>1
      <4>3. QED
        BY <2>1, <3>1, <4>1, <4>2, SegmentAppend, Zenon
    <3>4. popped' = popped
      BY <2>2 DEF PushPublish
    <3>5. QED
      BY <2>1, <3>1, <3>2, <3>3, <3>4, Zenon
  <2>3. ASSUME PopAdvance PROVE Fifo!Get
    <3>1. readPos < writePos
      BY <1>2, <2>3 DEF IInv, PopInv, PopAdvance
    <3>2. Len(popped) + 1 \in 1..Len(accepted)
      BY <2>1, <3>1
    <3>3. Queued' = SubSeq(accepted, Len(popped) + 1 + 1, Len(accepted))
      <4>1. popped' = Append(popped, popOut) /\ accepted' = accepted
        BY <2>3 DEF PopAdvance
      <4>2. Len(popped') = Len(popped) + 1
        BY <1>2, <2>1, <4>1, AppendProperties DEF IInv, TypeOK
      <4>3. QED
        BY <4>1, <4>2
    <3>4. /\ Queued # << >>
          /\ SubSeq(accepted, Len(popped) + 1 + 1, Len(accepted)) = Tail(Queued)
      BY <2>1, <3>2, SegmentTail, Zenon
    <3>5. popped' = Append(popped, Head(Queued))
      <4>1. popped' = Append(popped, popOut) /\ popOut = accepted[Len(popped) + 1]
        BY <1>2, <2>1, <2>3 DEF IInv, PopInv, PopAdvance
      <4>2. Head(Queued) = accepted[Len(popped) + 1]
        BY <2>1, <3>2
      <4>3. QED
        BY <4>1, <4>2, Zenon
    <3>6. QED
      BY <3>3, <3>4, <3>5, Zenon
  <2>4. ASSUME UNCHANGED <<accepted, popped>> PROVE UNCHANGED <<Queued, popped>>
    BY <2>4
  <2>5. QED
    BY <1>2, <2>2, <2>3, <2>4, Zenon DEF Next, TryPush, TryPop, Done, vars,
       PushLoadWrite, PushHasRoom, PushFull, PushCopy, PopLoadWrite, PopCopy
<1>3. Spec => []IInv
  BY Bookkeeping
<1>4. QED
  BY <1>1, <1>2, <1>3, PTL DEF Spec, ImplementsFifo, Fifo!Spec, Queued

-----------------------------------------------------------------------------
(* TelemetrySlot *)

\* The write that a complete slot of version n is from.
WriteOf(n) == n \div 2

\* An even version says that every field is from the write it counts; an odd
\* one that the fields stored so far are from the next write.
SlotMatchesVersion ==
  /\ ~Odd(version) => written = {} /\ \A f \in Fields : field[f] = WriteOf(version)
  /\ Odd(version) => \A f \in written : field[f] = WriteOf(version + 1)

\* What a read has loaded is from one write as long as the version it began
\* with is even and still stands.
ReadIsWhole ==
  /\ v1 <= version
  /\ ~reading => got = {}
  /\ ~Odd(v1) /\ v1 = version => \A f \in got : snapshot[f] = WriteOf(version)

SlotInv ==
  /\ SnapshotWhole
  /\ SlotMatchesVersion
  /\ ReadIsWhole

-----------------------------------------------------------------------------
\* An increment of the version changes its parity, and the write under way at
\* an odd version is the one that the next even version counts.
LEMMA Parity ==
  \A n \in Nat : /\ WriteOf(n) \in Nat
                 /\ Odd(n) <=> ~Odd(n + 1)
                 /\ WriteOf(n + 1) = (n + 1) \div 2
BY DEF WriteOf, Odd

\* The initial slot is whole.
LEMMA InitSlotInv == SlotInit => SlotInv
<1>1. WriteOf(0) = 0 /\ ~Odd(0)
  BY DEF WriteOf, Odd
<1>2. NoWrite \in [Fields -> Nat] /\ \A f \in Fields : NoWrite[f] = 0
  BY DEF NoWrite
<1>3. SlotInit => SnapshotWhole
  <2>1. 0 \in Nat
    OBVIOUS
  <2> QED BY <1>2, <2>1, Zenon DEF SlotInit, SnapshotWhole, SlotTypeOK
<1>4. SlotInit => SlotMatchesVersion /\ ReadIsWhole
  BY <1>1, <1>2, SMTT(30) DEF SlotInit, SlotMatchesVersion, ReadIsWhole
<1> QED
  BY <1>3, <1>4 DEF SlotInv

\* Every access of the writer and of the reader keeps the invariant.
LEMMA NextSlotInv == SlotInv /\ [SlotNext]_slotVars => SlotInv'
<1> SUFFICES ASSUME SlotInv, [SlotNext]_slotVars PROVE SlotInv'
  OBVIOUS
<1> USE DEF SlotInv, SnapshotWhole, SlotTypeOK
<1>1. CASE BeginWrite
  <2>1. SnapshotWhole'
    BY <1>1 DEF BeginWrite, readerVars
  <2>2. SlotMatchesVersion'
    BY <1>1, Parity DEF BeginWrite, SlotMatchesVersion
  <2>3. ReadIsWhole'
    BY <1>1 DEF BeginWrite, readerVars, ReadIsWhole
  <2> QED BY <2>1, <2>2, <2>3
<1>2. ASSUME NEW f \in Fields, WriteField(f) PROVE SlotInv'
  <2>0. (version + 1) \div 2 \in Nat
    BY Parity
  <2>1. SnapshotWhole'
    BY <1>2, <2>0 DEF WriteField, readerVars
  <2>2. SlotMatchesVersion'
    BY <1>2, Parity DEF WriteField, SlotMatchesVersion
  <2>3. ReadIsWhole'
    BY <1>2 DEF WriteField, readerVars, ReadIsWhole
  <2> QED BY <2>1, <2>2, <2>3
<1>3. CASE EndWrite
  <2>1. SnapshotWhole'
    BY <1>3 DEF EndWrite, readerVars
  <2>2. SlotMatchesVersion'
    BY <1>3, Parity DEF EndWrite, SlotMatchesVersion
  <2>3. ReadIsWhole'
    BY <1>3 DEF EndWrite, readerVars, ReadIsWhole
  <2> QED BY <2>1, <2>2, <2>3
<1>4. CASE LoadVersion
  <2>1. SnapshotWhole' /\ SlotMatchesVersion'
    BY <1>4 DEF LoadVersion, writerVars, SlotMatchesVersion
  <2>2. got = {}
    BY <1>4 DEF LoadVersion, ReadIsWhole
  <2>3. ReadIsWhole'
    BY <1>4, <2>2 DEF LoadVersion, writerVars, ReadIsWhole
  <2> QED BY <2>1, <2>3
<1>5. ASSUME NEW f \in Fields, ReadField(f) PROVE SlotInv'
  <2>1. SnapshotWhole' /\ SlotMatchesVersion'
    BY <1>5 DEF ReadField, writerVars, SlotMatchesVersion
  <2>2. ReadIsWhole'
    BY <1>5 DEF ReadField, writerVars, ReadIsWhole, SlotMatchesVersion
  <2> QED BY <2>1, <2>2
<1>6. CASE ReloadVersion
  <2>1. SlotMatchesVersion' /\ ReadIsWhole'
    BY <1>6 DEF ReloadVersion, writerVars, SlotMatchesVersion, ReadIsWhole
  <2>2. CASE Consistent(v1, version)
    <3>1. exposed' = snapshot /\ \A f \in Fields : snapshot[f] = WriteOf(version)
      BY <1>6, <2>2 DEF ReloadVersion, Consistent, ReadIsWhole
    <3> QED BY <1>6, <2>1, <3>1, Zenon DEF ReloadVersion, writerVars, NoWrite
  <2>3. CASE ~Consistent(v1, version)
    BY <1>6, <2>1, <2>3, Zenon DEF ReloadVersion, writerVars, NoWrite
  <2> QED BY <2>2, <2>3
<1>7. CASE UNCHANGED slotVars
  BY <1>7 DEF slotVars, writerVars, readerVars, SlotMatchesVersion, ReadIsWhole
<1> QED
  BY <1>1, <1>2, <1>3, <1>4, <1>5, <1>6, <1>7
  DEF SlotNext, WriteTelemetrySlot, ReadTelemetrySlot

\* The gauges that PollAll sets from one slot are from one call of
\* WriteTelemetrySlot, however the two threads interleave, for every set of
\* fields.
THEOREM SnapshotsAreWhole == SlotSpec => []SnapshotWhole
<1>1. SlotSpec => []SlotInv
  BY InitSlotInv, NextSlotInv, PTL DEF SlotSpec
<1>2. SlotInv => SnapshotWhole
  BY DEF SlotInv
<1> QED BY <1>1, <1>2, PTL

-----------------------------------------------------------------------------
(* The composition *)

\* Whatever thread moves, the queue takes a step of its own or none, and so
\* does the slot.
LEMMA StepOfEach == [DispatcherNext]_allVars => [Next]_vars /\ [SlotNext]_slotVars
<1> SUFFICES ASSUME [DispatcherNext]_allVars PROVE [Next]_vars /\ [SlotNext]_slotVars
  OBVIOUS
<1>1. ASSUME NEW m \in Incoming, OnMessage(m) PROVE UNCHANGED vars /\ UNCHANGED slotVars
  BY <1>1, SMTT(30) DEF OnMessage, queueVars
<1>2. CASE ParseMessage \/ HandParsedOn
  BY <1>2 DEF ParseMessage, HandParsedOn, queueVars
<1>3. CASE WriteTelemetry
  BY <1>3 DEF WriteTelemetry, queueVars, SlotNext, WriteTelemetrySlot
<1>4. ASSUME NEW p \in Producers, Dispatch(p) PROVE [Next]_vars /\ UNCHANGED slotVars
  <2>1. CASE Route(p) \/ PublishOther(p)
    BY <2>1, SMTT(30) DEF Route, PublishOther, queueVars
  <2>2. CASE PublishTick(p)
    BY <2>2 DEF PublishTick, Next, TryPush
  <2> QED BY <1>4, <2>1, <2>2, SMTT(20) DEF Dispatch
<1>5. CASE Publisher
  BY <1>5 DEF Publisher, Next
<1>6. CASE PollAll
  BY <1>6 DEF PollAll, queueVars, SlotNext
<1>7. CASE UNCHANGED allVars
  BY <1>7 DEF allVars, queueVars
<1> QED
  BY <1>1, <1>2, <1>3, <1>4, <1>5, <1>6, <1>7, SMTT(20) DEF DispatcherNext

\* A shard with one dispatching thread behaves, as far as its queue goes, as
\* the queue's specification says, and so for its telemetry slot.
LEMMA Composition == DispatcherSpec => Spec /\ SlotSpec
<1>1. DispatcherInit => Init /\ SlotInit
  BY DEF DispatcherInit
<1> QED
  BY <1>1, StepOfEach, PTL DEF DispatcherSpec, Spec, SlotSpec

\* On a shard whose events one thread dispatches, the tick queue is a FIFO
\* without data races, for every capacity.
THEOREM ShardQueueIsFifo ==
  ASSUME SingleProducer PROVE DispatcherSpec => []NoDataRace /\ ImplementsFifo
BY Composition, RaceFree, Refinement, PTL

\* The agent exposes whole snapshots also while the events are dispatched.
THEOREM ShardTelemetryIsWhole == DispatcherSpec => []SnapshotWhole
BY Composition, SnapshotsAreWhole, PTL
=============================================================================
