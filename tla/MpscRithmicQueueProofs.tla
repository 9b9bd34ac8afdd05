----------------------- MODULE MpscRithmicQueueProofs -----------------------
(***************************************************************************)
(* Until the first drop or crash, MpscRithmicQueue delivers every event    *)
(* once, whole and in the order of reservation, without data races and     *)
(* without holes, for every capacity and every number of callback threads. *)
(* After drops and crashes what it delivers is still made of words that    *)
(* were written for the slot they are read from.                           *)
(***************************************************************************)
EXTENDS MpscRithmicQueue, RingLemmas

\* As long as nothing is dropped and the child lives, a reserved position that was
\* not popped is one TryPop can pop, whenever no push and no pop is under way.
NoHoleWhenClean == Clean => NoSequenceHole

Active(p) == pushPc[p] # "idle"
Owning(p) == pushPc[p] \in {"copy1", "copy2", "publish"}

\* The positions that the slots stand for now: one lap from read_pos_, but for
\* its last position while the consumer has still to free that slot.
Lap == readPos..(readPos + Capacity - (IF popPc = "free" THEN 2 ELSE 1))

\* A push under way has reserved position q.
Held(q) == \E p \in Producers : Active(p) /\ pushPos[p] = q

\* A slot is free for its position of the lap, and then a push holds that
\* position unless it is not reserved yet, or the position is published.  A
\* position reserved ahead of the lap is held by a push that waits.
SlotInv ==
  /\ \A q \in Lap :
       \/ seq[Slot(q)] = q /\ (q < writePos => Held(q))
       \/ seq[Slot(q)] = q + 1 /\ q < writePos /\ data[Slot(q)] = Event(q)
  /\ \A q \in (readPos..(writePos - 1)) \ Lap : Held(q)
  /\ popPc = "free" => readPos >= 1 /\ seq[Slot(readPos - 1)] = readPos

\* A push under way has a position of its own, not popped yet.  Once it found
\* the slot free, the slot stays free for it until it publishes.
PushInv(p) ==
  Active(p) =>
    /\ readPos <= pushPos[p] /\ pushPos[p] < writePos
    /\ \A q \in Producers \ {p} : Active(q) => pushPos[q] # pushPos[p]
    /\ pushPos[p] \in Lap => seq[Slot(pushPos[p])] = pushPos[p]
    /\ Owning(p) => pushPos[p] \in Lap /\ pushVal[p] = pushPos[p]
    /\ pushPc[p] \in {"copy2", "publish"} => data[Slot(pushPos[p])][1] = pushPos[p]
    /\ pushPc[p] = "publish" => data[Slot(pushPos[p])][2] = pushPos[p]

\* The receiver copies the event at read_pos_, which is published.
PopInv ==
  /\ readPos <= writePos
  /\ popPc \in {"copy1", "copy2", "advance"} => seq[Slot(readPos)] = readPos + 1
  /\ popPc \in {"copy2", "advance"} => popOut[1] = readPos
  /\ popPc = "advance" => popOut[2] = readPos
  /\ Len(popped) = readPos
  /\ \A i \in 1..Len(popped) : popped[i] = Event(i - 1)

CleanInv ==
  /\ SlotInv
  /\ \A p \in Producers : PushInv(p)
  /\ PopInv

IInv == TypeOK /\ (Clean => CleanInv)

-----------------------------------------------------------------------------
\* The ring arithmetic that the steps below need.
LEMMA RingSlots ==
  /\ \A a \in Nat : Slot(a) \in Indexes /\ Slot(a + Capacity) = Slot(a)
  /\ \A a, b \in Nat : a < b /\ b < a + Capacity => Slot(a) # Slot(b)
  /\ \A r, b \in Nat : r <= b =>
       \E q \in r..(r + Capacity - 1) : Slot(q) = Slot(b) /\ (q = b \/ q + Capacity <= b)
<1> USE DEF Slot, Indexes
<1> Capacity \in Nat \ {0}
  BY CapacityAssumption
<1>1. \A a \in Nat : Slot(a) \in Indexes /\ Slot(a + Capacity) = Slot(a)
  BY SlotInRing, SlotAfterLap, Zenon
<1>2. \A a, b \in Nat : a < b /\ b < a + Capacity => Slot(a) # Slot(b)
  BY SlotsDiffer, Zenon
<1>3. ASSUME NEW r \in Nat, NEW b \in Nat, r <= b
      PROVE  \E q \in r..(r + Capacity - 1) : Slot(q) = Slot(b) /\ (q = b \/ q + Capacity <= b)
  BY <1>3, SlotInLap, Zenon
<1>4. QED
  BY <1>1, <1>2, <1>3

\* Two positions of the lap have different slots.
LEMMA LapSlots ==
  ASSUME TypeOK
  PROVE  /\ Lap \subseteq Nat
         /\ \A q \in Lap : Slot(q) \in Indexes
         /\ \A a, b \in Lap : a # b => Slot(a) # Slot(b)
<1>1. readPos \in Nat /\ Lap \subseteq readPos..(readPos + Capacity - 1)
  BY CapacityAssumption DEF TypeOK, Lap
<1>2. ASSUME NEW a \in Lap, NEW b \in Lap, a # b PROVE Slot(a) # Slot(b)
  BY <1>1, <1>2, CapacityAssumption, RingSlots
<1>3. QED
  BY <1>1, <1>2, CapacityAssumption, RingSlots

\* The initial states satisfy the inductive invariant.
LEMMA InitIInv == Init => IInv
<1> SUFFICES ASSUME Init PROVE IInv
  OBVIOUS
<1> USE CapacityAssumption DEF Init
<1>1. TypeOK
  BY DEF TypeOK, Indexes, Words, Sentinel, Event
<1>2. \A q \in 0..(Capacity - 1) : Slot(q) = q
  BY DEF Slot
<1>3. SlotInv
  BY <1>2 DEF SlotInv, Lap, Indexes
<1>4. QED
  BY <1>1, <1>3 DEF IInv, CleanInv, PushInv, PopInv, Active

\* Every step keeps the types.
LEMMA NextTypeOK == TypeOK /\ [Next]_vars => TypeOK'
<1> SUFFICES ASSUME TypeOK, [Next]_vars PROVE TypeOK'
  OBVIOUS
<1> USE CapacityAssumption DEF TypeOK, pushVars, popVars
<1>1. ASSUME NEW p \in Producers, Reserve(p) PROVE TypeOK'
  BY <1>1 DEF Reserve
<1>2. ASSUME NEW p \in Producers, SlotFree(p) PROVE TypeOK'
  BY <1>2 DEF SlotFree, Words
<1>3. ASSUME NEW p \in Producers, Saturated(p) PROVE TypeOK'
  BY <1>3 DEF Saturated, Words
<1>4. ASSUME NEW p \in Producers, CopyIn(p) PROVE TypeOK'
  <2>1. Slot(pushPos[p]) \in Indexes /\ pushVal[p] \in Words
    BY RingSlots
  <2>2. QED
    BY <1>4, <2>1 DEF CopyIn
<1>5. ASSUME NEW p \in Producers, Publish(p) PROVE TypeOK'
  <2>1. Slot(pushPos[p]) \in Indexes
    BY RingSlots
  <2>2. QED
    BY <1>5, <2>1 DEF Publish
<1>6. ASSUME Crash PROVE TypeOK'
  BY <1>6 DEF Crash
<1>7. ASSUME PopReady PROVE TypeOK'
  BY <1>7 DEF PopReady
<1>8. ASSUME CopyOut PROVE TypeOK'
  <2>1. Slot(readPos) \in Indexes
    BY RingSlots
  <2>2. QED
    BY <1>8, <2>1 DEF CopyOut
<1>9. ASSUME Advance PROVE TypeOK'
  BY <1>9 DEF Advance
<1>10. ASSUME FreeSlot PROVE TypeOK'
  <2>1. readPos - 1 + Capacity \in Nat
    OBVIOUS
  <2>2. seq' \in [Indexes -> Nat]
    BY <1>10, <2>1, Zenon DEF FreeSlot
  <2>3. QED
    BY <1>10, <2>2 DEF FreeSlot
<1>11. ASSUME UNCHANGED vars PROVE TypeOK'
  BY <1>11 DEF vars
<1>12. QED
  BY <1>1, <1>2, <1>3, <1>4, <1>5, <1>6, <1>7, <1>8, <1>9, <1>10, <1>11, SMTT(20)
     DEF Next, FinishPush, TryPop, Done

-----------------------------------------------------------------------------
(* Every step keeps CleanInv as long as it keeps the queue clean. *)

\* A push that finds its slot free finds it in the lap.
LEMMA FreeIsInLap ==
  ASSUME TypeOK, CleanInv, NEW b \in Nat, readPos <= b, seq[Slot(b)] = b
  PROVE  b \in Lap
<1>0. readPos \in Nat
  BY DEF TypeOK
<1>1. PICK q \in readPos..(readPos + Capacity - 1) :
        Slot(q) = Slot(b) /\ (q = b \/ q + Capacity <= b)
  BY <1>0, RingSlots, Zenon
<1> USE CapacityAssumption DEF TypeOK
<1>2. CASE q \in Lap
  <2>1. seq[Slot(q)] \in {q, q + 1}
    BY <1>2 DEF CleanInv, SlotInv
  <2>2. QED
    BY <1>1, <1>2, <2>1
<1>3. CASE q \notin Lap
  <2>1. popPc = "free" /\ q = readPos + Capacity - 1
    BY <1>1, <1>3 DEF Lap
  <2>2. readPos >= 1 /\ seq[Slot(readPos - 1)] = readPos
    BY <2>1 DEF CleanInv, SlotInv
  <2>3. readPos - 1 \in Nat /\ q = readPos - 1 + Capacity
    BY <2>1, <2>2
  <2>4. Slot(readPos - 1) = Slot(b)
    BY <1>1, <2>3, RingSlots
  <2>5. QED
    BY <1>1, <2>1, <2>2, <2>4
<1>4. QED
  BY <1>2, <1>3

\* A reservation of TryPush or Push keeps the bookkeeping: the position is new.
LEMMA ReserveClean ==
  ASSUME TypeOK, CleanInv, NEW p \in Producers, Reserve(p) PROVE CleanInv'
<1> USE DEF TypeOK, Reserve
<1>1. Lap' = Lap /\ Lap \subseteq Nat /\ readPos \in Nat /\ writePos \in Nat
  BY LapSlots DEF Lap, popVars
<1>2. \A q \in Producers \ {p} : (Active(q)' <=> Active(q)) /\ pushPos'[q] = pushPos[q]
  BY DEF Active
<1>3. Active(p)' /\ pushPos'[p] = writePos /\ ~Active(p)
  BY DEF Active
<1>4. \A q : Held(q) => Held(q)'
  BY <1>2, <1>3, Zenon DEF Held
<1>5. \A q : q = writePos => Held(q)'
  BY <1>3 DEF Held
<1>6. SlotInv'
  BY <1>1, <1>4, <1>5 DEF CleanInv, SlotInv, PopInv, popVars
<1>7. writePos \in Lap => seq[Slot(writePos)] = writePos
  BY <1>1 DEF CleanInv, SlotInv
<1>8. PushInv(p)'
  BY <1>1, <1>2, <1>3, <1>7 DEF CleanInv, PushInv, PopInv, Active, Owning
<1>9. ASSUME NEW q \in Producers \ {p} PROVE PushInv(q)'
  BY <1>1, <1>2, <1>3, <1>9 DEF CleanInv, PushInv, Active, Owning
<1>10. PopInv'
  BY DEF CleanInv, PopInv, popVars
<1>11. QED
  BY <1>6, <1>8, <1>9, <1>10 DEF CleanInv

\* So does the test of the slot sequence that lets a push go on.
LEMMA SlotFreeClean ==
  ASSUME TypeOK, CleanInv, NEW p \in Producers, SlotFree(p) PROVE CleanInv'
<1> USE DEF TypeOK, SlotFree
<1>1. Lap' = Lap
  BY DEF Lap, popVars
<1>2. Active(p) /\ \A q \in Producers : Active(q)' <=> Active(q)
  BY DEF Active
<1>3. \A q : Held(q)' <=> Held(q)
  BY <1>2 DEF Held
<1>4. pushPos[p] \in Lap
  BY <1>2, FreeIsInLap DEF CleanInv, PushInv
<1>5. SlotInv'
  BY <1>1, <1>3 DEF CleanInv, SlotInv, popVars
<1>6. \A q \in Producers : PushInv(q)'
  BY <1>1, <1>2, <1>4 DEF CleanInv, PushInv, Owning
<1>7. PopInv'
  BY DEF CleanInv, PopInv, popVars
<1>8. QED
  BY <1>5, <1>6, <1>7 DEF CleanInv

\* So does the copy of the event into the slot the push owns.
LEMMA CopyInClean ==
  ASSUME TypeOK, CleanInv, NEW p \in Producers, CopyIn(p) PROVE CleanInv'
<1> DEFINE b == pushPos[p]
<1> USE DEF TypeOK
<1>1. PICK w \in {1, 2} :
        /\ pushPc[p] = <<"copy1", "copy2">>[w]
        /\ data' = [data EXCEPT ![Slot(b)][w] = pushVal[p]]
        /\ pushPc' = [pushPc EXCEPT ![p] = <<"copy2", "publish">>[w]]
        /\ UNCHANGED <<writePos, readPos, dropped, seq, pushPos, pushVal, popVars, popped, crashes>>
  BY Zenon DEF CopyIn
<1>2. Lap' = Lap
  BY <1>1 DEF Lap, popVars
<1>3. Active(p) /\ Owning(p) /\ \A q \in Producers : Active(q)' <=> Active(q)
  BY <1>1 DEF Active, Owning
<1>4. /\ b \in Lap /\ seq[Slot(b)] = b /\ pushVal[p] = b
      /\ w = 2 => data[Slot(b)][1] = b
  BY <1>1, <1>3 DEF CleanInv, PushInv
<1>5. \A i \in Indexes \ {Slot(b)} : data'[i] = data[i]
  BY <1>1
<1>6. data'[Slot(b)][w] = b /\ (w = 2 => data'[Slot(b)][1] = b)
  BY <1>1, <1>4, LapSlots
<1>7. \A q : Held(q)' <=> Held(q)
  BY <1>1, <1>3 DEF Held
<1>8. SlotInv'
  <2>1. \A q \in Lap : seq[Slot(q)] = q + 1 => data'[Slot(q)] = data[Slot(q)]
    BY <1>4, <1>5, LapSlots
  <2>2. QED
    BY <1>1, <1>2, <1>7, <2>1 DEF CleanInv, SlotInv, popVars
<1>9. PushInv(p)'
  BY <1>1, <1>2, <1>3, <1>4, <1>6 DEF CleanInv, PushInv, Owning
<1>10. ASSUME NEW q \in Producers \ {p} PROVE PushInv(q)'
  <2>1. pushPc'[q] = pushPc[q] /\ (Owning(q)' <=> Owning(q))
    BY <1>1 DEF Owning
  <2>2. Owning(q) => data'[Slot(pushPos[q])] = data[Slot(pushPos[q])]
    <3>1. Owning(q) => Active(q) /\ pushPos[q] \in Lap /\ pushPos[q] # b
      BY <1>3 DEF CleanInv, PushInv, Owning, Active
    <3>2. QED
      BY <1>4, <1>5, <3>1, LapSlots
  <2>3. QED
    BY <1>1, <1>2, <1>3, <2>1, <2>2 DEF CleanInv, PushInv, Owning
<1>11. PopInv'
  BY <1>1 DEF CleanInv, PopInv, popVars
<1>12. QED
  BY <1>8, <1>9, <1>10, <1>11 DEF CleanInv

\* So does the store of the sequence that publishes the event.
LEMMA PublishClean ==
  ASSUME TypeOK, CleanInv, NEW p \in Producers, Publish(p) PROVE CleanInv'
<1> DEFINE b == pushPos[p]
<1> USE CapacityAssumption DEF TypeOK, Publish
<1>1. Lap' = Lap
  BY DEF Lap, popVars
<1>2. /\ Active(p) /\ ~Active(p)'
      /\ \A q \in Producers \ {p} : (Active(q)' <=> Active(q)) /\ pushPc'[q] = pushPc[q]
  BY DEF Active
<1>3. /\ b \in Lap /\ b \in Nat /\ b < writePos /\ seq[Slot(b)] = b
      /\ data[Slot(b)] = Event(b)
  <2>1. /\ b \in Lap /\ b < writePos /\ seq[Slot(b)] = b
        /\ data[Slot(b)][1] = b /\ data[Slot(b)][2] = b
    BY <1>2 DEF CleanInv, PushInv, Owning
  <2>2. data[Slot(b)] \in [{1, 2} -> Words]
    BY <2>1, LapSlots
  <2>3. QED
    BY <2>1, <2>2, LapSlots, Zenon DEF Event
<1>4. /\ seq'[Slot(b)] = b + 1
      /\ \A i \in Indexes \ {Slot(b)} : seq'[i] = seq[i]
  BY <1>3, LapSlots
<1>5. \A q \in Lap \ {b} : Slot(q) \in Indexes \ {Slot(b)}
  BY <1>3, LapSlots
<1>6. \A q : q # b /\ Held(q) => Held(q)'
  BY <1>2 DEF Held
<1>7. SlotInv'
  <2>1. ASSUME popPc = "free" PROVE Slot(readPos - 1) \in Indexes \ {Slot(b)}
    <3>1. readPos - 1 \in Nat /\ readPos - 1 < b /\ b < readPos - 1 + Capacity
      BY <1>3, <2>1 DEF CleanInv, SlotInv, Lap
    <3>2. QED
      BY <1>3, <3>1, RingSlots
  <2>2. \A q \in Lap :
          \/ seq'[Slot(q)] = q /\ (q < writePos => Held(q)')
          \/ seq'[Slot(q)] = q + 1 /\ q < writePos /\ data[Slot(q)] = Event(q)
    BY <1>3, <1>4, <1>5, <1>6 DEF CleanInv, SlotInv
  <2>3. \A q \in (readPos..(writePos - 1)) \ Lap : Held(q)'
    BY <1>3, <1>6 DEF CleanInv, SlotInv
  <2>4. popPc = "free" => readPos >= 1 /\ seq'[Slot(readPos - 1)] = readPos
    BY <1>4, <2>1 DEF CleanInv, SlotInv
  <2>5. QED
    BY <1>1, <2>2, <2>3, <2>4 DEF SlotInv, popVars
<1>8. \A q \in Producers : PushInv(q)'
  <2>1. ASSUME NEW q \in Producers \ {p}, Active(q), pushPos[q] \in Lap
        PROVE  seq'[Slot(pushPos[q])] = pushPos[q]
    BY <1>2, <1>4, <1>5, <2>1 DEF CleanInv, PushInv
  <2>2. QED
    BY <1>1, <1>2, <2>1 DEF CleanInv, PushInv, Owning
<1>9. PopInv'
  <2>1. popPc \in {"copy1", "copy2", "advance"} => seq'[Slot(readPos)] = readPos + 1
    <3>1. readPos \in Lap
      BY DEF Lap
    <3>2. QED
      BY <1>3, <1>4, <1>5, <3>1 DEF CleanInv, PopInv
  <2>2. QED
    BY <2>1 DEF CleanInv, PopInv, popVars
<1>10. QED
  BY <1>7, <1>8, <1>9 DEF CleanInv

\* So does the test of TryPop that finds the next event published.
LEMMA PopReadyClean ==
  ASSUME TypeOK, CleanInv, PopReady PROVE CleanInv'
<1> USE DEF TypeOK, PopReady, pushVars
<1>1. Lap' = Lap /\ \A q \in Producers : (Active(q)' <=> Active(q)) /\ (Owning(q)' <=> Owning(q))
  BY DEF Lap, Active, Owning
<1>2. \A q : Held(q)' <=> Held(q)
  BY <1>1 DEF Held
<1>3. QED
  BY <1>1, <1>2 DEF CleanInv, SlotInv, PushInv, PopInv

\* So does the copy of the event out of its slot.
LEMMA CopyOutClean ==
  ASSUME TypeOK, CleanInv, CopyOut PROVE CleanInv'
<1> USE CapacityAssumption DEF TypeOK, pushVars
<1>1. PICK w \in {1, 2} :
        /\ popPc = <<"copy1", "copy2">>[w]
        /\ popOut' = [popOut EXCEPT ![w] = data[Slot(readPos)][w]]
        /\ popPc' = <<"copy2", "advance">>[w]
        /\ UNCHANGED <<writePos, readPos, dropped, seq, data, pushVars, popped, crashes>>
  BY Zenon DEF CopyOut
<1>2. Lap' = Lap /\ \A q \in Producers : (Active(q)' <=> Active(q)) /\ (Owning(q)' <=> Owning(q))
  BY <1>1 DEF Lap, Active, Owning
<1>3. \A q : Held(q)' <=> Held(q)
  BY <1>1, <1>2 DEF Held
<1>4. SlotInv'
  BY <1>1, <1>2, <1>3 DEF CleanInv, SlotInv
<1>5. \A q \in Producers : PushInv(q)'
  BY <1>1, <1>2 DEF CleanInv, PushInv
<1>6. data[Slot(readPos)][w] = readPos
  <2>1. readPos \in Lap /\ seq[Slot(readPos)] = readPos + 1
    BY <1>1 DEF Lap, CleanInv, PopInv
  <2>2. data[Slot(readPos)] = Event(readPos)
    BY <2>1 DEF CleanInv, SlotInv
  <2>3. QED
    BY <2>2 DEF Event
<1>7. PopInv'
  BY <1>1, <1>6 DEF CleanInv, PopInv
<1>8. QED
  BY <1>4, <1>5, <1>7 DEF CleanInv

\* So does the step of the reader to the next position.
LEMMA AdvanceClean ==
  ASSUME TypeOK, CleanInv, Advance PROVE CleanInv'
<1> USE CapacityAssumption DEF TypeOK, Advance, pushVars
<1>1. Lap = readPos..(readPos + Capacity - 1) /\ Lap' = (readPos + 1)..(readPos + Capacity - 1)
  BY DEF Lap
<1>2. /\ readPos \in Lap /\ readPos < writePos
      /\ seq[Slot(readPos)] = readPos + 1
  <2>1. readPos \in Lap /\ seq[Slot(readPos)] = readPos + 1
    BY <1>1 DEF CleanInv, PopInv
  <2>2. QED
    BY <2>1 DEF CleanInv, SlotInv
<1>3. \A q \in Producers : (Active(q)' <=> Active(q)) /\ (Owning(q)' <=> Owning(q))
  BY DEF Active, Owning
<1>4. \A q : Held(q)' <=> Held(q)
  BY <1>3 DEF Held
<1>5. \A q \in Producers : Active(q) => pushPos[q] # readPos
  BY <1>2 DEF CleanInv, PushInv
<1>6. SlotInv'
  BY <1>1, <1>2, <1>4 DEF CleanInv, SlotInv
<1>7. \A q \in Producers : PushInv(q)'
  BY <1>1, <1>3, <1>5 DEF CleanInv, PushInv
<1>8. PopInv'
  <2>1. popOut = Event(readPos)
    BY DEF CleanInv, PopInv, Event
  <2>2. /\ Len(popped') = readPos + 1
        /\ \A i \in 1..readPos : popped'[i] = popped[i]
        /\ popped'[readPos + 1] = popOut
    BY DEF CleanInv, PopInv
  <2>3. QED
    BY <1>2, <2>1, <2>2 DEF CleanInv, PopInv
<1>9. QED
  BY <1>6, <1>7, <1>8 DEF CleanInv

\* So does the store of the sequence that gives the slot to the next lap.
LEMMA FreeSlotClean ==
  ASSUME TypeOK, CleanInv, FreeSlot PROVE CleanInv'
<1> DEFINE last == readPos - 1 + Capacity
<1> USE CapacityAssumption DEF TypeOK, FreeSlot, pushVars
<1>1. readPos - 1 \in Nat /\ last \in Nat
  BY DEF CleanInv, SlotInv
<1>2. Slot(last) = Slot(readPos - 1) /\ Slot(last) \in Indexes
  BY <1>1, RingSlots, Zenon
<1>3. Lap' = Lap \cup {last} /\ last \notin Lap /\ Lap = readPos..(readPos + Capacity - 2)
  <2>1. Lap = readPos..(readPos + Capacity - 2) /\ Lap' = readPos..(readPos + Capacity - 1)
    BY DEF Lap
  <2>2. readPos..(readPos + Capacity - 1) = (readPos..(readPos + Capacity - 2)) \cup {last}
    <3>1. \A n \in readPos..(readPos + Capacity - 1) : n <= readPos + Capacity - 2 \/ n = last
      BY <1>1
    <3>2. \A n \in readPos..(readPos + Capacity - 2) : n \in readPos..(readPos + Capacity - 1)
      BY <1>1
    <3>3. last \in readPos..(readPos + Capacity - 1)
      BY <1>1
    <3>4. QED
      BY <3>1, <3>2, <3>3
  <2>3. QED
    BY <1>1, <2>1, <2>2
<1>4. \A q \in Lap : Slot(q) \in Indexes /\ Slot(q) # Slot(last)
  <2> SUFFICES ASSUME NEW q \in Lap PROVE Slot(q) \in Indexes /\ Slot(q) # Slot(last)
    OBVIOUS
  <2>1. q \in Nat /\ q < last /\ last < q + Capacity
    BY <1>1, <1>3
  <2>2. QED
    BY <1>1, <2>1, RingSlots
<1>5. seq'[Slot(last)] = last /\ \A q \in Lap : seq'[Slot(q)] = seq[Slot(q)]
  BY <1>2, <1>4
<1>6. \A q \in Producers : (Active(q)' <=> Active(q)) /\ (Owning(q)' <=> Owning(q))
  BY DEF Active, Owning
<1>7. \A q : Held(q)' <=> Held(q)
  BY <1>6 DEF Held
<1>8. SlotInv'
  <2>1. last < writePos => Held(last)
    BY <1>1, <1>3 DEF CleanInv, SlotInv
  <2>2. \A q : q = last /\ q < writePos => Held(q)'
    BY <1>7, <2>1
  <2>3. QED
    BY <1>3, <1>5, <1>7, <2>2, Zenon DEF CleanInv, SlotInv
<1>9. \A q \in Producers : PushInv(q)'
  BY <1>3, <1>5, <1>6 DEF CleanInv, PushInv
<1>10. PopInv'
  BY DEF CleanInv, PopInv
<1>11. QED
  BY <1>8, <1>9, <1>10 DEF CleanInv

\* Every step keeps the types, and the bookkeeping while the queue stays clean.
LEMMA NextIInv == IInv /\ [Next]_vars => IInv'
<1> SUFFICES ASSUME IInv, [Next]_vars, Clean' PROVE CleanInv'
  BY NextTypeOK DEF IInv
<1>1. Clean
  <2> USE DEF Clean, Copying, IInv, TypeOK
  <2>1. ASSUME NEW p \in Producers, FinishPush(p) \/ Reserve(p) PROVE Clean
    <3>1. CASE Reserve(p)
      BY <3>1 DEF Reserve
    <3>2. CASE SlotFree(p) \/ Saturated(p)
      BY <3>2, Zenon DEF SlotFree, Saturated
    <3>3. CASE CopyIn(p)
      BY <3>3 DEF CopyIn
    <3>4. CASE Publish(p)
      BY <3>4 DEF Publish
    <3>5. QED
      BY <2>1, <3>1, <3>2, <3>3, <3>4 DEF FinishPush
  <2>2. ASSUME TryPop PROVE Clean
    BY <2>2 DEF TryPop, PopReady, CopyOut, Advance, FreeSlot, pushVars
  <2>3. ASSUME Crash PROVE Clean
    BY <2>3 DEF Crash
  <2>4. ASSUME UNCHANGED vars PROVE Clean
    BY <2>4 DEF vars, pushVars
  <2>5. QED
    BY <2>1, <2>2, <2>3, <2>4, SMTT(20) DEF Next, Done
<1>2. TypeOK /\ CleanInv
  BY <1>1 DEF IInv
<1>3. ASSUME NEW p \in Producers, FinishPush(p) PROVE CleanInv'
  <2>1. ~Saturated(p)
    BY <1>2 DEF Saturated, Clean, Copying, TypeOK
  <2>2. QED
    BY <1>2, <1>3, <2>1, SlotFreeClean, CopyInClean, PublishClean DEF FinishPush
<1>4. ~Crash
  BY <1>2, SMTT(20) DEF Crash, Clean, TypeOK
<1>5. ASSUME UNCHANGED vars PROVE CleanInv'
  BY <1>2, <1>5 DEF vars, pushVars, popVars, CleanInv, SlotInv, PushInv, PopInv, Lap, Held, Active, Owning
<1>6. QED
  BY <1>2, <1>3, <1>4, <1>5, ReserveClean, PopReadyClean, CopyOutClean, AdvanceClean, FreeSlotClean
     DEF Next, TryPop, Done

-----------------------------------------------------------------------------
(* The theorems. *)

\* The types, and the bookkeeping of the slots while the queue is clean.
THEOREM Bookkeeping == Spec => []IInv
<1>1. Init => IInv
  BY InitIInv
<1>2. IInv /\ [Next]_vars => IInv'
  BY NextIInv
<1>3. QED
  BY <1>1, <1>2, PTL DEF Spec

\* Type correctness, drops and crashes included.
THEOREM TypeCorrect == Spec => []TypeOK
<1>1. Spec => []IInv
  BY Bookkeeping
<1>2. QED
  BY <1>1, PTL DEF IInv

\* Until the first drop or crash, TryPop returns whole events in the order in
\* which TryPush and Push reserved their slots.
THEOREM Ordered == Spec => []ReservedOrder
<1>1. IInv => ReservedOrder
  BY DEF IInv, CleanInv, PopInv, ReservedOrder
<1>2. Spec => []IInv
  BY Bookkeeping
<1>3. QED
  BY <1>1, <1>2, PTL

\* Until the first drop or crash, two copies never touch one slot at a time.
THEOREM RaceFree == Spec => []NoDataRace
<1>1. IInv => NoDataRace
  <2> SUFFICES ASSUME IInv, Clean, NEW p \in Producers, pushPc[p] \in Copying
               PROVE  /\ popPc \in Copying => Slot(pushPos[p]) # Slot(readPos)
                      /\ \A q \in Producers \ {p} :
                           pushPc[q] \in Copying => Slot(pushPos[p]) # Slot(pushPos[q])
    BY DEF NoDataRace
  <2>1. TypeOK /\ CleanInv
    BY DEF IInv
  <2>2. pushPos[p] \in Lap /\ seq[Slot(pushPos[p])] = pushPos[p]
    BY <2>1 DEF CleanInv, PushInv, Active, Owning, Copying
  <2>3. popPc \in Copying => Slot(pushPos[p]) # Slot(readPos)
    <3>1. popPc \in Copying => readPos \in Lap /\ seq[Slot(readPos)] = readPos + 1
      BY <2>1, CapacityAssumption DEF Lap, CleanInv, PopInv, Copying, TypeOK
    <3>2. readPos \in Nat
      BY <2>1 DEF TypeOK
    <3>3. QED
      BY <2>1, <2>2, <3>1, <3>2, LapSlots
  <2>4. ASSUME NEW q \in Producers \ {p}, pushPc[q] \in Copying
        PROVE  Slot(pushPos[p]) # Slot(pushPos[q])
    <3>1. pushPos[q] \in Lap /\ pushPos[q] # pushPos[p]
      BY <2>1, <2>4 DEF CleanInv, PushInv, Active, Owning, Copying
    <3>2. QED
      BY <2>1, <2>2, <3>1, LapSlots
  <2>5. QED
    BY <2>3, <2>4
<1>2. Spec => []IInv
  BY Bookkeeping
<1>3. QED
  BY <1>1, <1>2, PTL

\* Until the first drop or crash, a queue at rest with an event left in it can
\* be popped.
THEOREM HoleFree == Spec => []NoHoleWhenClean
<1>1. IInv => NoHoleWhenClean
  <2> SUFFICES ASSUME IInv, Clean, popPc = "idle", readPos < writePos,
                      \A p \in Producers : pushPc[p] = "idle"
               PROVE  seq[Slot(readPos)] = readPos + 1
    BY DEF NoHoleWhenClean, NoSequenceHole
  <2>1. TypeOK /\ CleanInv
    BY DEF IInv
  <2>2. readPos \in Lap
    BY <2>1, CapacityAssumption DEF Lap, TypeOK
  <2>3. ~Held(readPos)
    BY DEF Held, Active
  <2>4. QED
    BY <2>1, <2>2, <2>3 DEF CleanInv, SlotInv
<1>2. Spec => []IInv
  BY Bookkeeping
<1>3. QED
  BY <1>1, <1>2, PTL

-----------------------------------------------------------------------------
\* What stays true of the words whatever is dropped and wherever the child
\* crashes.  A slot is free for a position only once the position a lap before it
\* was popped, so an event is copied only into a slot whose next position to be
\* popped is its own or a later one.
FreeInv == \A i \in Indexes : Slot(seq[i]) = i => seq[i] < readPos + Capacity
PushedWords ==
  \A p \in Producers : Owning(p) /\ pushVal[p] # Sentinel =>
    pushVal[p] = pushPos[p] /\ pushPos[p] < readPos + Capacity
SlotWords ==
  \A i \in Indexes, w \in {1, 2} : data[i][w] # Sentinel =>
    Slot(data[i][w]) = i /\ data[i][w] < readPos + Capacity
CopiedOut(w) == popPc = "advance" \/ (popPc = "copy2" /\ w = 1)
OutWords ==
  \A w \in {1, 2} : CopiedOut(w) /\ popOut[w] # Sentinel =>
    popOut[w] <= readPos /\ Slot(popOut[w]) = Slot(readPos)
PoppedWords == Len(popped) = readPos /\ (popPc = "free" => readPos > 0) /\ SlotOwnWords
WordInv == FreeInv /\ PushedWords /\ SlotWords /\ OutWords /\ PoppedWords

\* A position of the same slot that is less than a lap ahead is not ahead, and
\* the slot after it is another one.
LEMMA SameSlot ==
  /\ \A a, b \in Nat : Slot(a) = Slot(b) /\ a < b + Capacity => a <= b
  /\ \A a \in Nat : Slot(a + 1) # Slot(a)
<1>1. ASSUME NEW a \in Nat, NEW b \in Nat, Slot(a) = Slot(b), a < b + Capacity PROVE a <= b
  <2>1. ~(b < a)
    BY <1>1, RingSlots, Zenon
  <2> QED
    BY <2>1
<1>2. ASSUME NEW a \in Nat PROVE Slot(a + 1) # Slot(a)
  <2>1. a + 1 \in Nat /\ a < a + 1 /\ a + 1 < a + Capacity
    BY CapacityAssumption
  <2> QED
    BY <2>1, RingSlots, Zenon
<1> QED
  BY <1>1, <1>2, Zenon

\* The slots hold no event in the beginning.
LEMMA InitWords == Init => WordInv
<1> SUFFICES ASSUME Init PROVE WordInv
  OBVIOUS
<1>1. \A i \in Indexes : seq[i] < readPos + Capacity
  BY CapacityAssumption DEF Init, Indexes
<1>2. \A i \in Indexes, w \in {1, 2} : data[i][w] = Sentinel
  BY DEF Init, Event
<1>3. /\ \A p \in Producers : ~Owning(p)
      /\ popPc = "idle" /\ readPos = 0 /\ popped = << >>
  BY Zenon DEF Init, Owning
<1>4. Len(popped) = readPos /\ SlotOwnWords
  BY <1>3 DEF SlotOwnWords
<1>5. FreeInv /\ PushedWords
  BY <1>1, <1>3, Zenon DEF FreeInv, PushedWords
<1>6. SlotWords /\ OutWords
  BY <1>2, <1>3, Zenon DEF SlotWords, OutWords, CopiedOut
<1> QED
  BY <1>3, <1>4, <1>5, <1>6, Zenon DEF WordInv, PoppedWords

\* Every step keeps the words in their slots.
LEMMA NextWords == TypeOK /\ WordInv /\ [Next]_vars => WordInv'
<1> SUFFICES ASSUME TypeOK, WordInv, [Next]_vars PROVE WordInv'
  OBVIOUS
<1>0. /\ FreeInv /\ PushedWords /\ SlotWords /\ OutWords /\ PoppedWords
      /\ readPos \in Nat /\ Capacity \in Nat \ {0} /\ popped \in Seq([{1, 2} -> Words])
      /\ seq \in [Indexes -> Nat] /\ data \in [Indexes -> [{1, 2} -> Words]]
      /\ popOut \in [{1, 2} -> Words]
      /\ pushPc \in [Producers -> {"idle", "wait", "copy1", "copy2", "publish"}]
      /\ pushPos \in [Producers -> Nat] /\ pushVal \in [Producers -> Words]
      /\ \A a \in Nat : Slot(a) \in Indexes
  <2>1. Capacity \in Nat \ {0}
    BY CapacityAssumption
  <2> QED
    BY <2>1, RingSlots, Zenon DEF WordInv, TypeOK
<1>a. UNCHANGED <<seq, readPos>> => FreeInv'
  BY <1>0, Zenon DEF FreeInv
<1>b. UNCHANGED <<data, readPos>> => SlotWords'
  BY <1>0, Zenon DEF SlotWords
<1>c. UNCHANGED <<popVars, readPos>> => OutWords'
  BY <1>0, Zenon DEF OutWords, CopiedOut, popVars
<1>d. UNCHANGED <<popped, popPc, readPos>> => PoppedWords'
  BY <1>0, Zenon DEF PoppedWords, SlotOwnWords
<1>e. UNCHANGED <<pushVars, readPos>> => PushedWords'
  BY <1>0, Zenon DEF PushedWords, Owning, pushVars
<1>1. ASSUME NEW p \in Producers, Reserve(p) PROVE WordInv'
  <2>1. /\ UNCHANGED <<readPos, seq, data, pushVal, popVars, popped, popPc>>
        /\ pushPc' = [pushPc EXCEPT ![p] = "wait"] /\ pushPos' = [pushPos EXCEPT ![p] = writePos]
    BY <1>1, Zenon DEF Reserve, popVars
  <2>2. \A q \in Producers : Owning(q)' => pushPc'[q] = pushPc[q] /\ pushPos'[q] = pushPos[q]
    BY <1>0, <2>1, Zenon DEF Owning
  <2>3. PushedWords'
    BY <1>0, <2>1, <2>2, Zenon DEF PushedWords, Owning
  <2> QED
    BY <1>a, <1>b, <1>c, <1>d, <2>1, <2>3, Zenon DEF WordInv
<1>2. ASSUME NEW p \in Producers, SlotFree(p) PROVE WordInv'
  <2>1. /\ UNCHANGED <<readPos, seq, data, pushPos, popVars, popped, popPc>>
        /\ pushPc' = [pushPc EXCEPT ![p] = "copy1"] /\ pushVal' = [pushVal EXCEPT ![p] = pushPos[p]]
        /\ seq[Slot(pushPos[p])] = pushPos[p]
    BY <1>2, Zenon DEF SlotFree, popVars
  <2>2. pushPos[p] < readPos + Capacity
    BY <1>0, <2>1, Zenon DEF FreeInv
  <2>3. pushVal'[p] = pushPos'[p] /\ pushPos'[p] < readPos' + Capacity
    BY <1>0, <2>1, <2>2, Zenon
  <2>4. \A q \in Producers : q # p => pushPc'[q] = pushPc[q] /\ pushVal'[q] = pushVal[q]
    BY <1>0, <2>1, Zenon
  <2>5. PushedWords'
    BY <1>0, <2>1, <2>3, <2>4, Zenon DEF PushedWords, Owning
  <2> QED
    BY <1>a, <1>b, <1>c, <1>d, <2>1, <2>5, Zenon DEF WordInv
<1>3. ASSUME NEW p \in Producers, Saturated(p) PROVE WordInv'
  <2>1. /\ UNCHANGED <<readPos, seq, data, pushPos, popVars, popped, popPc>>
        /\ pushPc' = [pushPc EXCEPT ![p] = "copy1"] /\ pushVal' = [pushVal EXCEPT ![p] = Sentinel]
    BY <1>3, Zenon DEF Saturated, popVars
  <2>2. \A q \in Producers : q # p => pushPc'[q] = pushPc[q] /\ pushVal'[q] = pushVal[q]
    BY <1>0, <2>1, Zenon
  <2>3. pushVal'[p] = Sentinel
    BY <1>0, <2>1, Zenon
  <2>4. PushedWords'
    BY <1>0, <2>1, <2>2, <2>3, Zenon DEF PushedWords, Owning
  <2> QED
    BY <1>a, <1>b, <1>c, <1>d, <2>1, <2>4, Zenon DEF WordInv
<1>4. ASSUME NEW p \in Producers, CopyIn(p) PROVE WordInv'
  <2>1. PICK w \in {1, 2} :
          /\ UNCHANGED <<readPos, seq, pushPos, pushVal, popVars, popped, popPc>>
          /\ pushPc[p] = <<"copy1", "copy2">>[w]
          /\ pushPc' = [pushPc EXCEPT ![p] = <<"copy2", "publish">>[w]]
          /\ data' = [data EXCEPT ![Slot(pushPos[p])][w] = pushVal[p]]
    BY <1>4, Zenon DEF CopyIn, popVars
  <2>2. Owning(p) /\ \A q \in Producers : Owning(q)' => Owning(q)
    <3>1. pushPc[p] \in {"copy1", "copy2"}
      BY <2>1
    <3> QED
      BY <1>0, <2>1, <3>1, Zenon DEF Owning
  <2>3. PushedWords'
    BY <1>0, <2>1, <2>2, Zenon DEF PushedWords
  <2>4. pushVal[p] # Sentinel => Slot(pushVal[p]) = Slot(pushPos[p]) /\ pushVal[p] < readPos + Capacity
    BY <1>0, <2>2, Zenon DEF PushedWords
  <2>5. Slot(pushPos[p]) \in Indexes
    BY <1>0, Zenon
  <2>6. \A i \in Indexes, v \in {1, 2} :
          data'[i][v] = IF i = Slot(pushPos[p]) /\ v = w THEN pushVal[p] ELSE data[i][v]
    BY <1>0, <2>1, <2>5, Zenon
  <2>7. ASSUME NEW i \in Indexes, NEW v \in {1, 2}, data'[i][v] # Sentinel
        PROVE  Slot(data'[i][v]) = i /\ data'[i][v] < readPos' + Capacity
    <3>1. CASE i = Slot(pushPos[p]) /\ v = w
      BY <2>1, <2>4, <2>6, <2>7, <3>1, Zenon
    <3>2. CASE ~(i = Slot(pushPos[p]) /\ v = w)
      <4>1. data'[i][v] = data[i][v]
        BY <2>6, <3>2, Zenon
      <4> QED
        BY <1>0, <2>1, <2>7, <4>1, ZenonT(30) DEF SlotWords
    <3> QED
      BY <3>1, <3>2, Zenon
  <2>8. SlotWords'
    BY <2>7, Zenon DEF SlotWords
  <2> QED
    BY <1>a, <1>c, <1>d, <2>1, <2>3, <2>8, Zenon DEF WordInv
<1>5. ASSUME NEW p \in Producers, Publish(p) PROVE WordInv'
  <2>1. /\ UNCHANGED <<readPos, data, pushPos, pushVal, popVars, popped, popPc>>
        /\ pushPc' = [pushPc EXCEPT ![p] = "idle"]
        /\ seq' = [seq EXCEPT ![Slot(pushPos[p])] = pushPos[p] + 1]
    BY <1>5, Zenon DEF Publish, popVars
  <2>2. \A q \in Producers : Owning(q)' => Owning(q)
    BY <1>0, <2>1, Zenon DEF Owning
  <2>3. PushedWords'
    BY <1>0, <2>1, <2>2, Zenon DEF PushedWords
  <2>4. Slot(pushPos[p] + 1) # Slot(pushPos[p])
    BY <1>0, SameSlot, Zenon
  <2>5. \A i \in Indexes : seq'[i] = IF i = Slot(pushPos[p]) THEN pushPos[p] + 1 ELSE seq[i]
    BY <1>0, <2>1, Zenon
  <2>6. FreeInv'
    BY <1>0, <2>1, <2>4, <2>5, Zenon DEF FreeInv
  <2> QED
    BY <1>b, <1>c, <1>d, <2>1, <2>3, <2>6, Zenon DEF WordInv
<1>6. CASE Crash
  <2>1. UNCHANGED <<readPos, seq, data, popVars, popped, popPc>> /\ \A q \in Producers : pushPc'[q] = "idle"
    BY <1>6, Zenon DEF Crash, popVars
  <2>2. PushedWords'
    BY <2>1, Zenon DEF PushedWords, Owning
  <2> QED
    BY <1>a, <1>b, <1>c, <1>d, <2>1, <2>2, Zenon DEF WordInv
<1>7. CASE PopReady
  <2>1. UNCHANGED <<readPos, seq, data, pushVars, popped>> /\ popPc' = "copy1"
    BY <1>7, Zenon DEF PopReady
  <2>2. OutWords'
    BY <2>1, Zenon DEF OutWords, CopiedOut
  <2>3. PoppedWords'
    BY <1>0, <2>1, Zenon DEF PoppedWords, SlotOwnWords
  <2> QED
    BY <1>a, <1>b, <1>e, <2>1, <2>2, <2>3, Zenon DEF WordInv
<1>8. CASE CopyOut
  <2>1. PICK w \in {1, 2} :
          /\ UNCHANGED <<readPos, seq, data, pushVars, popped>>
          /\ popPc = <<"copy1", "copy2">>[w] /\ popPc' = <<"copy2", "advance">>[w]
          /\ popOut' = [popOut EXCEPT ![w] = data[Slot(readPos)][w]]
    BY <1>8, Zenon DEF CopyOut
  <2>2. /\ popPc' # "free"
        /\ \A v \in {1, 2} : CopiedOut(v)' => v = w \/ CopiedOut(v)
    BY <2>1 DEF CopiedOut
  <2>3. data[Slot(readPos)][w] # Sentinel =>
          data[Slot(readPos)][w] <= readPos /\ Slot(data[Slot(readPos)][w]) = Slot(readPos)
    <3>1. Slot(readPos) \in Indexes /\ data[Slot(readPos)][w] \in Words
      BY <1>0, Zenon
    <3>2. data[Slot(readPos)][w] # Sentinel => data[Slot(readPos)][w] \in Nat
      BY <3>1, Zenon DEF Words
    <3> QED
      BY <1>0, <3>1, <3>2, SameSlot, Zenon DEF SlotWords
  <2>4. \A v \in {1, 2} : popOut'[v] = IF v = w THEN data[Slot(readPos)][w] ELSE popOut[v]
    BY <1>0, <2>1, Zenon
  <2>5. OutWords'
    BY <1>0, <2>1, <2>2, <2>3, <2>4, Zenon DEF OutWords
  <2>6. PoppedWords'
    BY <1>0, <2>1, <2>2, Zenon DEF PoppedWords, SlotOwnWords
  <2> QED
    BY <1>a, <1>b, <1>e, <2>1, <2>5, <2>6, Zenon DEF WordInv
<1>9. CASE Advance
  <2>1. /\ UNCHANGED <<seq, data, pushVars, popOut>> /\ readPos' = readPos + 1
        /\ popPc = "advance" /\ popPc' = "free" /\ popped' = Append(popped, popOut)
    BY <1>9, Zenon DEF Advance
  <2>2. /\ readPos' > 0
        /\ \A x \in Nat : x < readPos + Capacity => x < readPos' + Capacity
    BY <1>0, <2>1
  <2>3. FreeInv'
    BY <1>0, <2>1, <2>2, Zenon DEF FreeInv
  <2>4. PushedWords'
    BY <1>0, <2>1, <2>2, Zenon DEF PushedWords, Owning, pushVars
  <2>5. SlotWords'
    <3>1. ASSUME NEW i \in Indexes, NEW w \in {1, 2}, data[i][w] # Sentinel
          PROVE  Slot(data[i][w]) = i /\ data[i][w] < readPos' + Capacity
      <4>1. data[i][w] \in Words
        BY <1>0, ZenonT(30)
      <4>2. data[i][w] \in Nat
        BY <3>1, <4>1, Zenon DEF Words
      <4> QED
        BY <1>0, <2>2, <3>1, <4>2, Zenon DEF SlotWords
    <3> QED
      BY <2>1, <3>1, Zenon DEF SlotWords
  <2>6. OutWords'
    BY <2>1, Zenon DEF OutWords, CopiedOut
  <2>7. /\ Len(popped) = readPos /\ Len(popped') = readPos + 1 /\ popped'[readPos + 1] = popOut
        /\ \A i \in 1..readPos : popped'[i] = popped[i]
        /\ \A i \in 1..(readPos + 1) : i \in 1..readPos \/ i = readPos + 1
        /\ (readPos + 1) - 1 = readPos
    <3>1. Len(popped) = readPos /\ popped \in Seq([{1, 2} -> Words]) /\ popOut \in [{1, 2} -> Words]
      BY <1>0, Zenon DEF PoppedWords
    <3>2. /\ \A i \in 1..(readPos + 1) : i \in 1..readPos \/ i = readPos + 1
          /\ (readPos + 1) - 1 = readPos
      BY <1>0
    <3>3. /\ Len(popped') = readPos + 1 /\ popped'[readPos + 1] = popOut
          /\ \A i \in 1..readPos : popped'[i] = popped[i]
      BY <2>1, <3>1
    <3> QED
      BY <3>1, <3>2, <3>3, Zenon
  <2>8. ASSUME NEW i \in 1..Len(popped'), NEW w \in {1, 2}, popped'[i][w] # Sentinel
        PROVE  popped'[i][w] <= i - 1 /\ Slot(popped'[i][w]) = Slot(i - 1)
    <3>1. CASE i = readPos + 1
      <4>1. popped'[i] = popOut /\ i - 1 = readPos
        BY <2>7, <3>1, Zenon
      <4> QED
        BY <1>0, <2>1, <2>8, <4>1, Zenon DEF OutWords, CopiedOut
    <3>2. CASE i \in 1..readPos
      BY <1>0, <2>7, <2>8, <3>2, Zenon DEF PoppedWords, SlotOwnWords
    <3> QED
      BY <2>7, <3>1, <3>2, Zenon
  <2>9. PoppedWords'
    BY <2>1, <2>2, <2>7, <2>8, Zenon DEF PoppedWords, SlotOwnWords
  <2> QED
    BY <2>3, <2>4, <2>5, <2>6, <2>9, Zenon DEF WordInv
<1>10. CASE FreeSlot
  <2>1. /\ UNCHANGED <<readPos, data, pushVars, popOut, popped>> /\ popPc = "free" /\ popPc' = "idle"
        /\ seq' = [seq EXCEPT ![Slot(readPos - 1)] = readPos - 1 + Capacity]
    BY <1>10, Zenon DEF FreeSlot
  <2>2. readPos - 1 \in Nat /\ readPos - 1 + Capacity < readPos + Capacity
    BY <1>0, <2>1 DEF PoppedWords
  <2>3. \A i \in Indexes : seq'[i] = IF i = Slot(readPos - 1) THEN readPos - 1 + Capacity ELSE seq[i]
    BY <1>0, <2>1, Zenon
  <2>4. FreeInv'
    BY <1>0, <2>1, <2>2, <2>3, Zenon DEF FreeInv
  <2>5. OutWords'
    BY <2>1, Zenon DEF OutWords, CopiedOut
  <2>6. PoppedWords'
    BY <1>0, <2>1, Zenon DEF PoppedWords, SlotOwnWords
  <2> QED
    BY <1>b, <1>e, <2>1, <2>4, <2>5, <2>6, Zenon DEF WordInv
<1>11. CASE UNCHANGED vars
  BY <1>11, <1>a, <1>b, <1>c, <1>d, <1>e, Zenon DEF vars, popVars, pushVars, WordInv
<1> QED
  BY <1>1, <1>2, <1>3, <1>4, <1>5, <1>6, <1>7, <1>8, <1>9, <1>10, <1>11, Zenon
  DEF Next, FinishPush, TryPop, Done

\* SlotOwnWords: after any drops and crashes, what TryPop returns is put together
\* from T{}, its own event and earlier events of the same slot.
THEOREM WordsStayInSlot == Spec => []SlotOwnWords
<1>1. Init => TypeOK /\ WordInv
  BY InitIInv, InitWords DEF IInv
<1>2. TypeOK /\ WordInv /\ [Next]_vars => TypeOK' /\ WordInv'
  BY NextTypeOK, NextWords
<1>3. WordInv => SlotOwnWords
  BY DEF WordInv, PoppedWords
<1> QED
  BY <1>1, <1>2, <1>3, PTL DEF Spec
=============================================================================
