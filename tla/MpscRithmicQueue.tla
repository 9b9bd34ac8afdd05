-------------------------- MODULE MpscRithmicQueue --------------------------
(***************************************************************************)
(* MpscRithmicQueue<T, Capacity> of src/exchange/rithmic/rithmic_queue.h:  *)
(* the queues in shared memory between the callback threads of the         *)
(* rithmic_gateway child and the receiver thread of the collector.         *)
(*                                                                         *)
(* One action is one access to shared memory.  An event is copied in and   *)
(* out of its slot one word at a time (it has two words here), so that a   *)
(* copy that overlaps another one can be seen.  An event is named by the   *)
(* position its push reserved, and Sentinel is a word of T{}, the value    *)
(* published in place of an event that is dropped.                         *)
(*                                                                         *)
(* Positions are natural numbers: a 64-bit counter of events does not      *)
(* wrap.  pos & kMask is pos % Capacity.  A queue of one slot cannot tell  *)
(* "published pos" from "free for pos + 1"; the collector's queues have    *)
(* thousands, and Capacity is at least two here.                           *)
(***************************************************************************)
EXTENDS Integers, Sequences, FiniteSets

CONSTANTS
  Producers,    \* the callback threads
  TryPushers,   \* those that call TryPush; the others call Push
  Capacity,
  MaxEvents,    \* bound: pushes in a run
  MaxCrashes    \* bound: crashes of the child in a run

ASSUME CapacityAssumption == Capacity \in Nat /\ Capacity >= 2
ASSUME BoundsAssumption == MaxEvents \in Nat /\ MaxCrashes \in Nat
ASSUME TryPushersAssumption == TryPushers \subseteq Producers

VARIABLES
  writePos, readPos, dropped,   \* write_pos_, read_pos_, dropped_count_
  seq, data,                    \* slots_[i].sequence, slots_[i].data
  pushPc, pushPos, pushVal,     \* per producer: where it is, pos, what it copies
  popPc, popOut,                \* the consumer: where it is, out
  popped,                       \* history: what TryPop returned
  crashes                       \* history: how often the child crashed

pushVars == <<pushPc, pushPos, pushVal>>
popVars == <<popPc, popOut>>
vars == <<writePos, readPos, dropped, seq, data, pushVars, popVars, popped, crashes>>

Sentinel == -1
Words == Nat \cup {Sentinel}
\* The event named x, whole; T{} is Event(Sentinel).
Event(x) == [w \in {1, 2} |-> x]
Indexes == 0..(Capacity - 1)

Slot(pos) == pos % Capacity

\* The constructor, over the zeroed shared memory the collector maps.
Init ==
  /\ writePos = 0 /\ readPos = 0 /\ dropped = 0
  /\ seq = [i \in Indexes |-> i]
  /\ data = [i \in Indexes |-> Event(Sentinel)]
  /\ pushPc = [p \in Producers |-> "idle"]
  /\ pushPos = [p \in Producers |-> 0]
  /\ pushVal = [p \in Producers |-> Sentinel]
  /\ popPc = "idle"
  /\ popOut = Event(Sentinel)
  /\ popped = << >>
  /\ crashes = 0

-----------------------------------------------------------------------------
(* TryPush and Push *)

\* Both begin with write_pos_.fetch_add(1), which is never taken back.
Reserve(p) ==
  /\ pushPc[p] = "idle"
  /\ writePos < MaxEvents
  /\ pushPos' = [pushPos EXCEPT ![p] = writePos]
  /\ writePos' = writePos + 1
  /\ pushPc' = [pushPc EXCEPT ![p] = "wait"]
  /\ UNCHANGED <<readPos, dropped, seq, data, pushVal, popVars, popped, crashes>>

\* A load of the slot's sequence, on the fast path or in the spin loop, finds
\* that the consumer has freed the slot.
SlotFreeUnlessOlder(p) ==
  /\ pushPc[p] = "wait"
  /\ seq[Slot(pushPos[p])] <= pushPos[p]
  /\ pushVal' = [pushVal EXCEPT ![p] = pushPos[p]]
  /\ pushPc' = [pushPc EXCEPT ![p] = "copy1"]
  /\ UNCHANGED <<writePos, readPos, dropped, seq, data, pushPos, popVars, popped, crashes>>

SlotFree(p) ==
  /\ pushPc[p] = "wait"
  /\ seq[Slot(pushPos[p])] = pushPos[p]
  /\ pushVal' = [pushVal EXCEPT ![p] = pushPos[p]]
  /\ pushPc' = [pushPc EXCEPT ![p] = "copy1"]
  /\ UNCHANGED <<writePos, readPos, dropped, seq, data, pushPos, popVars, popped, crashes>>

\* TryPush only: the last of its kMaxSpin loads still finds the slot taken.  The
\* event is given up, and T{} is what will be copied.  How long the loads take
\* compared with the other threads is not bounded by anything.
Saturated(p) ==
  /\ p \in TryPushers
  /\ pushPc[p] = "wait"
  /\ seq[Slot(pushPos[p])] # pushPos[p]
  /\ pushVal' = [pushVal EXCEPT ![p] = Sentinel]
  /\ pushPc' = [pushPc EXCEPT ![p] = "copy1"]
  /\ UNCHANGED <<writePos, readPos, dropped, seq, data, pushPos, popVars, popped, crashes>>

\* slot.data = event, or slot.data = T{}, in two steps.
CopyIn(p) ==
  \E w \in {1, 2} :
    /\ pushPc[p] = <<"copy1", "copy2">>[w]
    /\ data' = [data EXCEPT ![Slot(pushPos[p])][w] = pushVal[p]]
    /\ pushPc' = [pushPc EXCEPT ![p] = <<"copy2", "publish">>[w]]
    /\ UNCHANGED <<writePos, readPos, dropped, seq, pushPos, pushVal, popVars, popped, crashes>>

\* The release store of the sequence, then the count of dropped events.
Publish(p) ==
  /\ pushPc[p] = "publish"
  /\ seq' = [seq EXCEPT ![Slot(pushPos[p])] = pushPos[p] + 1]
  /\ dropped' = IF pushVal[p] = Sentinel THEN dropped + 1 ELSE dropped
  /\ pushPc' = [pushPc EXCEPT ![p] = "idle"]
  /\ UNCHANGED <<writePos, readPos, data, pushPos, pushVal, popVars, popped, crashes>>

\* The child dies (CheckHealth kills it, or it crashes) and its callback
\* threads with it, wherever they are.  The queue is in memory that the
\* collector keeps mapped and that the next child attaches to as it is.
Crash ==
  /\ crashes < MaxCrashes
  /\ crashes' = crashes + 1
  /\ pushPc' = [p \in Producers |-> "idle"]
  /\ UNCHANGED <<writePos, readPos, dropped, seq, data, pushPos, pushVal, popVars, popped>>

-----------------------------------------------------------------------------
(* TryPop.  A call that finds another sequence than read_pos_ + 1 returns
   false and changes nothing. *)

PopReadyWhenReserved ==
  /\ popPc = "idle"
  /\ readPos < writePos
  /\ popPc' = "copy1"
  /\ UNCHANGED <<writePos, readPos, dropped, seq, data, pushVars, popOut, popped, crashes>>

PopReady ==
  /\ popPc = "idle"
  /\ seq[Slot(readPos)] = readPos + 1
  /\ popPc' = "copy1"
  /\ UNCHANGED <<writePos, readPos, dropped, seq, data, pushVars, popOut, popped, crashes>>

CopyOutNext ==
  \E w \in {1, 2} :
    /\ popPc = <<"copy1", "copy2">>[w]
    /\ popOut' = [popOut EXCEPT ![w] = data[Slot(readPos + 1)][w]]
    /\ popPc' = <<"copy2", "advance">>[w]
    /\ UNCHANGED <<writePos, readPos, dropped, seq, data, pushVars, popped, crashes>>

CopyOut ==
  \E w \in {1, 2} :
    /\ popPc = <<"copy1", "copy2">>[w]
    /\ popOut' = [popOut EXCEPT ![w] = data[Slot(readPos)][w]]
    /\ popPc' = <<"copy2", "advance">>[w]
    /\ UNCHANGED <<writePos, readPos, dropped, seq, data, pushVars, popped, crashes>>

Advance ==
  /\ popPc = "advance"
  /\ readPos' = readPos + 1
  /\ popped' = Append(popped, popOut)
  /\ popPc' = "free"
  /\ UNCHANGED <<writePos, dropped, seq, data, pushVars, popOut, crashes>>

\* slot.sequence.store(pos + Capacity), where pos is the old read_pos_.
FreeSlotForNext ==
  /\ popPc = "free"
  /\ seq' = [seq EXCEPT ![Slot(readPos - 1)] = readPos]
  /\ popPc' = "idle"
  /\ UNCHANGED <<writePos, readPos, dropped, data, pushVars, popOut, popped, crashes>>

FreeSlot ==
  /\ popPc = "free"
  /\ seq' = [seq EXCEPT ![Slot(readPos - 1)] = readPos - 1 + Capacity]
  /\ popPc' = "idle"
  /\ UNCHANGED <<writePos, readPos, dropped, data, pushVars, popOut, popped, crashes>>

-----------------------------------------------------------------------------
FinishPush(p) == SlotFree(p) \/ Saturated(p) \/ CopyIn(p) \/ Publish(p)

TryPop == PopReady \/ CopyOut \/ Advance \/ FreeSlot

\* The bound on events is used up and everything was popped.
Done ==
  /\ writePos = MaxEvents /\ readPos = MaxEvents /\ popPc = "idle"
  /\ UNCHANGED vars

Next ==
  \/ \E p \in Producers : Reserve(p) \/ FinishPush(p)
  \/ TryPop
  \/ Crash
  \/ Done

Spec == Init /\ [][Next]_vars

\* A callback thread runs its push to the end, and the receiver polls for ever.
FairSpec ==
  /\ Spec
  /\ WF_vars(TryPop)
  /\ \A p \in Producers : WF_vars(FinishPush(p))

-----------------------------------------------------------------------------
(* Properties *)

\* Types of the state.
TypeOK ==
  /\ writePos \in Nat /\ readPos \in Nat /\ dropped \in Nat /\ crashes \in Nat
  /\ seq \in [Indexes -> Nat]
  /\ data \in [Indexes -> [{1, 2} -> Words]]
  /\ pushPc \in [Producers -> {"idle", "wait", "copy1", "copy2", "publish"}]
  /\ pushPos \in [Producers -> Nat]
  /\ pushVal \in [Producers -> Words]
  /\ popPc \in {"idle", "copy1", "copy2", "advance", "free"}
  /\ popOut \in [{1, 2} -> Words]
  /\ popped \in Seq([{1, 2} -> Words])

Copying == {"copy1", "copy2"}

\* No event was given up so far and no push was cut short.
Clean ==
  /\ dropped = 0 /\ crashes = 0
  /\ \A p \in Producers : pushPc[p] \in Copying \cup {"publish"} => pushVal[p] # Sentinel

\* As long as nothing is dropped, the n-th event TryPop returns is the n-th one
\* that a push reserved a slot for, whole, whatever the order in which the
\* callback threads got to publish.
ReservedOrder ==
  Clean => \A i \in 1..Len(popped) : popped[i] = Event(i - 1)

\* As long as nothing is dropped, a slot is copied into by one thread at a time,
\* and not while the receiver copies out of it: the words are plain memory.
NoDataRace ==
  Clean => \A p \in Producers : pushPc[p] \in Copying =>
    /\ popPc \in Copying => Slot(pushPos[p]) # Slot(readPos)
    /\ \A q \in Producers \ {p} : pushPc[q] \in Copying => Slot(pushPos[p]) # Slot(pushPos[q])

\* When no push and no pop is under way, a reserved position that was not popped
\* is one TryPop can pop.  Otherwise it is a hole: TryPop returns false for ever.
NoSequenceHole ==
  /\ \A p \in Producers : pushPc[p] = "idle"
  /\ popPc = "idle"
  /\ readPos < writePos
  => seq[Slot(readPos)] = readPos + 1

\* Whatever is dropped and wherever the child crashes, the i-th thing TryPop
\* returns is put together from T{}, its own event, and earlier events that had
\* the same slot: never from a later event or from another slot's.
SlotOwnWords ==
  \A i \in 1..Len(popped) : \A w \in {1, 2} :
    popped[i][w] # Sentinel => popped[i][w] <= i - 1 /\ Slot(popped[i][w]) = Slot(i - 1)

\* Every reserved position is eventually popped, however often the queue is full,
\* unless an event was given up or the child died.
ReservedIsPopped ==
  \A n \in 1..MaxEvents : (writePos >= n) ~> (readPos >= n \/ ~Clean)
=============================================================================
