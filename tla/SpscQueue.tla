----------------------------- MODULE SpscQueue -----------------------------
(***************************************************************************)
(* SPSCQueue<T, kCapacity> of src/common/spsc_queue.h: the lock-free ring  *)
(* buffer between the threads that publish (PublishTick, PublishDepth,     *)
(* PublishBookTicker) and the PubWorker thread.                            *)
(*                                                                         *)
(* One action is one access to shared memory: a load or store of a         *)
(* position, or the copy of an element into or out of a slot.  A position  *)
(* is a natural number (a size_t that the source says never wraps), and    *)
(* the mask w & kMask is w % Capacity, kCapacity being a power of two.     *)
(*                                                                         *)
(* The class is written for one producer.  Producers is a set so that the  *)
(* same actions also describe the shard-0 queues of PubWorker, which the   *)
(* collector hands to two threads.                                         *)
(***************************************************************************)
EXTENDS Integers, Sequences

CONSTANTS
  Producers,    \* the threads that call try_push
  Capacity,     \* kCapacity
  MaxOffers,    \* bound: calls of try_push each producer makes
  NoItem        \* content of a slot nothing was written to

ASSUME CapacityAssumption == Capacity \in Nat \ {0}
ASSUME MaxOffersAssumption == MaxOffers \in Nat

VARIABLES
  slots,        \* slots_
  writePos,     \* write_pos_
  readPos,      \* read_pos_
  pushPc,       \* where each producer is in try_push
  pushW,        \* try_push's local w
  offers,       \* how many items each producer has offered so far
  popPc,        \* where the consumer is in try_pop
  popOut,       \* try_pop's out
  accepted,     \* history: the items try_push returned true for, in order
  popped        \* history: the items try_pop returned, in order

pushVars == <<pushPc, pushW, offers>>
popVars == <<popPc, popOut>>
vars == <<slots, writePos, readPos, pushVars, popVars, accepted, popped>>

\* The n-th item that p offers.  Items are told apart by who offered them and
\* when, the finest distinction a property of the queue can make.
Items == Producers \X (1..MaxOffers)
Indexes == 0..(Capacity - 1)

Slot(pos) == pos % Capacity

\* The full test (w - r) >= kCapacity, negated.  The difference is unsigned: a
\* w that lags behind r makes it huge, and the queue looks full.
HasRoomOffByOne(w, r) == r <= w /\ w - r <= Capacity
HasRoom(w, r) == r <= w /\ w - r < Capacity

Init ==
  /\ slots = [i \in Indexes |-> NoItem]
  /\ writePos = 0
  /\ readPos = 0
  /\ pushPc = [p \in Producers |-> "idle"]
  /\ pushW = [p \in Producers |-> 0]
  /\ offers = [p \in Producers |-> 0]
  /\ popPc = "idle"
  /\ popOut = NoItem
  /\ accepted = << >>
  /\ popped = << >>

-----------------------------------------------------------------------------
(* try_push *)

\* The producer calls try_push with its next item and loads write_pos_.
PushLoadWrite(p) ==
  /\ pushPc[p] = "idle"
  /\ offers[p] < MaxOffers
  /\ offers' = [offers EXCEPT ![p] = @ + 1]
  /\ pushW' = [pushW EXCEPT ![p] = writePos]
  /\ pushPc' = [pushPc EXCEPT ![p] = "check"]
  /\ UNCHANGED <<slots, writePos, readPos, popVars, accepted, popped>>

\* It loads read_pos_ and finds room.
PushHasRoom(p) ==
  /\ pushPc[p] = "check"
  /\ HasRoom(pushW[p], readPos)
  /\ pushPc' = [pushPc EXCEPT ![p] = "copy"]
  /\ UNCHANGED <<slots, writePos, readPos, pushW, offers, popVars, accepted, popped>>

\* It loads read_pos_, finds the queue full and returns false: PubWorker
\* counts the item as dropped and never offers it again.
PushFull(p) ==
  /\ pushPc[p] = "check"
  /\ ~HasRoom(pushW[p], readPos)
  /\ pushPc' = [pushPc EXCEPT ![p] = "idle"]
  /\ UNCHANGED <<slots, writePos, readPos, pushW, offers, popVars, accepted, popped>>

PushCopy(p) ==
  /\ pushPc[p] = "copy"
  /\ slots' = [slots EXCEPT ![Slot(pushW[p])] = <<p, offers[p]>>]
  /\ pushPc' = [pushPc EXCEPT ![p] = "publish"]
  /\ UNCHANGED <<writePos, readPos, pushW, offers, popVars, accepted, popped>>

\* The release store of write_pos_ and the return of true.
PushPublish(p) ==
  /\ pushPc[p] = "publish"
  /\ writePos' = pushW[p] + 1
  /\ accepted' = Append(accepted, <<p, offers[p]>>)
  /\ pushPc' = [pushPc EXCEPT ![p] = "idle"]
  /\ UNCHANGED <<slots, readPos, pushW, offers, popVars, popped>>

-----------------------------------------------------------------------------
(* try_pop: read_pos_ is written by this thread only, so its load needs no
   step of its own.  A call that finds r = w returns false and changes
   nothing. *)

PopLeavesTheLast ==
  /\ popPc = "idle" /\ popPc' = "copy"
  /\ readPos + 1 < writePos
  /\ UNCHANGED <<slots, writePos, readPos, pushVars, popOut, accepted, popped>>

PopLoadWrite ==
  /\ popPc = "idle"
  /\ readPos # writePos
  /\ popPc' = "copy"
  /\ UNCHANGED <<slots, writePos, readPos, pushVars, popOut, accepted, popped>>

PopCopiesNext ==
  /\ popPc = "copy"
  /\ popOut' = slots[Slot(readPos + 1)]
  /\ popPc' = "advance"
  /\ UNCHANGED <<slots, writePos, readPos, pushVars, accepted, popped>>

PopCopy ==
  /\ popPc = "copy"
  /\ popOut' = slots[Slot(readPos)]
  /\ popPc' = "advance"
  /\ UNCHANGED <<slots, writePos, readPos, pushVars, accepted, popped>>

\* The release store of read_pos_ and the return of true.
PopAdvance ==
  /\ popPc = "advance"
  /\ readPos' = readPos + 1
  /\ popped' = Append(popped, popOut)
  /\ popPc' = "idle"
  /\ UNCHANGED <<slots, writePos, pushVars, popOut, accepted>>

-----------------------------------------------------------------------------
TryPush(p) ==
  PushLoadWrite(p) \/ PushHasRoom(p) \/ PushFull(p) \/ PushCopy(p) \/ PushPublish(p)

TryPop == PopLoadWrite \/ PopCopy \/ PopAdvance

\* Every producer has made its MaxOffers calls and the queue is drained: the
\* bound, not the code, ends the run here.
Done ==
  /\ \A p \in Producers : pushPc[p] = "idle" /\ offers[p] = MaxOffers
  /\ popPc = "idle" /\ readPos = writePos
  /\ UNCHANGED vars

Next == (\E p \in Producers : TryPush(p)) \/ TryPop \/ Done

Spec == Init /\ [][Next]_vars

\* Both threads keep running: the producer finishes the call it is in (it has
\* no lock to wait for) and the consumer's loop polls try_pop without end.
FairSpec ==
  /\ Spec
  /\ WF_vars(TryPop)
  /\ \A p \in Producers : WF_vars(PushHasRoom(p) \/ PushFull(p) \/ PushCopy(p) \/ PushPublish(p))

-----------------------------------------------------------------------------
(* Properties *)

\* In particular try_pop returns items only, never the content of a slot that
\* was not written.
TypeOK ==
  /\ slots \in [Indexes -> Items \cup {NoItem}]
  /\ writePos \in Nat
  /\ readPos \in Nat
  /\ pushPc \in [Producers -> {"idle", "check", "copy", "publish"}]
  /\ pushW \in [Producers -> Nat]
  /\ offers \in [Producers -> 0..MaxOffers]
  /\ popPc \in {"idle", "copy", "advance"}
  /\ popOut \in Items \cup {NoItem}
  /\ accepted \in Seq(Items)
  /\ popped \in Seq(Items)

\* While a producer copies an element into a slot (slots_[w & kMask] = item)
\* nobody else touches that slot: not the consumer's copy out of it, and not
\* another producer's copy into it.  The copies are plain stores and loads, so
\* an overlap would be a data race.
NoDataRace ==
  \A p \in Producers : pushPc[p] = "copy" =>
    /\ popPc = "copy" => Slot(pushW[p]) # Slot(readPos)
    /\ \A q \in Producers \ {p} : pushPc[q] = "copy" => Slot(pushW[p]) # Slot(pushW[q])

\* The ring buffer implements a FIFO of kCapacity items: try_push puts its item
\* at the store of write_pos_, try_pop takes the oldest one at the store of
\* read_pos_, and what it returns is that item.
Fifo == INSTANCE BoundedFifo
          WITH Bound <- Capacity, taken <- popped,
               queue <- SubSeq(accepted, Len(popped) + 1, Len(accepted))
ImplementsFifo == Fifo!Spec

\* Every item try_push accepted is eventually returned by try_pop.
AcceptedIsPopped ==
  \A n \in 1..MaxOffers : (Len(accepted) >= n) ~> (Len(popped) >= n)
=============================================================================
