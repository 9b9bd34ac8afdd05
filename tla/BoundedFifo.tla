---------------------------- MODULE BoundedFifo ----------------------------
(***************************************************************************)
(* What SPSCQueue promises its caller: a first-in first-out queue of at    *)
(* most Bound items.  An item enters at one end in one step and leaves at  *)
(* the other in one step.  SpscQueue is shown to implement it, and the     *)
(* queues of PubWorker are used as such.                                   *)
(***************************************************************************)
EXTENDS Naturals, Sequences

CONSTANTS
  Items,    \* what can be queued
  Bound     \* the most items the queue holds

VARIABLES
  queue,    \* the items inside
  taken     \* the items that have left, in order

Init == queue = << >> /\ taken = << >>

Put ==
  /\ Len(queue) < Bound
  /\ \E item \in Items : queue' = Append(queue, item)
  /\ UNCHANGED taken

Get ==
  /\ queue # << >>
  /\ queue' = Tail(queue)
  /\ taken' = Append(taken, Head(queue))

Next == Put \/ Get

Spec == Init /\ [][Next]_<<queue, taken>>
=============================================================================
