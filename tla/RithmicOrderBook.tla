-------------------------- MODULE RithmicOrderBook --------------------------
(***************************************************************************)
(* The order book the gateway keeps per symbol, as operators on its        *)
(* fields.  A side is the sequence of its levels, best first: bids by      *)
(* descending and asks by ascending price.  The book also holds the levels *)
(* of a multi-part update that has begun and is not finished.              *)
(***************************************************************************)
EXTENDS Integers, Sequences

CONSTANT MaxLevels    \* kMaxOrderbookLevels

ASSUME MaxLevelsAssumption == MaxLevels \in Nat \ {0}

Sides == {"bid", "ask"}

\* Price p comes before price q on this side.
Before(side, p, q) == IF side = "ask" THEN p < q ELSE p > q

EmptyBook ==
  [levels |-> [s \in Sides |-> << >>], pending |-> [s \in Sides |-> << >>], active |-> FALSE]

\* The loops of ApplyLevel: where a price is, where a new one goes, and the
\* shifts to the left and to the right.
Position(levels, price) ==
  LET found == {i \in DOMAIN levels : levels[i].price = price}
  IN IF found = {} THEN 0 ELSE CHOOSE i \in found : \A j \in found : i <= j

InsertPosition(side, levels, price) ==
  LET stops == {i \in DOMAIN levels : ~Before(side, levels[i].price, price)} \cup {Len(levels) + 1}
  IN CHOOSE i \in stops : \A j \in stops : i <= j

ShiftLeft(levels, pos) ==
  [j \in 1..(Len(levels) - 1) |-> IF j < pos THEN levels[j] ELSE levels[j + 1]]

ShiftRight(levels, pos, level) ==
  [j \in 1..(Len(levels) + 1) |->
     IF j < pos THEN levels[j] ELSE IF j = pos THEN level ELSE levels[j - 1]]

\* ApplyLevel: update or delete the level at this price; otherwise insert it,
\* unless there is nothing to delete or the side is full.
ApplyLevel(side, levels, level) ==
  LET pos == Position(levels, level.price)
  IN CASE pos > 0 /\ level.qty > 0 -> [levels EXCEPT ![pos] = level]
       [] pos > 0 /\ level.qty = 0 -> ShiftLeft(levels, pos)
       [] pos = 0 /\ level.qty > 0 /\ Len(levels) < MaxLevels ->
            ShiftRight(levels, InsertPosition(side, levels, level.price), level)
       [] OTHER -> levels

ApplyLevels(side, levels, updates) ==
  LET after[n \in 0..Len(updates)] ==
        IF n = 0 THEN levels ELSE ApplyLevel(side, after[n - 1], updates[n])
  IN after[Len(updates)]

\* ApplyImage: the first levels of an array that have a size.
ApplyImage(image) ==
  LET after[n \in 0..Len(image)] ==
        IF n = 0 THEN << >>
        ELSE IF image[n].qty > 0 /\ Len(after[n - 1]) < MaxLevels
             THEN Append(after[n - 1], image[n])
             ELSE after[n - 1]
  IN after[Len(image)]

Applied(book, side, level) ==
  [book EXCEPT !.levels[side] = ApplyLevel(side, @, level)]

WithLevels(book, levels) == [levels |-> levels, pending |-> book.pending, active |-> book.active]

BeginBatch(book) ==
  [levels |-> book.levels, pending |-> [s \in Sides |-> << >>], active |-> TRUE]

BufferLevel(book, side, level) ==
  IF Len(book.pending[side]) >= MaxLevels THEN book
  ELSE [book EXCEPT !.pending[side] = Append(@, level)]

CommitBatch(book) ==
  [levels |-> [s \in Sides |-> ApplyLevels(s, book.levels[s], book.pending[s])],
   pending |-> [s \in Sides |-> << >>], active |-> FALSE]

CancelBatch(book) ==
  [levels |-> book.levels, pending |-> [s \in Sides |-> << >>], active |-> FALSE]

Clear(book) == EmptyBook

IsEmpty(book) == \A s \in Sides : book.levels[s] = << >>
=============================================================================
