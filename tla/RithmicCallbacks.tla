-------------------------- MODULE RithmicCallbacks --------------------------
(***************************************************************************)
(* The quote callbacks of the gateway on one symbol's order book.  The     *)
(* R|API (external) calls them after SubscribeAll; each holds the book's   *)
(* lock from before its first access to after its last, so it is one step. *)
(* A callback carries a level or none (bPriceFlag unset); a quantity of    *)
(* zero stands for a size of zero and for bSizeFlag unset.  Timestamps     *)
(* count only where they are missing.                                      *)
(***************************************************************************)
EXTENDS RithmicOrderBook, FiniteSets

CONSTANTS
  BidPrices, AskPrices,            \* prices the exchange quotes
  BidQuantities, AskQuantities,    \* sizes, zero included
  MaxBatch                         \* bound: levels of a multi-part update

ASSUME PricesAssumption ==
  BidPrices \cup AskPrices \subseteq Nat /\ IsFiniteSet(BidPrices) /\ IsFiniteSet(AskPrices)
ASSUME QuantitiesAssumption ==
  0 \in BidQuantities \cap AskQuantities /\ BidQuantities \cup AskQuantities \subseteq Nat
ASSUME MaxBatchAssumption == MaxBatch \in Nat

Prices(side) == IF side = "ask" THEN AskPrices ELSE BidPrices
Levels(side) == [price : Prices(side), qty : IF side = "ask" THEN AskQuantities ELSE BidQuantities]
NoLevel == [price |-> 0, qty |-> 0]

VARIABLES
  book,         \* the symbol's RithmicOrderBook
  published,    \* the levels of the last snapshot pushed
  ref,          \* history: per side, quantity by price, as quoted
  quoted,       \* history: levels quoted since the last BEGIN
  short         \* history: per side, what it has lost since it was rebuilt

vars == <<book, published, ref, quoted, short>>

Init ==
  /\ book = EmptyBook /\ published = EmptyBook.levels
  /\ ref = [s \in Sides |-> [p \in Prices(s) |-> 0]]
  /\ quoted = [s \in Sides |-> << >>]
  /\ short = [s \in Sides |-> "nothing"]

-----------------------------------------------------------------------------
\* What the quotes say, kept apart from the book: the quantity at every price,
\* zero where there is no level.  The latest of several quotes counts.
Quotes(map, levels) ==
  IF levels = << >> THEN map
  ELSE [p \in DOMAIN map |->
          LET at == {i \in DOMAIN levels : levels[i].price = p}
          IN IF at = {} THEN map[p] ELSE levels[CHOOSE i \in at : \A k \in at : i >= k].qty]
NoQuotes == [s \in Sides |-> [p \in Prices(s) |-> 0]]
AsMap(side, levels) == Quotes(NoQuotes[side], levels)
Depth(map) == Cardinality({p \in DOMAIN map : map[p] > 0})

\* What a side loses by these updates: some of them, when there are more than
\* MaxLevels; a level, when there are more prices than it can hold.
Loses(map, updates) ==
  IF Len(updates) > MaxLevels THEN "updates"
  ELSE IF \E n \in 0..Len(updates) : Depth(Quotes(map, SubSeq(updates, 1, n))) > MaxLevels
  THEN "levels" ELSE "nothing"
Worse(a, b) == IF "updates" \in {a, b} THEN "updates" ELSE IF "levels" \in {a, b} THEN "levels" ELSE a

\* The histories after a completed update of the book.
Record(updates) ==
  /\ ref' = [s \in Sides |-> Quotes(ref[s], updates[s])]
  /\ short' = [s \in Sides |-> Worse(short[s], Loses(ref[s], updates[s]))]

\* PushSnapshot: the snapshot is pushed (and may be dropped by a full queue,
\* which is not followed here), except that of an empty book when the callback
\* has no timestamp.
PushSnapshot(b) ==
  \/ published' = b.levels
  \/ IsEmpty(b) /\ UNCHANGED published

\* A level enters the batch, if there is one and the batch has room.
Buffered(b, side, level) == IF level = NoLevel THEN b ELSE BufferLevel(b, side, level)
Noted(side, level) == IF level = NoLevel THEN quoted
                      ELSE [quoted EXCEPT ![side] = Append(@, level)]

Only(side, levels) == [s \in Sides |-> IF s = side THEN levels ELSE << >>]

\* AskQuote and BidQuote, by the kind of update.
SoloQuote(side, level) ==
  /\ IF level = NoLevel THEN UNCHANGED <<book, ref, short>>
     ELSE book' = Applied(book, side, level) /\ Record(Only(side, <<level>>))
  /\ PushSnapshot(book')
  /\ UNCHANGED quoted

BeginQuoteJoinsBatch(side, level) ==
  /\ book' = Buffered(IF book.active THEN book ELSE BeginBatch(book), side, level)
  /\ quoted' = Only(side, IF level = NoLevel THEN << >> ELSE <<level>>)
  /\ UNCHANGED <<published, ref, short>>
BeginQuote(side, level) ==
  /\ book' = Buffered(BeginBatch(IF book.active THEN CancelBatch(book) ELSE book), side, level)
  /\ quoted' = Only(side, IF level = NoLevel THEN << >> ELSE <<level>>)
  /\ UNCHANGED <<published, ref, short>>

MiddleQuote(side, level) ==
  /\ Len(quoted["bid"]) + Len(quoted["ask"]) < MaxBatch
  /\ book' = Buffered(IF book.active THEN book ELSE BeginBatch(book), side, level)
  /\ quoted' = Noted(side, level)
  /\ UNCHANGED <<published, ref, short>>

\* The END part of an update: its own level is buffered, then all are applied.
EndOfBatch(side, level) ==
  /\ Len(quoted["bid"]) + Len(quoted["ask"]) < MaxBatch
  /\ book' = CommitBatch(Buffered(book, side, level))
  /\ Record(Noted(side, level))
  /\ PushSnapshot(book')
  /\ quoted' = [s \in Sides |-> << >>]

\* CLEAR on either side clears both.
ClearQuote ==
  /\ book' = Clear(book)
  /\ PushSnapshot(book')
  /\ ref' = NoQuotes
  /\ short' = [s \in Sides |-> "nothing"]
  /\ quoted' = [s \in Sides |-> << >>]

\* EndQuote: a batch that is open is committed.
EndQuoteSilent ==
  /\ book.active
  /\ book' = CommitBatch(book)
  /\ Record(quoted)
  /\ UNCHANGED published
  /\ quoted' = [s \in Sides |-> << >>]
EndQuote ==
  /\ book.active
  /\ book' = CommitBatch(book)
  /\ Record(quoted)
  /\ PushSnapshot(book')
  /\ quoted' = [s \in Sides |-> << >>]

\* LimitOrderBook, MD_IMAGE_CB: both sides are replaced; an open batch stays.
LimitOrderBookImage(image) ==
  /\ book' = WithLevels(book, [s \in Sides |-> ApplyImage(image[s])])
  /\ PushSnapshot(book')
  /\ ref' = [s \in Sides |-> Quotes(NoQuotes[s], image[s])]
  /\ short' = [s \in Sides |-> IF Depth(ref'[s]) > MaxLevels THEN "levels" ELSE "nothing"]
  /\ UNCHANGED quoted

\* LimitOrderBook, MD_UPDATE_CB: the first MaxLevels levels of each array
\* (max_depth_levels is taken to be no smaller).
LimitOrderBookUpdate(update) ==
  /\ book' = WithLevels(book,
       [s \in Sides |-> ApplyLevels(s, book.levels[s], SubSeq(update[s], 1,
          IF Len(update[s]) < MaxLevels THEN Len(update[s]) ELSE MaxLevels))])
  /\ Record(update)
  /\ PushSnapshot(book')
  /\ UNCHANGED quoted

-----------------------------------------------------------------------------
\* The arrays the API delivers are sorted, best price first.  The other side's
\* array is empty; the two sides are treated one after the other.
Arrays ==
  [side \in Sides |->
     {a \in UNION {[1..n -> Levels(side)] : n \in 0..Cardinality(Prices(side))} :
        \A i, j \in DOMAIN a : i < j => Before(side, a[i].price, a[j].price)}]

\* AskQuote and BidQuote: the same switch on iUpdateType.
Quote(side) ==
  \/ ClearQuote
  \/ \E level \in Levels(side) \cup {NoLevel} :
       \/ SoloQuote(side, level) \/ BeginQuote(side, level)
       \/ MiddleQuote(side, level) \/ EndOfBatch(side, level)

\* LimitOrderBook: images, and updates of any other type.
LimitOrderBook(side) ==
  \E arrays \in {Only(side, array) : array \in Arrays[side]} :
    LimitOrderBookImage(arrays) \/ LimitOrderBookUpdate(arrays)

Next == EndQuote \/ \E side \in Sides : Quote(side) \/ LimitOrderBook(side)

Spec == Init /\ [][Next]_vars

-----------------------------------------------------------------------------
(* Properties *)

\* Types; both sides within their arrays, and no level pending outside a batch.
TypeOK ==
  /\ book.active \in BOOLEAN
  /\ \A s \in Sides :
       /\ book.levels[s] \in Seq(Levels(s)) /\ Len(book.levels[s]) <= MaxLevels
       /\ book.pending[s] \in Seq(Levels(s)) /\ Len(book.pending[s]) <= MaxLevels
       /\ ~book.active => book.pending[s] = << >>

\* Each side is strictly sorted, best price first, and holds no level without
\* a size, through every mixture of images, updates, batches and clears.
SidesSorted ==
  TypeOK /\ \A s \in Sides : \A i, j \in DOMAIN book.levels[s] :
    book.levels[s][i].qty > 0 /\ (i < j => Before(s, book.levels[s][i].price, book.levels[s][j].price))

\* A side that has lost nothing since it was last rebuilt shows exactly what
\* was quoted: the levels of finished updates, each with its latest quantity,
\* and nothing of a batch that is open or was cancelled.  A side that was too full
\* to take a level still shows no level that is not quoted, and no quantity that
\* is out of date.  Either way it is sorted.
BookMatchesQuotes ==
  /\ SidesSorted
  /\ \A s \in Sides :
       /\ short[s] = "nothing" => AsMap(s, book.levels[s]) = ref[s]
       /\ short[s] = "levels" =>
            \A i \in DOMAIN book.levels[s] : book.levels[s][i].qty = ref[s][book.levels[s][i].price]

\* After every callback the last snapshot pushed is the book, an empty book
\* apart: PushSnapshot may have had no timestamp for it.
SnapshotIsCurrent == published = book.levels \/ IsEmpty(book)
=============================================================================
