-------------------------- MODULE ExchangeParsers --------------------------
(***************************************************************************)
(* From a WebSocket message to an event: peek_event_type and parse of the  *)
(* four exchange adapters (Binance and Gate.io, spot and perpetual) with   *)
(* their helpers in json_parse_helpers.h and gateio_common.h.              *)
(*                                                                         *)
(* A JSON document is a function from field names to values, the members   *)
(* of "result" in one name space with the others.  A value is a pair: its  *)
(* kind and its content.  A string is "num" if SvToDouble accepts it and   *)
(* "text" otherwise.  A read of a member that is absent or of another kind *)
(* throws, which every parse function turns into "no event", as it does    *)
(* the return of false: both are None.                                     *)
(***************************************************************************)
EXTENDS Integers, Sequences

CONSTANTS
  MaxLevels,    \* kMaxOrderbookLevels
  Now,          \* what the collector's system_clock shows, in microseconds
  None          \* ParsedType::NONE

int(n) == <<"int", n>>
num(x) == <<"num", x>>
text(s) == <<"text", s>>
bool(b) == <<"bool", b>>
null == <<"null">>

Has(doc, f, kind) == f \in DOMAIN doc /\ doc[f][1] = kind
HasAll(doc, fs, kind) == \A f \in fs : Has(doc, f, kind)
Reads(doc, f, s) == Has(doc, f, "text") /\ doc[f][2] = s
Val(doc, f) == doc[f][2]

MsToUs(ms) == ms * 1000

-----------------------------------------------------------------------------
(* Order book levels.  A loop over an array runs over what reading each level
   gives; out[n] is what it has written to out after n levels, or None once
   something has thrown. *)

OverLevels(reads) ==
  LET out[n \in 0..Len(reads)] ==
        CASE n = 0 -> << >>
          [] n > 0 /\ out[n - 1] = None -> None
          [] n > 0 /\ out[n - 1] # None /\ Len(out[n - 1]) >= MaxLevels -> out[n - 1]
          [] OTHER -> IF reads[n] = None THEN None ELSE out[n - 1] \o reads[n]
  IN  out[Len(reads)]

\* A level is a JSON array: << >> where it is skipped, None where it throws.
PositionalLevelKeepsBad(level) ==
  << <<IF Has(level, 1, "num") THEN level[1][2] ELSE 0,
       IF Has(level, 2, "num") THEN level[2][2] ELSE 0>> >>
PositionalLevel(level) ==
  CASE level = << >>                                   -> << >>
    [] level # << >> /\ level[1][1] = "text"           -> << >>
    [] level # << >> /\ level[1][1] \notin {"num", "text"} -> None
    [] Has(level, 1, "num") /\ Len(level) = 1          -> << >>
    [] Has(level, 1, "num") /\ Has(level, 2, "num")    -> << <<level[1][2], level[2][2]>> >>
    [] Has(level, 1, "num") /\ Has(level, 2, "text")   -> << >>
    [] OTHER                                           -> None

ParsePositionalLevelArray(doc, f) ==
  IF Has(doc, f, "arr")
  THEN OverLevels([i \in DOMAIN doc[f][2] |-> PositionalLevel(doc[f][2][i])]) ELSE None

\* ParseQuantity: a numeric string, or 0 for another string, or an integer.
ParseQuantityThrows(doc, f) ==
  f \notin DOMAIN doc \/ doc[f][1] \notin {"num", "text", "int"}
ParseQuantity(doc, f) == IF doc[f][1] = "text" THEN 0 ELSE doc[f][2]

\* A level of Gate.io's perpetual book is an object with "p" and "s".
NamedLevel(level) ==
  CASE Has(level, "p", "text") -> << >>
    [] Has(level, "p", "num") /\ ~ParseQuantityThrows(level, "s")
         -> << <<Val(level, "p"), ParseQuantity(level, "s")>> >>
    [] OTHER -> None

ParseNamedLevelArray(doc, f) ==
  IF Has(doc, f, "arr")
  THEN OverLevels([i \in DOMAIN doc[f][2] |-> NamedLevel(doc[f][2][i])]) ELSE None

-----------------------------------------------------------------------------
(* Events *)

Tick(time, id, price, qty, maker) ==
  [type |-> "TICK", time |-> time, id |-> id, price |-> price, qty |-> qty, maker |-> maker]
Depth(time, id, bids, asks) ==
  IF bids = None \/ asks = None THEN None
  ELSE [type |-> "DEPTH", time |-> time, id |-> id, bids |-> bids, asks |-> asks]
BookTicker(time, bid, bidQty, ask, askQty) ==
  [type |-> "BOOK_TICKER", time |-> time, bid |-> bid, bidQty |-> bidQty, ask |-> ask, askQty |-> askQty]

-----------------------------------------------------------------------------
(* Binance *)

\* Spot book tickers and partial depths carry no "e"; whatever else has none
\* (an answer to SUBSCRIBE) passes for a book ticker.
BinancePeekEventType(doc) ==
  IF "e" \in DOMAIN doc
  THEN CASE Reads(doc, "e", "trade") \/ Reads(doc, "e", "aggTrade") -> "TICK"
         [] Reads(doc, "e", "depthUpdate") -> "DEPTH"
         [] Reads(doc, "e", "bookTicker") -> "BOOK_TICKER"
         [] OTHER -> "UNKNOWN"
  ELSE IF "lastUpdateId" \in DOMAIN doc THEN "DEPTH" ELSE "BOOK_TICKER"

\* us is the microseconds in a unit of "E".
BinanceTradeEvent(doc, us) ==
  IF HasAll(doc, {"E", "a"}, "int") /\ HasAll(doc, {"p", "q"}, "num") /\ Has(doc, "m", "bool")
  THEN Tick(us * Val(doc, "E"), Val(doc, "a"), Val(doc, "p"), Val(doc, "q"), Val(doc, "m"))
  ELSE None

BinanceBookTickerEvent(doc) ==
  IF HasAll(doc, {"b", "B", "a", "A"}, "num") /\ Has(doc, "E", "int")
  THEN BookTicker(MsToUs(Val(doc, "E")), Val(doc, "b"), Val(doc, "B"), Val(doc, "a"), Val(doc, "A"))
  ELSE None

BinanceSpotBookTickerEvent(doc) ==
  IF HasAll(doc, {"b", "B", "a", "A"}, "num")
  THEN BookTicker(Now, Val(doc, "b"), Val(doc, "B"), Val(doc, "a"), Val(doc, "A"))
  ELSE None

BinancePerpetualDepthEvent(doc) ==
  IF HasAll(doc, {"E", "u"}, "int")
  THEN Depth(MsToUs(Val(doc, "E")), Val(doc, "u"),
             ParsePositionalLevelArray(doc, "b"), ParsePositionalLevelArray(doc, "a"))
  ELSE None

BinanceSpotPartialDepth(doc) ==
  IF Has(doc, "lastUpdateId", "int")
  THEN Depth(Now, Val(doc, "lastUpdateId"),
             ParsePositionalLevelArray(doc, "bids"), ParsePositionalLevelArray(doc, "asks"))
  ELSE None

\* The perpetual stream reports milliseconds, the spot stream is opened with
\* timeUnit=MICROSECOND.
BinancePerpetualParse(doc, type) ==
  CASE type = "TICK" -> BinanceTradeEvent(doc, MsToUs(1))
    [] type = "DEPTH" -> BinancePerpetualDepthEvent(doc)
    [] type = "BOOK_TICKER" -> BinanceBookTickerEvent(doc)
    [] OTHER -> None

BinanceSpotParse(doc, type) ==
  CASE type = "TICK" -> BinanceTradeEvent(doc, 1)
    [] type = "DEPTH" -> BinanceSpotPartialDepth(doc)
    [] type = "BOOK_TICKER" -> BinanceSpotBookTickerEvent(doc)
    [] OTHER -> None

-----------------------------------------------------------------------------
(* Gate.io.  SkipTimeEnvelope discards what it reads, errors included. *)

GateioPeekEventType(doc) ==
  CASE Reads(doc, "channel", "trades") -> "TICK"
    [] Reads(doc, "channel", "order_book") -> "DEPTH"
    [] Reads(doc, "channel", "book_ticker") -> "BOOK_TICKER"
    [] OTHER -> "UNKNOWN"

GateioBookTickerEvent(doc) ==
  IF /\ Reads(doc, "event", "update") /\ Has(doc, "t", "int")
     /\ HasAll(doc, {"b", "a"}, "num")
     /\ ~ParseQuantityThrows(doc, "B") /\ ~ParseQuantityThrows(doc, "A")
  THEN BookTicker(MsToUs(Val(doc, "t")), Val(doc, "b"), ParseQuantity(doc, "B"),
                  Val(doc, "a"), ParseQuantity(doc, "A"))
  ELSE None

Abs(x) == IF x < 0 THEN -x ELSE x

\* "result" is an array of trades, of which the first is taken.
GateioPerpetualTradeEvent(doc) ==
  IF /\ Has(doc, "event", "text") /\ ~Reads(doc, "event", "subscribe")
     /\ Has(doc, "result", "arr") /\ Val(doc, "result") # << >>
  THEN LET item == Head(Val(doc, "result")) IN
       IF /\ HasAll(item, {"id", "create_time_ms"}, "int")
          /\ Has(item, "price", "num") /\ ~ParseQuantityThrows(item, "size")
       THEN LET size == ParseQuantity(item, "size") IN
            Tick(MsToUs(Val(item, "create_time_ms")), Val(item, "id"), Val(item, "price"),
                 Abs(size), size < 0)
       ELSE None
  ELSE None

GateioSpotTradeEvent(doc) ==
  IF /\ Has(doc, "event", "text") /\ ~Reads(doc, "event", "subscribe")
     /\ Has(doc, "id", "int") /\ HasAll(doc, {"create_time_ms", "price", "amount"}, "num")
     /\ Has(doc, "side", "text")
  THEN Tick(MsToUs(Val(doc, "create_time_ms")), Val(doc, "id"), Val(doc, "price"),
            Abs(Val(doc, "amount")), Reads(doc, "side", "sell"))
  ELSE None

GateioIsBook(doc) == Reads(doc, "event", "update") \/ Reads(doc, "event", "all")

GateioPerpetualDepthEvent(doc) ==
  IF GateioIsBook(doc) /\ HasAll(doc, {"t", "id"}, "int")
  THEN Depth(MsToUs(Val(doc, "t")), Val(doc, "id"),
             ParseNamedLevelArray(doc, "bids"), ParseNamedLevelArray(doc, "asks"))
  ELSE None

GateioSpotDepthEvent(doc) ==
  IF GateioIsBook(doc) /\ HasAll(doc, {"t", "lastUpdateId"}, "int")
  THEN Depth(MsToUs(Val(doc, "t")), Val(doc, "lastUpdateId"),
             ParsePositionalLevelArray(doc, "bids"), ParsePositionalLevelArray(doc, "asks"))
  ELSE None

GateioPerpetualParse(doc, type) ==
  CASE type = "TICK" -> GateioPerpetualTradeEvent(doc)
    [] type = "DEPTH" -> GateioPerpetualDepthEvent(doc)
    [] type = "BOOK_TICKER" -> GateioBookTickerEvent(doc)
    [] OTHER -> None

GateioSpotParse(doc, type) ==
  CASE type = "TICK" -> GateioSpotTradeEvent(doc)
    [] type = "DEPTH" -> GateioSpotDepthEvent(doc)
    [] type = "BOOK_TICKER" -> GateioBookTickerEvent(doc)
    [] OTHER -> None

-----------------------------------------------------------------------------
(* The adapters *)

Adapters == {"binance_perpetual", "binance_spot", "gateio_perpetual", "gateio_spot"}

PeekEventType(adapter, doc) ==
  IF adapter \in {"binance_perpetual", "binance_spot"}
  THEN BinancePeekEventType(doc) ELSE GateioPeekEventType(doc)

Parse(adapter, doc, type) ==
  CASE adapter = "binance_perpetual" -> BinancePerpetualParse(doc, type)
    [] adapter = "binance_spot" -> BinanceSpotParse(doc, type)
    [] adapter = "gateio_perpetual" -> GateioPerpetualParse(doc, type)
    [] adapter = "gateio_spot" -> GateioSpotParse(doc, type)
=============================================================================
