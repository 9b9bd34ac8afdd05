-------------------------- MODULE ExchangeMessages -------------------------
(***************************************************************************)
(* What the exchanges send (external, after the payloads that the parsers  *)
(* and their tests read): each event of interest in the format of each     *)
(* adapter's stream, whole or with one member missing or malformed, and    *)
(* the answers to a subscription.  Faithful says which event a message may *)
(* become.                                                                 *)
(***************************************************************************)
EXTENDS ExchangeParsers, TLC

\* An event as it happened at the exchange, with its time in milliseconds and
\* one level more than a side of DepthUpdateEvent holds.
Ladder(top, step) == [i \in 1..(MaxLevels + 1) |-> <<top + step * i, i>>]
Happened ==
  {Tick(7, 1, 3, 2, maker) : maker \in BOOLEAN}
  \cup {Depth(7, 1, Ladder(10, -1), Ladder(10, 1)), BookTicker(7, 3, 2, 4, 1)}

-----------------------------------------------------------------------------
(* Formats *)

Positional(levels) == <<"arr", [i \in DOMAIN levels |-> <<num(levels[i][1]), num(levels[i][2])>>]>>
Named(levels) ==
  <<"arr", [i \in DOMAIN levels |-> [p |-> num(levels[i][1]), s |-> int(levels[i][2])]]>>

BinanceQuote(ev) ==
  [b |-> num(ev.bid), B |-> num(ev.bidQty), a |-> num(ev.ask), A |-> num(ev.askQty)]
BinanceTrade(ev, time) ==
  [e |-> text("aggTrade"), E |-> int(time), a |-> int(ev.id), p |-> num(ev.price),
   q |-> num(ev.qty), m |-> bool(ev.maker)]

BinancePerpetualDoc(ev) ==
  CASE ev.type = "TICK" -> BinanceTrade(ev, ev.time)
    [] ev.type = "DEPTH" ->
         [e |-> text("depthUpdate"), E |-> int(ev.time), u |-> int(ev.id),
          b |-> Positional(ev.bids), a |-> Positional(ev.asks)]
    [] ev.type = "BOOK_TICKER" ->
         [e |-> text("bookTicker"), E |-> int(ev.time)] @@ BinanceQuote(ev)
    [] OTHER -> [result |-> null, id |-> int(1)]

BinanceSpotDoc(ev) ==
  CASE ev.type = "TICK" -> BinanceTrade(ev, 1000 * ev.time)
    [] ev.type = "DEPTH" ->
         [lastUpdateId |-> int(ev.id), bids |-> Positional(ev.bids), asks |-> Positional(ev.asks)]
    [] ev.type = "BOOK_TICKER" -> [u |-> int(1)] @@ BinanceQuote(ev)
    [] OTHER -> [result |-> null, id |-> int(1)]

GateioChannel ==
  [TICK |-> "trades", DEPTH |-> "order_book", BOOK_TICKER |-> "book_ticker", ACK |-> "order_book"]
GateioDoc(ev, result) ==
  [channel |-> text(GateioChannel[ev.type]),
   event |-> text(IF ev.type = "ACK" THEN "subscribe" ELSE "update")] @@ result
GateioQuote(ev) ==
  [t |-> int(ev.time), b |-> num(ev.bid), B |-> int(ev.bidQty), a |-> num(ev.ask), A |-> int(ev.askQty)]

\* A trade's size is negative when the buyer is the maker.
GateioPerpetualDoc(ev) ==
  GateioDoc(ev,
    CASE ev.type = "TICK" ->
           [result |-> <<"arr", << [id |-> int(ev.id), create_time_ms |-> int(ev.time), price |-> num(ev.price),
                                    size |-> int(IF ev.maker THEN -ev.qty ELSE ev.qty)] >> >>]
      [] ev.type = "DEPTH" ->
           [t |-> int(ev.time), id |-> int(ev.id), bids |-> Named(ev.bids), asks |-> Named(ev.asks)]
      [] ev.type = "BOOK_TICKER" -> GateioQuote(ev)
      [] OTHER -> [status |-> text("success")])

GateioSpotDoc(ev) ==
  GateioDoc(ev,
    CASE ev.type = "TICK" ->
           [id |-> int(ev.id), create_time_ms |-> num(ev.time), price |-> num(ev.price),
            amount |-> num(ev.qty), side |-> text(IF ev.maker THEN "sell" ELSE "buy")]
      [] ev.type = "DEPTH" ->
           [t |-> int(ev.time), lastUpdateId |-> int(ev.id),
            bids |-> Positional(ev.bids), asks |-> Positional(ev.asks)]
      [] ev.type = "BOOK_TICKER" -> GateioQuote(ev)
      [] OTHER -> [status |-> text("success")])

IntactDoc(adapter, ev) ==
  CASE adapter = "binance_perpetual" -> BinancePerpetualDoc(ev)
    [] adapter = "binance_spot" -> BinanceSpotDoc(ev)
    [] adapter = "gateio_perpetual" -> GateioPerpetualDoc(ev)
    [] adapter = "gateio_spot" -> GateioSpotDoc(ev)

-----------------------------------------------------------------------------
(* Damage: one member of a document, or one of a level or of a trade in it,
   is missing, no string and no number, or a string that is not a number; a
   positional level may end before it. *)

Harms == {"absent", "null", "text"}
ItemHarms(adapter) ==
  IF adapter = "gateio_perpetual" THEN Harms ELSE {"short", "null", "text"}

HurtMember(doc, f, harm) ==
  CASE harm = "absent" -> [g \in DOMAIN doc \ {f} |-> doc[g]]
    [] harm = "null" -> [doc EXCEPT ![f] = null]
    [] harm = "text" -> [doc EXCEPT ![f] = text("junk")]

HurtElement(item, f, harm) ==
  IF harm = "short" THEN SubSeq(item, 1, f - 1) ELSE HurtMember(item, f, harm)

HurtDoc(doc, hurt) ==
  CASE hurt.at = "nowhere" -> doc
    [] hurt.at = "doc" -> HurtMember(doc, hurt.member, hurt.harm)
    [] hurt.at = "item" ->
         [doc EXCEPT ![hurt.array] =
            <<"arr", [@[2] EXCEPT ![hurt.index] = HurtElement(@, hurt.element, hurt.harm)]>>]

Hurts(adapter, doc) ==
  {[at |-> "nowhere"]}
  \cup [at : {"doc"}, member : DOMAIN doc, harm : Harms]
  \cup UNION {[at : {"item"}, array : {f}, index : DOMAIN doc[f][2],
               element : DOMAIN (doc[f][2][1]), harm : ItemHarms(adapter)] :
              f \in {g \in DOMAIN doc : doc[g][1] = "arr"}}

\* A message is described by what it was made from.
Messages ==
  UNION {[adapter : {a}, event : {ev}, hurt : Hurts(a, IntactDoc(a, ev))] :
         a \in Adapters, ev \in Happened \cup {[type |-> "ACK"]}}
Intact(m) == m.hurt.at = "nowhere"
Doc(m) == HurtDoc(IntactDoc(m.adapter, m.event), m.hurt)

-----------------------------------------------------------------------------
(* Which event a message may become *)

Gateio(m) == m.adapter \in {"gateio_perpetual", "gateio_spot"}

\* Exchange time in microseconds; the spot streams of Binance that carry none
\* are stamped by the collector.
TimeOf(m) ==
  IF m.adapter = "binance_spot" /\ m.event.type # "TICK" THEN Now ELSE 1000 * m.event.time

\* The levels of one side: the first MaxLevels of those sent, without the one
\* that is malformed; of Gate.io's objects that one is kept with quantity 0.
LevelsOf(m, side, levels) ==
  LET hurt == m.hurt.at = "item" /\ m.hurt.array \in side
      at == m.hurt.index
      without == IF hurt THEN SubSeq(levels, 1, at - 1) \o SubSeq(levels, at + 1, Len(levels)) ELSE levels
      zeroed == IF hurt /\ m.adapter = "gateio_perpetual"
                THEN [levels EXCEPT ![m.hurt.index] = <<@[1], 0>>] ELSE without
      Cut(s) == SubSeq(s, 1, MaxLevels)
  IN  {Cut(without), Cut(zeroed)}

\* A Gate.io quantity or side that is no longer readable counts as 0 or a buy.
Defaults == [qty |-> 0, bidQty |-> 0, askQty |-> 0, maker |-> FALSE]

Agrees(m, e) ==
  /\ e.type = m.event.type /\ e.time = TimeOf(m)
  /\ IF e.type = "DEPTH"
     THEN /\ e.id = m.event.id
          /\ e.bids \in LevelsOf(m, {"b", "bids"}, m.event.bids)
          /\ e.asks \in LevelsOf(m, {"a", "asks"}, m.event.asks)
     ELSE \A k \in DOMAIN e \ {"time", "type"} :
            \/ e[k] = m.event[k]
            \/ Gateio(m) /\ ~Intact(m) /\ k \in DOMAIN Defaults /\ e[k] = Defaults[k]

\* A level whose price or quantity is no number costs that level only.
MustParse(m) ==
  \/ Intact(m) /\ m.event.type # "ACK"
  \/ m.event.type = "DEPTH" /\ m.hurt.at = "item" /\ m.hurt.harm = "text"

Faithful(m, e) == IF e = None THEN ~MustParse(m) ELSE m.event.type # "ACK" /\ Agrees(m, e)
=============================================================================
