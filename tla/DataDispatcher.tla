--------------------------- MODULE DataDispatcher --------------------------
(***************************************************************************)
(* From a received message to storage, publisher and telemetry: OnMessage  *)
(* of a SymbolChannel, ParseAndDispatch of the shard's parser thread, and  *)
(* the DataDispatcher that it shares with the Rithmic receiver.            *)
(*                                                                         *)
(* The threads that dispatch are the Producers of SpscQueue, which is here *)
(* the tick queue of one shard of PubWorker; the consumer is the publisher *)
(* thread.  Parser also writes a TelemetrySlot, which the agent polls.     *)
(* Between network and parser thread is the shard queue (ShardPipeline);   *)
(* here it holds one message.                                              *)
(***************************************************************************)
EXTENDS SpscQueue, TelemetrySlot, ExchangeMessages

CONSTANTS
  Parser,       \* the parser thread of the shard
  MaxMessages   \* bound: messages received

ASSUME DispatcherAssumption == Parser \in Producers /\ MaxMessages \in Nat

VARIABLES
  raw,          \* the RawMessage on its way to the parser, or None
  received,     \* messages received
  parsed,       \* what parse_fn has returned: message and event
  at,           \* where each thread is: idle, parsed, route, publish, telemetry
  kind          \* the type of the event each thread dispatches

queueVars == vars
parserVars == <<raw, received, parsed>>
allVars == <<queueVars, slotVars, parserVars, at, kind>>

Types == {"TICK", "DEPTH", "BOOK_TICKER"}

DispatcherInit ==
  /\ Init /\ SlotInit
  /\ raw = None /\ received = 0 /\ parsed = None
  /\ at = [p \in Producers |-> "idle"]
  /\ kind = [p \in Producers |-> None]

Goto(p, from, to) == at[p] = from /\ at' = [at EXCEPT ![p] = to]

-----------------------------------------------------------------------------
(* Network and parser thread *)

\* Parsing keeps nothing from one message to the next, so every message there
\* is comes first, and whole ticks and book tickers follow.
Samples ==
  {m \in Messages : /\ Intact(m) /\ m.adapter = "gateio_spot"
                    /\ m.event \in {Tick(7, 1, 3, 2, TRUE), BookTicker(7, 3, 2, 4, 1)}}
Incoming == IF received = 0 THEN Messages ELSE Samples

\* SymbolChannel::OnMessage.  A message of unknown type goes no further.
OnMessage(m) ==
  /\ raw = None /\ received < MaxMessages
  /\ received' = received + 1
  /\ LET type == PeekEventType(m.adapter, Doc(m)) IN
     raw' = IF type = "UNKNOWN" THEN None ELSE [message |-> m, type |-> type]
  /\ UNCHANGED <<queueVars, slotVars, parsed, at, kind>>

\* ShardParserWorker::ParseAndDispatch up to the return of parse_fn, and the
\* switch on the type of its result.
ParseMessage ==
  /\ raw # None /\ Goto(Parser, "idle", "parsed")
  /\ parsed' = [message |-> raw.message,
                event |-> Parse(raw.message.adapter, Doc(raw.message), raw.type)]
  /\ raw' = None
  /\ UNCHANGED <<queueVars, slotVars, received, kind>>

HandParsedOn ==
  /\ LET e == parsed.event IN
     /\ Goto(Parser, "parsed", IF e = None THEN "idle" ELSE "route")
     /\ kind' = [kind EXCEPT ![Parser] = IF e = None THEN None ELSE e.type]
  /\ parsed' = None
  /\ UNCHANGED <<queueVars, slotVars, raw, received>>

\* The Rithmic receiver calls the same handlers with an event it has popped.
\* Its dispatcher is the one of shard 0.
Receive(p, type) ==
  /\ p # Parser /\ Goto(p, "idle", "route")
  /\ kind' = [kind EXCEPT ![p] = type]
  /\ UNCHANGED <<queueVars, slotVars, parserVars>>

-----------------------------------------------------------------------------
(* OnTick, OnDepth, OnBookTicker *)

\* Lookup, which returns at once for an unknown channel, and RouteTick.
Route(p) ==
  /\ Goto(p, "route", "publish") \/ Goto(p, "route", "idle")
  /\ UNCHANGED <<queueVars, slotVars, parserVars, kind>>

AfterPublish(p) == IF p = Parser THEN "telemetry" ELSE "idle"

\* PublishTick is try_push, step by step; a tick that finds the queue full is
\* dropped.
PublishTick(p) ==
  /\ at[p] = "publish" /\ kind[p] = "TICK"
  /\ \/ PushLoadWrite(p) /\ UNCHANGED at
     \/ PushHasRoom(p) /\ UNCHANGED at
     \/ PushFull(p) /\ Goto(p, "publish", AfterPublish(p))
     \/ PushCopy(p) /\ UNCHANGED at
     \/ PushPublish(p) /\ Goto(p, "publish", AfterPublish(p))
  /\ UNCHANGED <<slotVars, parserVars, kind>>

\* The other types have queues of their own.
PublishOther(p) ==
  /\ kind[p] # "TICK" /\ Goto(p, "publish", AfterPublish(p))
  /\ UNCHANGED <<queueVars, slotVars, parserVars, kind>>

WriteTelemetry ==
  /\ at[Parser] = "telemetry"
  /\ \/ BeginWrite /\ UNCHANGED at
     \/ (\E f \in Fields : WriteField(f)) /\ UNCHANGED at
     \/ EndWrite /\ Goto(Parser, "telemetry", "idle")
  /\ UNCHANGED <<queueVars, parserVars, kind>>

-----------------------------------------------------------------------------
Dispatch(p) == Route(p) \/ PublishTick(p) \/ PublishOther(p)

Publisher == TryPop /\ UNCHANGED <<slotVars, parserVars, at, kind>>

\* TelemetryAgent::PollAll, again and again.
PollAll == ReadTelemetrySlot /\ UNCHANGED <<queueVars, parserVars, at, kind>>

DispatcherNext ==
  \/ \E m \in Incoming : OnMessage(m)
  \/ ParseMessage \/ HandParsedOn \/ WriteTelemetry
  \/ \E p \in Producers : Dispatch(p)
  \/ Publisher \/ PollAll

DispatcherSpec == DispatcherInit /\ [][DispatcherNext]_allVars

\* Shard 0, where the receiver is a producer too.
SharedNext == DispatcherNext \/ \E p \in Producers, type \in Types : Receive(p, type)
SharedSpec == DispatcherInit /\ [][SharedNext]_allVars

\* The publisher thread keeps running; nothing is assumed of the others.
DispatcherFairSpec == DispatcherSpec /\ WF_allVars(Publisher)

-----------------------------------------------------------------------------
(* Properties *)

\* Whatever a message contains, what parse_fn makes of it is what the exchange
\* sent: the type, the exchange time in microseconds, prices and quantities,
\* the first levels of each side in their order; a level that is malformed is
\* skipped, and costs no other; an answer to a subscription is no event.
ParsedFaithfully == parsed # None => Faithful(parsed.message, parsed.event)

\* "Both counters are monotonic (never wrap)": the full and empty tests of the
\* queue rely on it.
CountersMonotonic == [][writePos <= writePos' /\ readPos <= readPos']_<<writePos, readPos>>
=============================================================================
