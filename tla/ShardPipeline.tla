--------------------------- MODULE ShardPipeline ---------------------------
(***************************************************************************)
(* One shard of the crypto path: the network thread whose OnMessage pushes *)
(* raw messages into a ShardQueue, the ShardParserWorker that pops them,   *)
(* and the main thread, which at shutdown stops the network, pushes the    *)
(* poison pill and joins both.  The shards do not touch one another, and   *)
(* DrainQueues and Shutdown treat them one by one in the same way.         *)
(*                                                                         *)
(* A RawMessage is its size and its body.  The n-th message has size n and *)
(* body n, so that a mixture shows; size 0 is the poison pill, and also    *)
(* what a slot holds before it is used.  Body 0 is no body: a body on the  *)
(* heap leaves nothing behind when the message is moved, one in the inline *)
(* buffer is copied.  The members are moved in the order of the struct,    *)
(* the body before the size, as two steps.                                 *)
(***************************************************************************)
EXTENDS Integers, Sequences

CONSTANTS
  Capacity,      \* capacity_
  MaxMessages    \* bound: messages that arrive in a run

ASSUME CapacityAssumption == Capacity \in Nat \ {0}
ASSUME MaxMessagesAssumption == MaxMessages \in Nat

VARIABLES
  slots, writePos, readPos,    \* the ShardQueue
  pushPc, pushW, pushMsg,      \* per pushing thread: where it is, w, msg
  arrived,                     \* messages that have arrived on the network
  stopped,                     \* io_ctx->stop() was called
  popPc, popOut,               \* the parser: where it is, msg
  mainPc,                      \* the main thread's place in the shutdown
  parsed,                      \* history: what ParseAndDispatch was given
  settled,                     \* history: last message pushed before DrainQueues
  retried                      \* history: messages whose TryPush failed once

queueVars == <<slots, writePos, readPos>>
pushVars == <<pushPc, pushW, pushMsg>>
popVars == <<popPc, popOut>>
histories == <<parsed, settled, retried>>
vars == <<queueVars, pushVars, arrived, stopped, popVars, mainPc, histories>>

Pushers == {"network", "main"}
Indexes == 0..(Capacity - 1)
Ids == 0..MaxMessages
Messages == [size : Ids, body : Ids, heap : BOOLEAN]
Pill == [size |-> 0, body |-> 0, heap |-> FALSE]

Slot(pos) == pos % Capacity
HasRoomOffByOne(w, r) == r <= w /\ w - r <= Capacity
HasRoom(w, r) == r <= w /\ w - r < Capacity

\* What a move leaves in the message moved from.
Moved(m) == IF m.heap THEN [m EXCEPT !.body = 0, !.heap = FALSE] ELSE m

Init ==
  /\ slots = [i \in Indexes |-> Pill]
  /\ writePos = 0 /\ readPos = 0
  /\ pushPc = [t \in Pushers |-> "idle"]
  /\ pushW = [t \in Pushers |-> 0]
  /\ pushMsg = [t \in Pushers |-> Pill]
  /\ arrived = 0
  /\ stopped = FALSE
  /\ popPc = "idle" /\ popOut = Pill
  /\ mainPc = "running"
  /\ parsed = << >> /\ settled = 0 /\ retried = {}

-----------------------------------------------------------------------------
(* ShardQueue::Push, a loop around TryPush, as thread t runs it *)

PushLoadWrite(t) ==
  /\ pushPc[t] = "load"
  /\ pushW' = [pushW EXCEPT ![t] = writePos]
  /\ pushPc' = [pushPc EXCEPT ![t] = "check"]
  /\ UNCHANGED <<queueVars, pushMsg, arrived, stopped, popVars, mainPc, histories>>

PushHasRoom(t) ==
  /\ pushPc[t] = "check"
  /\ HasRoom(pushW[t], readPos)
  /\ pushPc' = [pushPc EXCEPT ![t] = "body"]
  /\ UNCHANGED <<queueVars, pushW, pushMsg, arrived, stopped, popVars, mainPc, histories>>

\* The message was moved into TryPush's parameter, which dies with the call;
\* the loop calls again with what the move has left.
PushFull(t) ==
  /\ pushPc[t] = "check"
  /\ ~HasRoom(pushW[t], readPos)
  /\ pushMsg' = [pushMsg EXCEPT ![t] = Moved(@)]
  /\ retried' = retried \cup {pushMsg[t].size}
  /\ pushPc' = [pushPc EXCEPT ![t] = "load"]
  /\ UNCHANGED <<queueVars, pushW, arrived, stopped, popVars, mainPc, parsed, settled>>

PushMoveBody(t) ==
  /\ pushPc[t] = "body"
  /\ slots' = [slots EXCEPT ![Slot(pushW[t])].body = pushMsg[t].body,
                            ![Slot(pushW[t])].heap = pushMsg[t].heap]
  /\ pushPc' = [pushPc EXCEPT ![t] = "size"]
  /\ UNCHANGED <<writePos, readPos, pushW, pushMsg, arrived, stopped, popVars, mainPc, histories>>

PushMoveSize(t) ==
  /\ pushPc[t] = "size"
  /\ slots' = [slots EXCEPT ![Slot(pushW[t])].size = pushMsg[t].size]
  /\ pushPc' = [pushPc EXCEPT ![t] = "publish"]
  /\ UNCHANGED <<writePos, readPos, pushW, pushMsg, arrived, stopped, popVars, mainPc, histories>>

PushPublish(t) ==
  /\ pushPc[t] = "publish"
  /\ writePos' = pushW[t] + 1
  /\ pushPc' = [pushPc EXCEPT ![t] = "idle"]
  /\ settled' = IF mainPc \in {"running", "stopping"} THEN pushMsg[t].size ELSE settled
  /\ UNCHANGED <<slots, readPos, pushW, pushMsg, arrived, stopped, popVars, mainPc, parsed, retried>>

Push(t) ==
  PushLoadWrite(t) \/ PushHasRoom(t) \/ PushFull(t)
    \/ PushMoveBody(t) \/ PushMoveSize(t) \/ PushPublish(t)

-----------------------------------------------------------------------------
(* The network thread: io_context::run() *)

\* A read completes and OnMessage builds a message, which is pushed.  Messages
\* that OnMessage turns away (empty, unknown event type) change nothing here.
NetworkReceive ==
  /\ ~stopped
  /\ pushPc["network"] = "idle"
  /\ arrived < MaxMessages
  /\ arrived' = arrived + 1
  /\ \E h \in BOOLEAN :
       pushMsg' = [pushMsg EXCEPT !["network"] = [size |-> arrived', body |-> arrived', heap |-> h]]
  /\ pushPc' = [pushPc EXCEPT !["network"] = "load"]
  /\ UNCHANGED <<queueVars, pushW, stopped, popVars, mainPc, histories>>

\* run() returns once the handler it is in, if any, is done.
NetworkExit ==
  /\ stopped
  /\ pushPc["network"] = "idle"
  /\ pushPc' = [pushPc EXCEPT !["network"] = "exited"]
  /\ UNCHANGED <<queueVars, pushW, pushMsg, arrived, stopped, popVars, mainPc, histories>>

-----------------------------------------------------------------------------
(* ShardParserWorker::Run: PopBlocking, then ParseAndDispatch *)

PopReady ==
  /\ popPc = "idle"
  /\ readPos < writePos
  /\ popPc' = "body"
  /\ UNCHANGED <<queueVars, pushVars, arrived, stopped, popOut, mainPc, histories>>

PopMoveBody ==
  /\ popPc = "body"
  /\ LET m == slots[Slot(readPos)]
     IN  /\ popOut' = [popOut EXCEPT !.body = m.body, !.heap = m.heap]
         /\ slots' = [slots EXCEPT ![Slot(readPos)] = Moved(m)]
  /\ popPc' = "size"
  /\ UNCHANGED <<writePos, readPos, pushVars, arrived, stopped, mainPc, histories>>

PopMoveSize ==
  /\ popPc = "size"
  /\ popOut' = [popOut EXCEPT !.size = slots[Slot(readPos)].size]
  /\ popPc' = "advance"
  /\ UNCHANGED <<queueVars, pushVars, arrived, stopped, mainPc, histories>>

PopAdvance ==
  /\ popPc = "advance"
  /\ readPos' = readPos + 1
  /\ popPc' = "handle"
  /\ UNCHANGED <<slots, writePos, pushVars, arrived, stopped, popOut, mainPc, histories>>

\* A poison pill ends Run; anything else is parsed and dispatched, and whatever
\* that throws is caught.
HandleEndsOnLost ==
  /\ popPc = "handle"
  /\ popPc' = IF popOut.body = 0 THEN "exited" ELSE "idle"
  /\ parsed' = IF popOut.body = 0 THEN parsed ELSE Append(parsed, popOut)
  /\ UNCHANGED <<queueVars, pushVars, arrived, stopped, popOut, mainPc, settled, retried>>

HandleSkipsPill ==
  /\ popPc = "handle" /\ popPc' = "idle"
  /\ parsed' = IF popOut.size = 0 THEN parsed ELSE Append(parsed, popOut)
  /\ UNCHANGED <<queueVars, pushVars, arrived, stopped, popOut, mainPc, settled, retried>>

Handle ==
  /\ popPc = "handle"
  /\ popPc' = IF popOut.size = 0 THEN "exited" ELSE "idle"
  /\ parsed' = IF popOut.size = 0 THEN parsed ELSE Append(parsed, popOut)
  /\ UNCHANGED <<queueVars, pushVars, arrived, stopped, popOut, mainPc, settled, retried>>

Parser == PopReady \/ PopMoveBody \/ PopMoveSize \/ PopAdvance \/ Handle

-----------------------------------------------------------------------------
(* The main thread, from the end of WaitForShutdown on *)

\* StopNetwork: io_ctx->stop() returns without waiting for the network thread.
StopNetwork ==
  /\ mainPc = "running"
  /\ stopped' = TRUE
  /\ mainPc' = "stopping"
  /\ UNCHANGED <<queueVars, pushVars, arrived, popVars, histories>>

\* DrainQueues: Push(RawMessage{}) on this thread.
DrainQueues ==
  /\ mainPc = "stopping"
  /\ pushMsg' = [pushMsg EXCEPT !["main"] = Pill]
  /\ pushPc' = [pushPc EXCEPT !["main"] = "load"]
  /\ mainPc' = "draining"
  /\ UNCHANGED <<queueVars, pushW, arrived, stopped, popVars, histories>>

\* Shutdown: the network thread is joined, then the parser.
JoinNetwork ==
  /\ mainPc = "draining" /\ pushPc["main"] = "idle"
  /\ pushPc["network"] = "exited"
  /\ mainPc' = "joined"
  /\ UNCHANGED <<queueVars, pushVars, arrived, stopped, popVars, histories>>

JoinParser ==
  /\ mainPc = "joined"
  /\ popPc = "exited"
  /\ mainPc' = "done"
  /\ UNCHANGED <<queueVars, pushVars, arrived, stopped, popVars, histories>>

Main == StopNetwork \/ DrainQueues \/ JoinNetwork \/ JoinParser

-----------------------------------------------------------------------------
Next ==
  \/ \E t \in Pushers : Push(t)
  \/ NetworkReceive \/ NetworkExit
  \/ Parser
  \/ Main

Spec == Init /\ [][Next]_vars

\* Every thread runs when it can.  Messages need not arrive, and nobody need
\* ever ask for the shutdown.
FairSpec ==
  /\ Spec
  /\ \A t \in Pushers : WF_vars(Push(t))
  /\ WF_vars(NetworkExit)
  /\ WF_vars(Parser)
  /\ WF_vars(DrainQueues \/ JoinNetwork \/ JoinParser)

-----------------------------------------------------------------------------
(* Properties *)

\* Types of the state.
TypeOK ==
  /\ slots \in [Indexes -> Messages]
  /\ writePos \in Nat /\ readPos \in Nat
  /\ pushPc \in [Pushers -> {"idle", "load", "check", "body", "size", "publish", "exited"}]
  /\ pushW \in [Pushers -> Nat]
  /\ pushMsg \in [Pushers -> Messages]
  /\ arrived \in Ids /\ stopped \in BOOLEAN
  /\ popPc \in {"idle", "body", "size", "advance", "handle", "exited"}
  /\ popOut \in Messages
  /\ mainPc \in {"running", "stopping", "draining", "joined", "done"}
  /\ parsed \in Seq([size : Ids \ {0}, body : Ids, heap : BOOLEAN])
  /\ settled \in Ids /\ retried \subseteq Ids

\* Messages reach the parse function in the order in which they arrived and at
\* most once each, even when the pill and the last message race for a slot; and
\* one pushed before DrainQueues with its own body, unless its body was on the
\* heap and Push found the queue full: then the retry has pushed the moved-from
\* message.
ParsedAsReceived ==
  /\ TypeOK
  /\ \A i, j \in 1..Len(parsed) : i < j => parsed[i].size < parsed[j].size
  /\ \A i \in 1..Len(parsed) :
       LET m == parsed[i]
       IN  m.size <= settled => m.body = m.size \/ (m.body = 0 /\ m.size \in retried)

\* Every message whose Push had returned before DrainQueues began is eventually
\* parsed: the pill cannot overtake or overwrite it, and the parser does not leave
\* Run before.
SettledIsParsed ==
  \A n \in 1..MaxMessages :
    (settled >= n) ~> (\E i \in 1..Len(parsed) : parsed[i].size = n)

\* DrainQueues and Shutdown come to an end, the parser having taken the pill, if
\* the network thread was not inside Push when DrainQueues began.  If it was, the
\* two may write the same slot, the pill is lost, and the parser is joined for ever.
QuietShutdownCompletes ==
  (mainPc = "draining" /\ pushPc["main"] = "load" /\ pushPc["network"] \in {"idle", "exited"})
    ~> (mainPc = "done")
=============================================================================
