---------------------------- MODULE Subscribtion ----------------------------
(***************************************************************************)
(* subscribtion.rs: one subscription, its shutdown channel and its         *)
(* cancellation tokens, and the loop `pop` that takes the next message or  *)
(* notices a cancellation.  ReceiveAsync and NamedReceiver extend this     *)
(* module with the two ways the repository runs `pop`.                     *)
(*                                                                         *)
(* `pop` is cut where another thread can act: between the poll of the      *)
(* message stream and the poll of the shutdown channel, and at the await   *)
(* of unsubscribe.  A message is its number in the order the server sent   *)
(* them.                                                                   *)
(*                                                                         *)
(* External (async-nats, modelled as subscribtion.rs uses it): the         *)
(* connection handler with its map of subscriptions and its command        *)
(* channel, and the Subscriber's bounded buffer.                           *)
(***************************************************************************)
EXTENDS Naturals, Sequences

CONSTANTS
  MaxMsgs,    \* bound: messages the server sends to this subscription
  BufCap,     \* capacity of the Subscriber's buffer
  MaxTokens,  \* bound: cancellation tokens alive at a time
  Null        \* pop returns None

ASSUME SubAssumption ==
  /\ MaxMsgs \in Nat
  /\ BufCap \in Nat \ {0}
  /\ MaxTokens \in Nat
  /\ Null \notin Nat

VARIABLES
  runtime,     \* the TokioRuntime exists
  handler,     \* external: the client's connection handler is running
  registered,  \* external: the handler's map holds this subscription
  unsubs,      \* external: Unsubscribe commands the handler has not processed
  buffer,      \* external: the Subscriber's channel
  closed,      \* external: Receiver::close was called on it
  signal,      \* messages in the shutdown channel, mpsc::channel(1)
  tokens,      \* cancellation tokens alive
  box,         \* AsyncNatsSubscribtion: held, being deleted, or gone
  pop,         \* where the future of `pop` is
  result,      \* what `pop` returns
  sent,        \* messages the server has sent
  queued,      \* history: messages that entered the buffer, in order
  cancelled    \* history: cancel() was called on some token

linkVars == <<runtime, handler, registered, unsubs, sent, queued>>
subVars  == <<runtime, handler, registered, unsubs, buffer, closed, signal,
              tokens, box, pop, result, sent, queued, cancelled>>

SubInit ==
  /\ runtime = TRUE
  /\ handler = TRUE
  /\ registered = TRUE
  /\ unsubs = 0
  /\ buffer = <<>>
  /\ closed = FALSE
  /\ signal = 0
  /\ tokens = 0
  /\ box = "held"
  /\ pop = "idle"
  /\ result = Null
  /\ sent = 0
  /\ queued = <<>>
  /\ cancelled = FALSE

-----------------------------------------------------------------------------
(* External: the connection handler.                                       *)

(* A MSG from the server.  A full buffer loses it (slow consumer); a       *)
(* closed one makes the handler forget the subscription.                   *)
Dispatch ==
  /\ handler /\ registered /\ sent < MaxMsgs
  /\ sent' = sent + 1
  /\ \/ closed /\ registered' = FALSE /\ UNCHANGED <<buffer, queued>>
     \/ /\ ~closed /\ Len(buffer) < BufCap
        /\ buffer' = Append(buffer, sent + 1)
        /\ queued' = Append(queued, sent + 1)
        /\ UNCHANGED registered
     \/ /\ ~closed /\ Len(buffer) = BufCap
        /\ UNCHANGED <<registered, buffer, queued>>
  /\ UNCHANGED <<runtime, handler, unsubs, closed, signal, tokens, box, pop,
                 result, cancelled>>

HandlerUnsubscribe ==
  /\ handler /\ unsubs > 0
  /\ unsubs' = unsubs - 1
  /\ registered' = FALSE
  /\ UNCHANGED <<runtime, handler, buffer, closed, signal, tokens, box, pop,
                 result, sent, queued, cancelled>>

(* The handler's task ends; its map and its command channel go with it.    *)
HandlerStop ==
  /\ handler
  /\ handler' = FALSE
  /\ registered' = FALSE
  /\ unsubs' = 0
  /\ UNCHANGED <<runtime, buffer, closed, signal, tokens, box, pop, result,
                 sent, queued, cancelled>>

-----------------------------------------------------------------------------
(* Cancellation tokens.                                                    *)
TokenStep(n) ==
  /\ tokens' = n
  /\ UNCHANGED <<runtime, handler, registered, unsubs, buffer, closed,
                 signal, box, pop, result, sent, queued, cancelled>>

GetToken == box = "held" /\ tokens < MaxTokens /\ TokenStep(tokens + 1)

CloneToken == tokens \in 1..(MaxTokens - 1) /\ TokenStep(tokens + 1)

DeleteToken == tokens > 0 /\ TokenStep(tokens - 1)

(* try_send(()).ok(): a second cancel finds the channel full, a late one   *)
(* finds it closed, and both are ignored.                                  *)
Cancel ==
  /\ tokens > 0
  /\ signal' = IF box = "gone" THEN signal ELSE 1
  /\ cancelled' = TRUE
  /\ UNCHANGED <<runtime, handler, registered, unsubs, buffer, closed, tokens,
                 box, pop, result, sent, queued>>

-----------------------------------------------------------------------------
(* pop: loop { select_biased! { next, shutdown } }                         *)

(* sub.next() is ready: a message, or None at the end of the stream.       *)
NextReady == buffer # <<>> \/ closed \/ ~registered

(* Mutant: AsyncNatsSubscribtion does not keep its own sd_sender.          *)
SdSenderAliveTokensOnly == tokens > 0

(* The shutdown channel has a sender: the one inside AsyncNatsSubscribtion *)
(* or a token's.                                                           *)
SdSenderAlive == box # "gone" \/ tokens > 0

(* sd_receiver.recv() is ready; the pattern `_` takes None too.            *)
SdReady == signal > 0 \/ ~SdSenderAlive

(* Mutant: a closed stream ends before it is drained.                      *)
PopNextClosedFirst ==
  /\ pop = "next"
  /\ \/ /\ NextReady
        /\ pop' = "ret"
        /\ result' = IF closed \/ buffer = <<>> THEN Null ELSE Head(buffer)
        /\ buffer' = IF closed \/ buffer = <<>> THEN buffer ELSE Tail(buffer)
     \/ ~NextReady /\ pop' = "sd" /\ UNCHANGED <<result, buffer>>
  /\ UNCHANGED <<linkVars, closed, signal, tokens, box, cancelled>>

(* The first arm is polled first and wins when both are ready.             *)
PopNext ==
  /\ pop = "next"
  /\ \/ /\ NextReady
        /\ pop' = "ret"
        /\ result' = IF buffer = <<>> THEN Null ELSE Head(buffer)
        /\ buffer' = IF buffer = <<>> THEN <<>> ELSE Tail(buffer)
     \/ /\ ~NextReady
        /\ pop' = "sd"
        /\ UNCHANGED <<result, buffer>>
  /\ UNCHANGED <<linkVars, closed, signal, tokens, box, cancelled>>

(* Mutant: the signal is taken and the loop goes on.                       *)
PopShutdownForgets ==
  /\ pop = "sd"
  /\ pop' = "next" /\ signal' = 0
  /\ UNCHANGED <<linkVars, buffer, closed, tokens, box, result, cancelled>>

(* The second arm; when it is not ready either the task sleeps until one   *)
(* of the two wakes it and the macro polls from the top.                   *)
PopShutdown ==
  /\ pop = "sd"
  /\ \/ SdReady /\ pop' = "unsub" /\ signal' = 0
     \/ ~SdReady /\ pop' = "next" /\ UNCHANGED signal
  /\ UNCHANGED <<linkVars, buffer, closed, tokens, box, result, cancelled>>

(* Subscriber::unsubscribe: a command to the handler, then close; an error *)
(* when there is no handler to take the command.                           *)
Unsubscribe ==
  /\ handler
  /\ unsubs' = unsubs + 1
  /\ closed' = TRUE

(* Mutant: closes the buffer for reading as well.                          *)
PopUnsubscribeDiscards ==
  /\ pop = "unsub"
  /\ Unsubscribe
  /\ pop' = "next" /\ buffer' = <<>>
  /\ UNCHANGED <<runtime, handler, registered, signal, tokens, box, result,
                 sent, queued, cancelled>>

(* unsubscribe().await.expect(..): back to the loop, or a panic that       *)
(* unwinds the task (with the release profile, the process).               *)
PopUnsubscribe ==
  /\ pop = "unsub"
  /\ \/ Unsubscribe /\ pop' = "next"
     \/ ~handler /\ pop' = "panicked" /\ UNCHANGED <<unsubs, closed>>
  /\ UNCHANGED <<runtime, handler, registered, buffer, signal, tokens, box,
                 result, sent, queued, cancelled>>

PopStep == PopNext \/ PopShutdown \/ PopUnsubscribe

-----------------------------------------------------------------------------
(* Dropping the Subscriber closes and empties its channel and sends an     *)
(* Unsubscribe of its own.                                                 *)
DropSubscriber ==
  /\ closed' = TRUE
  /\ buffer' = <<>>
  /\ unsubs' = IF handler THEN unsubs + 1 ELSE unsubs
  /\ box' = "gone"

(* Mutant: the box is given up without being dropped.                      *)
DeleteCallForgets ==
  /\ box = "held" /\ runtime
  /\ box' = "gone"
  /\ UNCHANGED <<linkVars, buffer, closed, signal, tokens, pop, result,
                 cancelled>>

(* async_nats_subscribtion_delete spawns a task that owns the box; on a    *)
(* runtime that is gone spawn drops the task, and the box with it.         *)
DeleteCall ==
  /\ box = "held"
  /\ \/ runtime /\ box' = "deleting" /\ UNCHANGED <<unsubs, buffer, closed>>
     \/ ~runtime /\ DropSubscriber
  /\ UNCHANGED <<runtime, handler, registered, sent, queued, signal, tokens,
                 pop, result, cancelled>>

(* unsubscribe().await.ok()                                                *)
DeleteUnsubscribe ==
  /\ box = "deleting"
  /\ box' = "dropping"
  /\ \/ Unsubscribe
     \/ ~handler /\ UNCHANGED <<unsubs, closed>>
  /\ UNCHANGED <<runtime, handler, registered, buffer, signal, tokens, pop,
                 result, sent, queued, cancelled>>

DeleteDrop ==
  /\ box = "dropping"
  /\ DropSubscriber
  /\ UNCHANGED <<runtime, handler, registered, signal, tokens, pop, result,
                 sent, queued, cancelled>>

-----------------------------------------------------------------------------
(* What the runtime shares with every user of this module.                 *)
LinkStep  == Dispatch \/ HandlerUnsubscribe \/ HandlerStop
TokenNext == CloneToken \/ DeleteToken \/ Cancel

SubTypeOK ==
  /\ runtime \in BOOLEAN /\ handler \in BOOLEAN /\ registered \in BOOLEAN
  /\ unsubs \in Nat
  /\ buffer \in Seq(1..MaxMsgs) /\ Len(buffer) <= BufCap
  /\ closed \in BOOLEAN
  /\ signal \in 0..1
  /\ tokens \in 0..MaxTokens
  /\ box \in {"held", "deleting", "dropping", "gone"}
  /\ pop \in {"idle", "next", "sd", "unsub", "ret", "panicked", "lost"}
  /\ result \in 1..MaxMsgs \cup {Null}
  /\ sent \in 0..MaxMsgs
  /\ queued \in Seq(1..MaxMsgs)
  /\ cancelled \in BOOLEAN
=============================================================================
