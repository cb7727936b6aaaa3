---------------------------- MODULE ReceiveAsync ----------------------------
(***************************************************************************)
(* Subscribtion::receive / async_nats_subscribtion_receive_async: each     *)
(* receive spawns a task that runs one `pop` and calls the completion      *)
(* handler with the message, or with a null Message at the end.            *)
(*                                                                         *)
(* The C++ class is not thread safe: the client starts a receive, and      *)
(* destroys the Subscribtion, only when no task has it.                    *)
(***************************************************************************)
EXTENDS Subscribtion

CONSTANT MaxReceives  \* bound: calls of receive

ASSUME ReceiveAssumption == MaxReceives \in Nat

VARIABLES
  receives,   \* calls of receive so far
  delivered   \* history: arguments of the completion handlers, in order

vars == <<subVars, receives, delivered>>

Init == SubInit /\ receives = 0 /\ delivered = <<>>

(* On a runtime that is gone the future is dropped by spawn.               *)
Receive ==
  /\ box = "held" /\ pop = "idle" /\ receives < MaxReceives
  /\ receives' = receives + 1
  /\ pop' = IF runtime THEN "next" ELSE "lost"
  /\ UNCHANGED <<linkVars, buffer, closed, signal, tokens, box, result,
                 cancelled, delivered>>

(* cb.0(msg or null, cb.1), the last thing the task does.                  *)
Callback ==
  /\ pop = "ret"
  /\ delivered' = Append(delivered, result)
  /\ pop' = "idle"
  /\ UNCHANGED <<linkVars, buffer, closed, signal, tokens, box, result,
                 cancelled, receives>>

(* No task uses the Subscribtion: no receive was started, or its handler   *)
(* has been called, or the task was dropped or panicked.                   *)
Delete ==
  /\ pop \in {"idle", "lost", "panicked"}
  /\ DeleteCall
  /\ UNCHANGED <<receives, delivered>>

Task == PopStep \/ DeleteUnsubscribe \/ DeleteDrop

(* ~TokioRuntime: every task is dropped where it awaits: `pop` asleep or   *)
(* sending its command, the deleting task, the connection handler.         *)
RuntimeDrop ==
  /\ runtime /\ pop \notin {"sd", "ret"}
  /\ runtime' = FALSE
  /\ handler' = FALSE /\ registered' = FALSE /\ unsubs' = 0
  /\ pop' = IF pop \in {"next", "unsub"} THEN "lost" ELSE pop
  /\ IF box \in {"deleting", "dropping"}
     THEN box' = "gone" /\ closed' = TRUE /\ buffer' = <<>>
     ELSE UNCHANGED <<box, closed, buffer>>
  /\ UNCHANGED <<signal, tokens, result, sent, queued, cancelled, receives,
                 delivered>>

Next ==
  \/ Receive \/ Callback \/ Delete \/ RuntimeDrop
  \/ /\ LinkStep \/ TokenNext \/ GetToken \/ Task
     /\ UNCHANGED <<receives, delivered>>

(* Tasks that can run do run (multi-thread runtime), and the handler takes *)
(* its commands.  The server, the client and failures owe nothing.         *)
Fairness ==
  /\ WF_vars(Task /\ UNCHANGED <<receives, delivered>>)
  /\ WF_vars(Callback)
  /\ WF_vars(HandlerUnsubscribe /\ UNCHANGED <<receives, delivered>>)

Spec     == Init /\ [][Next]_vars
FairSpec == Spec /\ Fairness

-----------------------------------------------------------------------------
TypeOK ==
  /\ SubTypeOK
  /\ receives \in 0..MaxReceives
  /\ delivered \in Seq(1..MaxMsgs \cup {Null})

MsgAt  == {i \in DOMAIN delivered : delivered[i] # Null}
NullAt == {i \in DOMAIN delivered : delivered[i] = Null}
InHand == IF pop = "ret" /\ result # Null THEN <<result>> ELSE <<>>

(* A null Message is the end: it comes only after a cancel or the end of   *)
(* the connection, when the buffer is drained, and no message follows it   *)
(* (subscribtion.hpp: messages left in the channel are not discarded).     *)
NullIsTheEnd ==
  \A i \in DOMAIN delivered : delivered[i] = Null =>
    /\ cancelled \/ ~handler
    /\ \A j \in i..Len(delivered) : delivered[j] = Null
    /\ box = "held" => buffer = <<>>

(* ReceiveAsync implements the stream: completions with a message are its  *)
(* deliveries (together a sequence: no null comes between them), the first *)
(* null its end, and the destructor (once its task has dropped the         *)
(* Subscriber) is what discards.                                           *)
Stream == INSTANCE MessageStream WITH
  Messages <- 1..MaxMsgs,
  pending  <- InHand \o buffer,
  out      <- [i \in MsgAt |-> delivered[i]],
  over     <- NullAt # {},
  gone     <- box = "gone"

ImplementsStream == Stream!Spec

(* Only a cancel or the destructor makes the client unsubscribe: dropping  *)
(* tokens, in any number and order, never does.  And the one way to lose a *)
(* completion while the runtime lives, the expect in `pop`, takes a cancel *)
(* and a connection handler that ended before the unsubscribe.             *)
UnsubscribeIsAsked ==
  /\ closed \/ unsubs > 0 => cancelled \/ box # "held"
  /\ pop = "panicked" => cancelled /\ ~handler

(* A cancel ends a pending receive, wherever `pop` is when it comes.       *)
CancelEndsReceive ==
  cancelled /\ pop \in {"next", "sd", "unsub"}
    ~> pop \notin {"next", "sd", "unsub"}

(* Destroying the Subscribtion removes it from the connection.             *)
DeleteUnregisters == box # "held" ~> ~registered

(* subscribtion.hpp:14 "When cancel() methos is called the client closes   *)
(* subscribtion asynchronously in the TokioRuntime thread".                *)
CancelCloses == cancelled ~> ~registered
=============================================================================
