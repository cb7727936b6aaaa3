--------------------------- MODULE NamedReceiver ---------------------------
(***************************************************************************)
(* nonblocking::Receiver / AsyncNatsNamedReceiver: a Tokio task (the pump) *)
(* owns the subscription, runs `pop` in a loop and pushes each message     *)
(* into a bounded channel with try_send; C++ threads take them out with    *)
(* receive (blocking) and try_receive.                                     *)
(*                                                                         *)
(* The pump is Subscribtion's `pop` started again after each push.  The    *)
(* tokens were taken from the Subscribtion before the Receiver swallowed   *)
(* it (release_raw).  With capacity 0 the channel is a rendezvous: a push  *)
(* succeeds only into the hands of a thread that is waiting.               *)
(***************************************************************************)
EXTENDS Subscribtion, FiniteSets

CONSTANTS
  Threads,     \* C++ threads; each owns at most one Receiver object
  Capacities,  \* capacities a Receiver is constructed with
  MaxNulls     \* bound: null results a thread asks for

ASSUME ReceiverAssumption == Capacities \subseteq Nat /\ MaxNulls \in Nat

VARIABLES
  receivers,  \* threads that own a live AsyncNatsNamedReceiver box
  waiting,    \* threads inside the blocking receive
  cap,        \* its capacity: bounded(capacity)
  chan,       \* the crossbeam channel
  nulls,      \* null results per thread
  ended,      \* history: some receive() returned null
  pushed,     \* history: messages try_send took, in order
  lost,       \* history: messages try_send refused, in order
  taken       \* history: <<thread, message>> in the order they were taken

recvVars == <<receivers, waiting, cap, chan, nulls, ended, pushed, lost, taken>>
vars     == <<subVars, recvVars>>

Init ==
  /\ SubInit
  /\ receivers = {} /\ waiting = {}
  /\ cap = 0 /\ chan = <<>>
  /\ nulls = [t \in Threads |-> 0]
  /\ ended = FALSE
  /\ pushed = <<>> /\ lost = <<>> /\ taken = <<>>

(* The pump owns the sending half, and its task is there.                  *)
PumpRuns == pop \in {"next", "sd", "unsub", "ret"}

-----------------------------------------------------------------------------
(* Receiver(Subscribtion&&): spawns the pump.  On a runtime that is gone   *)
(* spawn drops the future, and the sending half with it.                   *)
New(t, capacity) ==
  /\ box = "held" /\ pop = "idle"
  /\ receivers' = {t}
  /\ cap' = capacity
  /\ \/ runtime /\ pop' = "next" /\ UNCHANGED <<buffer, closed, unsubs, box>>
     \/ ~runtime /\ pop' = "lost" /\ DropSubscriber
  /\ UNCHANGED <<runtime, handler, registered, signal, tokens, result, sent,
                 queued, cancelled, waiting, chan, nulls, ended, pushed, lost,
                 taken>>

Clone(t, u) ==
  /\ t \in receivers /\ u \notin receivers
  /\ receivers' = receivers \cup {u}
  /\ UNCHANGED <<subVars, waiting, cap, chan, nulls, ended, pushed, lost, taken>>

(* Mutant: the last destructor ends the pump as well.                      *)
DeleteEndsPump(t) ==
  /\ t \in receivers \ waiting
  /\ receivers' = receivers \ {t}
  /\ chan' = IF receivers = {t} THEN <<>> ELSE chan
  /\ pop' = IF receivers = {t} /\ PumpRuns THEN "lost" ELSE pop
  /\ UNCHANGED <<linkVars, buffer, closed, signal, tokens, box, result,
                 cancelled, waiting, cap, nulls, ended, pushed, lost, taken>>

(* Destructor.  The last receiver discards what is in the channel; the     *)
(* pump is not told.                                                       *)
Delete(t) ==
  /\ t \in receivers \ waiting
  /\ receivers' = receivers \ {t}
  /\ chan' = IF receivers = {t} THEN <<>> ELSE chan
  /\ UNCHANGED <<subVars, waiting, cap, nulls, ended, pushed, lost, taken>>

(* Mutant: the head of the channel is read before it is removed.           *)
TakePeek(t) ==
  /\ taken' = Append(taken, <<t, Head(chan)>>)
  /\ \E s \in {chan, Tail(chan)} : chan' = s
  /\ UNCHANGED <<receivers, nulls, ended, pushed, lost>>

Take(t) ==
  /\ taken' = Append(taken, <<t, Head(chan)>>)
  /\ chan' = Tail(chan)
  /\ UNCHANGED <<receivers, nulls, ended, pushed, lost>>

(* try_receive: null when nothing is there, whatever the reason.  In a     *)
(* rendezvous channel only a blocked sender could give it something.       *)
TryRecv(t) ==
  /\ t \in receivers \ waiting
  /\ \/ chan # <<>> /\ cap > 0 /\ Take(t)
     \/ /\ chan = <<>> \/ cap = 0
        /\ nulls[t] < MaxNulls
        /\ nulls' = [nulls EXCEPT ![t] = @ + 1]
        /\ UNCHANGED <<receivers, chan, ended, pushed, lost, taken>>
  /\ UNCHANGED <<subVars, waiting, cap>>

(* receive: the thread blocks ...                                          *)
RecvBegin(t) ==
  /\ t \in receivers \ waiting /\ nulls[t] < MaxNulls
  /\ waiting' = waiting \cup {t}
  /\ UNCHANGED <<subVars, receivers, cap, chan, nulls, ended, pushed, lost, taken>>

(* Mutant: the wait gives up although the pump is there.                   *)
RecvEndGivesUp(t) ==
  /\ t \in waiting
  /\ \/ chan # <<>> /\ Take(t)
     \/ /\ chan = <<>>
        /\ nulls' = [nulls EXCEPT ![t] = @ + 1]
        /\ ended' = TRUE
        /\ UNCHANGED <<receivers, chan, pushed, lost, taken>>
  /\ waiting' = waiting \ {t}
  /\ UNCHANGED <<subVars, cap>>

(* ... until there is a message, or the pump is gone and nothing is left.  *)
RecvEnd(t) ==
  /\ t \in waiting
  /\ \/ chan # <<>> /\ Take(t)
     \/ /\ chan = <<>> /\ ~PumpRuns
        /\ nulls' = [nulls EXCEPT ![t] = @ + 1]
        /\ ended' = TRUE
        /\ UNCHANGED <<receivers, chan, pushed, lost, taken>>
  /\ waiting' = waiting \ {t}
  /\ UNCHANGED <<subVars, cap>>

-----------------------------------------------------------------------------
(* Mutant: one message fewer than the capacity fits.                       *)
RoomOffByOne ==
  /\ receivers # {}
  /\ \/ Len(chan) + 1 < cap
     \/ cap = 0 /\ Len(chan) + 1 < Cardinality(waiting)

(* try_send succeeds: room in the buffer, or a thread that waits for it.   *)
Room ==
  /\ receivers # {}
  /\ \/ Len(chan) < cap
     \/ cap = 0 /\ Len(chan) < Cardinality(waiting)

(* tx.try_send(msg).ok(), and the loop goes on.                            *)
PumpPush ==
  /\ pop = "ret" /\ result # Null
  /\ \/ /\ Room
        /\ chan' = Append(chan, result)
        /\ pushed' = Append(pushed, result)
        /\ UNCHANGED lost
     \/ /\ ~Room
        /\ lost' = Append(lost, result)
        /\ UNCHANGED <<chan, pushed>>
  /\ pop' = "next"
  /\ UNCHANGED <<linkVars, buffer, closed, signal, tokens, box, result,
                 cancelled, receivers, waiting, cap, nulls, ended, taken>>

(* The task is over: tx and the subscription are dropped.                  *)
PumpDrop ==
  /\ pop' = "lost"
  /\ DropSubscriber
  /\ UNCHANGED <<runtime, handler, registered, signal, tokens, result, sent,
                 queued, cancelled, recvVars>>

(* Mutant: None does not end the loop.                                     *)
PumpReturnContinues ==
  /\ pop = "ret" /\ result = Null
  /\ pop' = "next"
  /\ UNCHANGED <<linkVars, buffer, closed, signal, tokens, box, result,
                 cancelled, recvVars>>

(* pop returned None: `return`.                                            *)
PumpReturn == pop = "ret" /\ result = Null /\ PumpDrop

(* pop panicked: the same drops, by unwinding.                             *)
PumpUnwind == pop = "panicked" /\ PumpDrop

PumpStep ==
  \/ PopStep /\ UNCHANGED recvVars
  \/ PumpPush
  \/ PumpReturn
  \/ PumpUnwind

RuntimeDrop ==
  /\ runtime /\ pop \notin {"sd", "ret", "panicked"}
  /\ runtime' = FALSE
  /\ handler' = FALSE /\ registered' = FALSE /\ unsubs' = 0
  /\ IF PumpRuns
     THEN pop' = "lost" /\ box' = "gone" /\ closed' = TRUE /\ buffer' = <<>>
     ELSE UNCHANGED <<pop, box, closed, buffer>>
  /\ UNCHANGED <<signal, tokens, result, sent, queued, cancelled, recvVars>>

-----------------------------------------------------------------------------
ThreadStep(t) ==
  \/ \E n \in Capacities : New(t, n)
  \/ \E u \in Threads : Clone(t, u)
  \/ Delete(t)
  \/ TryRecv(t)
  \/ RecvBegin(t)
  \/ RecvEnd(t)

Next ==
  \/ \E t \in Threads : ThreadStep(t)
  \/ PumpStep
  \/ (LinkStep \/ TokenNext) /\ UNCHANGED recvVars
  \/ pop = "idle" /\ GetToken /\ UNCHANGED recvVars
  \/ RuntimeDrop

(* The pump's task runs, the handler takes its commands, and a blocked     *)
(* thread that can go on does.                                             *)
Fairness ==
  /\ WF_vars(PumpStep)
  /\ WF_vars(HandlerUnsubscribe /\ UNCHANGED recvVars)
  /\ \A t \in Threads : WF_vars(RecvEnd(t))

Spec     == Init /\ [][Next]_vars
FairSpec == Spec /\ Fairness

-----------------------------------------------------------------------------
TypeOK ==
  /\ SubTypeOK
  /\ receivers \subseteq Threads /\ waiting \subseteq receivers
  /\ cap \in Capacities \cup {0}
  /\ chan \in Seq(1..MaxMsgs)
  /\ nulls \in [Threads -> 0..MaxNulls]
  /\ ended \in BOOLEAN
  /\ pushed \in Seq(1..MaxMsgs) /\ lost \in Seq(1..MaxMsgs)
  /\ taken \in Seq(Threads \X (1..MaxMsgs))

TakenMsgs == [i \in DOMAIN taken |-> taken[i][2]]

(* One message, one thread, in order: what the threads took, in the order  *)
(* they took it, followed by what is in the channel is what the pump       *)
(* pushed (receiver.hpp: only one thread is going to receive a message).   *)
EachTakenOnce == receivers # {} => pushed = TakenMsgs \o chan

(* The channel implements the same stream as Subscribtion::receive, for    *)
(* all threads together: a push is what goes in, the first null of a       *)
(* blocking receive is its end, the destructor of the last Receiver is     *)
(* what discards.                                                          *)
Stream == INSTANCE MessageStream WITH
  Messages <- 1..MaxMsgs,
  pending  <- chan,
  out      <- TakenMsgs,
  over     <- ended,
  gone     <- receivers = {} /\ pop # "idle"

ImplementsStream == Stream!Spec

(* The pump keeps the subscription though every Receiver is destroyed: it  *)
(* ends only after a cancel, the end of the connection or of the runtime.  *)
(* Until then the connection goes on delivering to nobody.                 *)
PumpOutlivesReceivers == pop \in {"panicked", "lost"} => cancelled \/ ~handler

(* What fits: `capacity` messages, or one per waiting thread when it is 0. *)
Limit == IF cap = 0 THEN Cardinality(waiting) ELSE cap

(* The pump drops a message only when that many pushed messages have not   *)
(* been taken yet, or when no Receiver is left.                            *)
LossMeansFull ==
  [][lost' # lost => \/ Len(pushed) - Len(taken) = Limit
                     \/ receivers = {}]_vars

(* Nobody waits for a pump that was cancelled or is gone: every thread     *)
(* blocked in receive wakes up.                                            *)
BlockedWakes ==
  \A t \in Threads :
    t \in waiting /\ (cancelled \/ ~PumpRuns) ~> t \notin waiting
=============================================================================
