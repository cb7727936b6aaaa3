---------------------------- MODULE NamedSender ----------------------------
(***************************************************************************)
(* nonblocking::Sender / AsyncNatsNamedSender: C++ threads push messages   *)
(* into an unbounded channel; one Tokio task (the pump) publishes them.    *)
(* A semaphore of `capacity` permits bounds what try_send may have         *)
(* outstanding; send goes on without a permit when there is none.          *)
(*                                                                         *)
(* A call is two steps, because other threads and the pump run between     *)
(* them: try_acquire_owned, then UnboundedSender::send.  The permit lives  *)
(* in the message and is given back when the message is dropped: after     *)
(* its publish, or when the channel or the pump's future is dropped.       *)
(*                                                                         *)
(* The permits are told apart (Permits) although the semaphore only counts *)
(* them; the payload is the pair (thread, number of the call).             *)
(***************************************************************************)
EXTENDS Naturals, Sequences, FiniteSets

CONSTANTS
  Threads,       \* C++ threads; each owns at most one Sender object
  Permits,       \* the `capacity` permits of NamedSenderInner::sem
  NoPermit,      \* Message::_permit is None
  Topics,        \* topics a caller passes
  NoTopic,       \* a null topic pointer
  DefaultTopic,  \* NamedSenderInner::topic
  NoCall,        \* the thread is not inside try_send or send
  NoMsg,         \* the pump holds no message
  MaxCalls       \* bound: calls of try_send and send by one thread

ASSUME SenderAssumption ==
  /\ NoPermit \notin Permits
  /\ IsFiniteSet(Permits)
  /\ NoTopic \notin Topics
  /\ DefaultTopic # NoTopic
  /\ MaxCalls \in Nat

(* What a caller asks to publish, and the Message the channel carries.     *)
Ids      == [from : Threads, n : 1..MaxCalls,
             topic : Topics \cup {NoTopic, DefaultTopic}]
Messages == [id : Ids, permit : Permits \cup {NoPermit}]
Calls    == [id : Ids, permit : Permits \cup {NoPermit}, try : BOOLEAN]

ASSUME NoneAssumption == NoCall \notin Calls /\ NoMsg \notin Messages

VARIABLES
  handles,   \* threads that own a live AsyncNatsNamedSender box
  calls,     \* number of calls each thread has begun
  call,      \* the call each thread is inside, past the semaphore
  free,      \* permits in the semaphore
  queue,     \* the unbounded channel
  pump,      \* the spawned task: where it is, or why it is not there
  inflight,  \* the message the pump is publishing
  conn,      \* the client takes commands (publish succeeds)
  runtime,   \* the TokioRuntime exists
  wire,      \* history: publications, in order
  accepted,  \* history: messages the channel took, in order
  promised   \* history: messages for which try_send returned true

vars == <<handles, calls, call, free, queue, pump, inflight, conn, runtime,
          wire, accepted, promised>>

-----------------------------------------------------------------------------
(* Mutant: the task captures only the receiver, no Arc of its own.         *)
SenderAliveNoOwnArc == handles # {}

(* Arc<NamedSenderInner> holds the UnboundedSender, and the task's own     *)
(* inner_clone is one of the Arcs: the channel has a sender as long as a   *)
(* handle or the task exists.                                              *)
SenderAlive == handles # {} \/ pump \in {"recv", "publish"}

(* The receiving half belongs to the task's future.                        *)
RxOpen == pump \in {"recv", "publish"}

Id(t, topic) == [from |-> t, n |-> calls[t] + 1, topic |-> topic]

(* msg.topic.unwrap_or_else(|| inner_clone.topic.clone())                  *)
Named(id) == [id EXCEPT !.topic = IF @ = NoTopic THEN DefaultTopic ELSE @]

(* Permits that dropping the messages of s gives back.                     *)
PermitsIn(s) == {s[i].permit : i \in DOMAIN s} \ {NoPermit}

(* Mutant: OwnedSemaphorePermit::forget instead of a drop.                 *)
PermitOfForgotten(m) == {}

PermitOf(m)  == {m.permit} \ {NoPermit}
PumpPermit   == IF inflight = NoMsg THEN {} ELSE PermitOf(inflight)

-----------------------------------------------------------------------------
Init ==
  /\ handles = {}
  /\ calls = [t \in Threads |-> 0]
  /\ call = [t \in Threads |-> NoCall]
  /\ free = Permits
  /\ queue = <<>>
  /\ pump = "none"
  /\ inflight = NoMsg
  /\ conn = TRUE
  /\ runtime = TRUE
  /\ wire = <<>>
  /\ accepted = <<>>
  /\ promised = {}

(* Sender's constructor: with_capacity builds the inner state and spawns   *)
(* the pump.  On a runtime that is gone the future is dropped at once.     *)
New(t) ==
  /\ pump = "none"
  /\ handles' = {t}
  /\ pump' = IF runtime THEN "recv" ELSE "gone"
  /\ UNCHANGED <<calls, call, free, queue, inflight, conn, runtime, wire,
                 accepted, promised>>

(* Copy constructor: thread u gets a box of its own around the same Arc.   *)
Clone(t, u) ==
  /\ t \in handles /\ u \notin handles
  /\ handles' = handles \cup {u}
  /\ UNCHANGED <<calls, call, free, queue, pump, inflight, conn, runtime,
                 wire, accepted, promised>>

(* Mutant: the last Sender takes the queued messages down with it.         *)
DeleteDiscards(t) ==
  /\ t \in handles /\ call[t] = NoCall
  /\ handles' = handles \ {t}
  /\ queue' = IF handles = {t} THEN <<>> ELSE queue
  /\ UNCHANGED <<calls, call, free, pump, inflight, conn, runtime, wire,
                 accepted, promised>>

(* Destructor: drops one Arc; the messages already queued stay queued.     *)
Delete(t) ==
  /\ t \in handles /\ call[t] = NoCall
  /\ handles' = handles \ {t}
  /\ UNCHANGED <<calls, call, free, queue, pump, inflight, conn, runtime,
                 wire, accepted, promised>>

MayCall(t) == t \in handles /\ call[t] = NoCall /\ calls[t] < MaxCalls

(* Mutant: available_permits() is looked at but no permit is acquired.     *)
BeginNoAcquire(t, topic, p, try) ==
  /\ call' = [call EXCEPT ![t] =
                [id |-> Id(t, topic), permit |-> p, try |-> try]]
  /\ calls' = [calls EXCEPT ![t] = @ + 1]
  /\ UNCHANGED <<handles, free, queue, pump, inflight, conn, runtime, wire,
                 accepted, promised>>

(* The first half of a call that goes on: it leaves with permit p.         *)
Begin(t, topic, p, try) ==
  /\ call' = [call EXCEPT ![t] =
                [id |-> Id(t, topic), permit |-> p, try |-> try]]
  /\ free' = free \ {p}
  /\ calls' = [calls EXCEPT ![t] = @ + 1]
  /\ UNCHANGED <<handles, queue, pump, inflight, conn, runtime, wire,
                 accepted, promised>>

(* try_send: without a permit it returns false and nothing else happens.   *)
TrySend(t, topic) ==
  /\ MayCall(t)
  /\ \E p \in free : Begin(t, topic, p, TRUE)

TrySendFull(t) ==
  /\ MayCall(t)
  /\ free = {}
  /\ calls' = [calls EXCEPT ![t] = @ + 1]
  /\ UNCHANGED <<handles, call, free, queue, pump, inflight, conn, runtime,
                 wire, accepted, promised>>

(* send: takes a permit when there is one, goes on without otherwise.      *)
Send(t, topic) ==
  /\ MayCall(t)
  /\ \E p \in (IF free = {} THEN {NoPermit} ELSE free) :
       Begin(t, topic, p, FALSE)

(* sender.inner.sender.send(message).ok(), then return true from try_send. *)
(* A closed channel hands the message back and .ok() drops it, permit      *)
(* included.                                                               *)
Enqueue(t) ==
  /\ call[t] # NoCall
  /\ IF RxOpen
     THEN /\ queue' = Append(queue, [id |-> call[t].id,
                                     permit |-> call[t].permit])
          /\ accepted' = Append(accepted, call[t].id)
          /\ UNCHANGED free
     ELSE /\ free' = free \cup PermitOf(call[t])
          /\ UNCHANGED <<queue, accepted>>
  /\ promised' = promised \cup (IF call[t].try THEN {call[t].id} ELSE {})
  /\ call' = [call EXCEPT ![t] = NoCall]
  /\ UNCHANGED <<handles, calls, pump, inflight, conn, runtime, wire>>

-----------------------------------------------------------------------------
(* Mutant: the newest message first.                                       *)
PumpRecvNewest ==
  /\ pump = "recv" /\ queue # <<>>
  /\ inflight' = queue[Len(queue)]
  /\ queue' = SubSeq(queue, 1, Len(queue) - 1)
  /\ pump' = "publish"
  /\ UNCHANGED <<handles, calls, call, free, conn, runtime, wire, accepted,
                 promised>>

(* rx.recv().await: the next message, or None (and break) once the channel *)
(* is empty and has no sender.                                             *)
PumpRecv ==
  /\ pump = "recv"
  /\ IF queue # <<>>
     THEN /\ inflight' = Head(queue)
          /\ queue' = Tail(queue)
          /\ pump' = "publish"
     ELSE /\ ~SenderAlive
          /\ pump' = "ended"
          /\ UNCHANGED <<inflight, queue>>
  /\ UNCHANGED <<handles, calls, call, free, conn, runtime, wire, accepted,
                 promised>>

(* Mutant: the message outlives the loop body, a retry publishes it again. *)
PumpPublishAgain ==
  /\ pump = "publish" /\ conn
  /\ wire' = Append(wire, Named(inflight.id))
  /\ pump' = "recv"
  /\ UNCHANGED <<handles, calls, call, free, queue, inflight, conn, runtime,
                 accepted, promised>>

(* publish(..).await succeeded; msg, and with it the permit, is dropped at *)
(* the end of the loop body.                                               *)
PumpPublish ==
  /\ pump = "publish" /\ conn
  /\ wire' = Append(wire, Named(inflight.id))
  /\ free' = free \cup PermitOf(inflight)
  /\ inflight' = NoMsg
  /\ pump' = "recv"
  /\ UNCHANGED <<handles, calls, call, queue, conn, runtime, accepted,
                 promised>>

(* The task's future is dropped: receiver, queued messages, message in     *)
(* flight and all their permits go with it.                                *)
DropPump ==
  /\ pump' = "gone"
  /\ free' = free \cup PermitsIn(queue) \cup PumpPermit
  /\ queue' = <<>>
  /\ inflight' = NoMsg

(* publish(..).await failed: expect(..) panics and the task unwinds (with  *)
(* the release profile the process aborts and nothing follows).            *)
PumpPanic ==
  /\ pump = "publish" /\ ~conn
  /\ DropPump
  /\ UNCHANGED <<handles, calls, call, conn, runtime, wire, accepted,
                 promised>>

(* ~TokioRuntime: every task of the runtime is dropped where it awaits,    *)
(* the connection's own task included.                                     *)
RuntimeDrop ==
  /\ runtime
  /\ runtime' = FALSE
  /\ conn' = FALSE
  /\ IF RxOpen THEN DropPump ELSE UNCHANGED <<pump, free, queue, inflight>>
  /\ UNCHANGED <<handles, calls, call, wire, accepted, promised>>

(* External: the client's connection task ends; publish fails from then on *)
ConnStop ==
  /\ conn
  /\ conn' = FALSE
  /\ UNCHANGED <<handles, calls, call, free, queue, pump, inflight, runtime,
                 wire, accepted, promised>>

-----------------------------------------------------------------------------
ThreadStep(t) ==
  \/ New(t)
  \/ \E u \in Threads : Clone(t, u)
  \/ Delete(t)
  \/ \E topic \in Topics \cup {NoTopic} : TrySend(t, topic) \/ Send(t, topic)
  \/ TrySendFull(t)
  \/ Enqueue(t)

PumpStep == PumpRecv \/ PumpPublish \/ PumpPanic

Next ==
  \/ \E t \in Threads : ThreadStep(t)
  \/ PumpStep
  \/ RuntimeDrop
  \/ ConnStop

(* The pump is a woken Tokio task on a multi-thread runtime, and its       *)
(* publish returns; a thread inside a call runs straight to its end.       *)
(* Nothing makes a thread call, copy or destroy.                           *)
Fairness ==
  /\ WF_vars(PumpStep)
  /\ \A t \in Threads : WF_vars(Enqueue(t))

Spec     == Init /\ [][Next]_vars
FairSpec == Spec /\ Fairness

-----------------------------------------------------------------------------
TypeOK ==
  /\ handles \subseteq Threads
  /\ calls \in [Threads -> 0..MaxCalls]
  /\ call \in [Threads -> Calls \cup {NoCall}]
  /\ free \subseteq Permits
  /\ queue \in Seq(Messages)
  /\ pump \in {"none", "recv", "publish", "ended", "gone"}
  /\ inflight \in Messages \cup {NoMsg}
  /\ (pump = "publish") = (inflight # NoMsg)
  /\ conn \in BOOLEAN /\ runtime \in BOOLEAN
  /\ wire \in Seq(Ids) /\ accepted \in Seq(Ids)
  /\ promised \subseteq Ids

(* The messages that hold a permit, wherever they are.                     *)
HoldingCalls == {t \in Threads : call[t] # NoCall /\ call[t].permit # NoPermit}
HoldingQueue == {i \in DOMAIN queue : queue[i].permit # NoPermit}
Outstanding  == Cardinality(HoldingCalls) + Cardinality(HoldingQueue)
                  + Cardinality(PumpPermit)

(* Every permit is somewhere: in the semaphore, in a call, in a queued     *)
(* message or in the pump's message.                                       *)
PermitsKept ==
  \A p \in Permits :
    \/ p \in free
    \/ \E t \in Threads : call[t] # NoCall /\ call[t].permit = p
    \/ \E i \in DOMAIN queue : queue[i].permit = p
    \/ inflight # NoMsg /\ inflight.permit = p

(* ... and in one place only.                                              *)
PermitsExclusive ==
  /\ \A t \in Threads : call[t] # NoCall /\ call[t].permit # NoPermit =>
       /\ call[t].permit \notin free
       /\ \A u \in Threads :
            u # t /\ call[u] # NoCall => call[u].permit # call[t].permit
       /\ \A i \in DOMAIN queue : queue[i].permit # call[t].permit
       /\ inflight # NoMsg => inflight.permit # call[t].permit
  /\ \A i \in DOMAIN queue : queue[i].permit # NoPermit =>
       /\ queue[i].permit \notin free
       /\ \A j \in DOMAIN queue : j # i => queue[j].permit # queue[i].permit
       /\ inflight # NoMsg => inflight.permit # queue[i].permit
  /\ inflight # NoMsg => inflight.permit \notin free

(* Conservation of permits: no path of try_send, send, publish, panic or   *)
(* shutdown loses a permit or gives one back twice.                        *)
PermitLedger == PermitsKept /\ PermitsExclusive

(* Capacity: the messages of the channel, the pump and the calls under way *)
(* that hold a permit are never more than the semaphore's capacity, under  *)
(* any interleaving of callers, pump, panic and runtime shutdown (sender.  *)
(* hpp: try_send pushes "if there is space available").                    *)
CapacityRespected == Outstanding <= Cardinality(Permits)

(* No spurious refusal: when try_send returns false, exactly `capacity`    *)
(* accepted messages are still unpublished; no permit has leaked on any    *)
(* path (publish, failed send, panic, shutdown).                           *)
RefusalMeansFull ==
  [][\A t \in Threads :
       calls'[t] # calls[t] /\ call'[t] = call[t]
         => Outstanding = Cardinality(Permits)]_vars

(* What the channel accepted and the pump has not published yet.           *)
InPump  == IF inflight = NoMsg THEN 0 ELSE 1
Pending == [i \in 1..(InPump + Len(queue)) |->
              IF i = InPump THEN inflight.id ELSE queue[i - InPump].id]

(* FIFO, nothing lost, nothing twice: the publications are the accepted    *)
(* messages in the order of acceptance, each under its own topic or the    *)
(* Sender's; as long as the pump lives the rest are pending, in order.     *)
FifoIntegrity ==
  /\ Len(wire) <= Len(accepted)
  /\ \A i \in DOMAIN wire : wire[i] = Named(accepted[i])
  /\ RxOpen => /\ Len(accepted) = Len(wire) + Len(Pending)
               /\ \A i \in DOMAIN Pending :
                    Pending[i] = accepted[Len(wire) + i]

(* Messages one thread sends reach the wire in the order it sent them,     *)
(* whatever mix of try_send and send it used (send does not overtake).     *)
PerThreadOrder ==
  \A i, j \in DOMAIN wire :
    i < j /\ wire[i].from = wire[j].from => wire[i].n < wire[j].n

(* The pump's `break` is unreachable: its own Arc keeps the channel open,  *)
(* so the task and its Connection outlive every Sender (named_sender.rs).  *)
PumpNeverEnds == pump # "ended"

(* A permit comes back: with every permit taken, one is free again later,  *)
(* also when the pump panics or the runtime goes away.                     *)
PermitsReturn == Permits # {} => (free = {} ~> free # {})

(* A queued message is published, even when every Sender is destroyed      *)
(* right after the call, unless the pump itself is lost.                   *)
QueuedIsPublished ==
  \A t \in Threads, n \in 1..MaxCalls :
    (\E i \in DOMAIN accepted : accepted[i].from = t /\ accepted[i].n = n)
      ~> \/ \E i \in DOMAIN wire : wire[i].from = t /\ wire[i].n = n
         \/ ~RxOpen

(* sender.hpp:97 "true if message has been enqueued": a message try_send   *)
(* promised was taken by the channel.                                      *)
TrueMeansEnqueued ==
  \A id \in promised : \E i \in DOMAIN accepted : accepted[i] = id
-----------------------------------------------------------------------------
(* Refinement mapping to the abstract queue.                               *)
QueueStatus == CASE pump = "none" -> "none"
                 [] RxOpen        -> "open"
                 [] OTHER         -> "closed"

SQ == INSTANCE SendQueue WITH
        Items   <- Ids,
        status  <- QueueStatus,
        pending <- [i \in DOMAIN Pending |-> Named(Pending[i])],
        sent    <- wire

(* The Sender with its semaphore, its calls in two steps, its pump, panic  *)
(* and shutdown behaves as one FIFO queue that may close once.             *)
ImplementsSendQueue == SQ!Spec
=============================================================================
