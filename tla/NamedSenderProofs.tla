------------------------- MODULE NamedSenderProofs -------------------------
(***************************************************************************)
(* Proofs about NamedSender for any number of threads, any capacity and    *)
(* any number of calls.                                                    *)
(***************************************************************************)
EXTENDS NamedSender, FiniteSetTheorems, TLAPS

(* A message keeps its shape when the pump fills in the default topic.     *)
LEMMA NamedType ==
  ASSUME NEW id \in Ids
  PROVE  Named(id) \in Ids
BY DEF Ids, Named

(* The two halves of a call carry a well-formed Call.                      *)
LEMMA BeginType ==
  ASSUME TypeOK, NEW t \in Threads, NEW topic \in Topics \cup {NoTopic},
         NEW p \in Permits \cup {NoPermit}, NEW try \in BOOLEAN,
         MayCall(t), Begin(t, topic, p, try)
  PROVE  TypeOK'
<1>1. calls[t] + 1 \in 1..MaxCalls
  BY SenderAssumption DEF TypeOK, MayCall
<1>2. Id(t, topic) \in Ids
  BY <1>1 DEF Id, Ids
<1>3. [id |-> Id(t, topic), permit |-> p, try |-> try] \in Calls
  BY <1>2 DEF Calls
<1>4. call' \in [Threads -> Calls \cup {NoCall}]
  BY <1>3 DEF TypeOK, Begin
<1>5. calls' \in [Threads -> 0..MaxCalls]
  BY <1>1 DEF TypeOK, Begin
<1> QED
  BY <1>4, <1>5 DEF TypeOK, Begin

(* What dropping the pump's future does to the types of the state.         *)
LEMMA DropPumpType ==
  ASSUME TypeOK, DropPump
  PROVE  /\ pump' = "gone" /\ queue' \in Seq(Messages) /\ inflight' = NoMsg
         /\ free' \subseteq Permits
<1>1. \A i \in DOMAIN queue : queue[i].permit \in Permits \cup {NoPermit}
  <2>1. \A i \in DOMAIN queue : queue[i] \in Messages
    BY DEF TypeOK
  <2> QED
    BY <2>1 DEF Messages
<1>3. PermitsIn(queue) \subseteq Permits
  BY <1>1 DEF PermitsIn
<1>2. PumpPermit \subseteq Permits
  BY DEF TypeOK, PumpPermit, PermitOf, Messages
<1>4. <<>> \in Seq(Messages)
  OBVIOUS
<1> QED
  BY <1>2, <1>3, <1>4 DEF DropPump, TypeOK

(* Type correctness is inductive by itself.                                *)
LEMMA TypeStep ==
  ASSUME TypeOK, [Next]_vars
  PROVE  TypeOK'
<1> USE NoneAssumption
<1>1. ASSUME NEW t \in Threads, New(t) PROVE TypeOK'
  BY <1>1 DEF New, TypeOK
<1>2. ASSUME NEW t \in Threads, NEW u \in Threads, Clone(t, u) PROVE TypeOK'
  BY <1>2 DEF Clone, TypeOK
<1>3. ASSUME NEW t \in Threads, Delete(t) PROVE TypeOK'
  BY <1>3 DEF Delete, TypeOK
<1>4. ASSUME NEW t \in Threads, NEW topic \in Topics \cup {NoTopic},
             TrySend(t, topic)
      PROVE  TypeOK'
  <2>1. PICK p \in free : Begin(t, topic, p, TRUE)
    BY <1>4 DEF TrySend
  <2>2. p \in Permits \cup {NoPermit} /\ MayCall(t)
    BY <1>4 DEF TypeOK, TrySend
  <2> QED
    BY <2>1, <2>2, BeginType
<1>5. ASSUME NEW t \in Threads, NEW topic \in Topics \cup {NoTopic},
             Send(t, topic)
      PROVE  TypeOK'
  <2>1. PICK p \in (IF free = {} THEN {NoPermit} ELSE free) :
               Begin(t, topic, p, FALSE)
    BY <1>5 DEF Send
  <2>2. p \in Permits \cup {NoPermit} /\ MayCall(t)
    BY <1>5 DEF TypeOK, Send
  <2> QED
    BY <2>1, <2>2, BeginType
<1>6. ASSUME NEW t \in Threads, TrySendFull(t) PROVE TypeOK'
  BY <1>6, SenderAssumption DEF TrySendFull, MayCall, TypeOK
<1>7. ASSUME NEW t \in Threads, Enqueue(t) PROVE TypeOK'
  <2>1. call[t] \in Calls
    BY <1>7 DEF Enqueue, TypeOK
  <2>2. /\ call[t].id \in Ids
        /\ [id |-> call[t].id, permit |-> call[t].permit] \in Messages
        /\ PermitOf(call[t]) \subseteq Permits
    BY <2>1 DEF Calls, Messages, PermitOf
  <2>3. call' \in [Threads -> Calls \cup {NoCall}]
    BY <1>7 DEF Enqueue, TypeOK
  <2>4. queue' \in Seq(Messages) /\ accepted' \in Seq(Ids)
    <3>1. queue \in Seq(Messages) /\ accepted \in Seq(Ids)
      BY DEF TypeOK
    <3>2. CASE RxOpen
      <4>1. queue' = Append(queue, [id |-> call[t].id,
                                    permit |-> call[t].permit])
        BY <1>7, <3>2 DEF Enqueue
      <4>2. accepted' = Append(accepted, call[t].id)
        BY <1>7, <3>2 DEF Enqueue
      <4> QED
        BY <2>2, <3>1, <4>1, <4>2
    <3>3. CASE ~RxOpen
      BY <1>7, <3>1, <3>3 DEF Enqueue
    <3> QED
      BY <3>2, <3>3
  <2>5. free' \subseteq Permits /\ promised' \subseteq Ids
    BY <1>7, <2>2 DEF Enqueue, TypeOK
  <2> QED
    BY <1>7, <2>3, <2>4, <2>5 DEF Enqueue, TypeOK
<1>8. CASE PumpRecv
  <2>1. CASE queue = <<>>
    BY <1>8, <2>1 DEF PumpRecv, TypeOK
  <2>2. CASE queue # <<>>
    <3>1. queue \in Seq(Messages)
      BY DEF TypeOK
    <3>2. Head(queue) \in Messages /\ Tail(queue) \in Seq(Messages)
      BY <2>2, <3>1
    <3>3. inflight' \in Messages /\ queue' \in Seq(Messages)
          /\ pump' = "publish"
      BY <1>8, <2>2, <3>2 DEF PumpRecv
    <3> QED
      BY <1>8, <3>3 DEF PumpRecv, TypeOK
  <2> QED
    BY <2>1, <2>2
<1>9. CASE PumpPublish
  <2>1. inflight \in Messages
    BY <1>9 DEF PumpPublish, TypeOK
  <2>2. inflight.id \in Ids /\ PermitOf(inflight) \subseteq Permits
    BY <2>1 DEF Messages, PermitOf
  <2>3. wire' \in Seq(Ids)
    BY <1>9, <2>2, NamedType DEF PumpPublish, TypeOK
  <2> QED
    BY <1>9, <2>2, <2>3 DEF PumpPublish, TypeOK
<1>10. CASE PumpPanic
  BY <1>10, DropPumpType DEF PumpPanic, TypeOK
<1>11. CASE RuntimeDrop
  <2>1. CASE RxOpen
    BY <1>11, <2>1, DropPumpType DEF RuntimeDrop, TypeOK
  <2>2. CASE ~RxOpen
    BY <1>11, <2>2 DEF RuntimeDrop, TypeOK
  <2> QED
    BY <2>1, <2>2
<1>12. CASE ConnStop
  BY <1>12 DEF ConnStop, TypeOK
<1>13. CASE UNCHANGED vars
  BY <1>13 DEF vars, TypeOK
<1> QED
  BY <1>1, <1>2, <1>3, <1>4, <1>5, <1>6, <1>7, <1>8, <1>9, <1>10, <1>11,
     <1>12, <1>13 DEF Next, ThreadStep, PumpStep

(* Every variable keeps its type, for any threads, capacity and number of  *)
(* calls.                                                                  *)
THEOREM TypeCorrect == Spec => []TypeOK
<1>1. Init => TypeOK
  BY SenderAssumption DEF Init, TypeOK
<1> QED
  BY <1>1, TypeStep, PTL DEF Spec

-----------------------------------------------------------------------------
(* The pump's break is dead code: the task's own Arc is a sender, so       *)
(* recv never yields None while the task is there to see it.               *)
THEOREM PumpImmortal == Spec => []PumpNeverEnds
<1>1. Init => PumpNeverEnds
  BY DEF Init, PumpNeverEnds
<1>2. PumpNeverEnds /\ [Next]_vars => PumpNeverEnds'
  BY DEF PumpNeverEnds, Next, vars, ThreadStep, PumpStep, New, Clone, Delete,
         TrySend, Send, Begin, TrySendFull, Enqueue, PumpRecv, PumpPublish,
         PumpPanic, DropPump, RuntimeDrop, ConnStop, SenderAlive
<1> QED
  BY <1>1, <1>2, PTL DEF Spec

-----------------------------------------------------------------------------
(* The fields of the messages and calls that hold permits.                 *)
LEMMA Holders ==
  ASSUME TypeOK
  PROVE  /\ \A i \in DOMAIN queue : queue[i].permit \in Permits \cup {NoPermit}
         /\ inflight # NoMsg => inflight.permit \in Permits \cup {NoPermit}
         /\ \A t \in Threads : call[t] # NoCall =>
              call[t].permit \in Permits \cup {NoPermit}
<1>1. \A i \in DOMAIN queue : queue[i] \in Messages
  BY DEF TypeOK
<1>2. \A t \in Threads : call[t] # NoCall => call[t] \in Calls
  BY DEF TypeOK
<1>3. inflight # NoMsg => inflight \in Messages
  BY DEF TypeOK
<1> QED
  BY <1>1, <1>2, <1>3 DEF Messages, Calls

(* A call that takes permit p out of the semaphore (or goes on without)    *)
(* moves that permit into the call and no other.                           *)
LEMMA BeginLedger ==
  ASSUME TypeOK, PermitLedger, NEW t \in Threads, NEW topic, NEW p, NEW try,
         p \in free \/ p = NoPermit,
         call[t] = NoCall, Begin(t, topic, p, try),
         [id |-> Id(t, topic), permit |-> p, try |-> try] # NoCall
  PROVE  PermitLedger'
<1> USE SenderAssumption, NoneAssumption
<1>1. /\ call' = [call EXCEPT ![t] =
                    [id |-> Id(t, topic), permit |-> p, try |-> try]]
      /\ free' = free \ {p}
      /\ queue' = queue /\ inflight' = inflight
  BY DEF Begin
<1>2. PermitsKept'
  <2> SUFFICES ASSUME NEW q \in Permits
               PROVE  \/ q \in free'
                      \/ \E u \in Threads : call'[u] # NoCall /\ call'[u].permit = q
                      \/ \E i \in DOMAIN queue : queue[i].permit = q
                      \/ inflight # NoMsg /\ inflight.permit = q
    BY <1>1 DEF PermitsKept
  <2>1. call'[t] # NoCall /\ call'[t].permit = p
    BY <1>1 DEF TypeOK
  <2>2. \A u \in Threads : call[u] # NoCall => call'[u] = call[u]
    BY <1>1 DEF TypeOK
  <2> QED
    BY <1>1, <2>1, <2>2 DEF PermitLedger, PermitsKept
<1>3. PermitsExclusive'
  BY <1>1, Holders DEF PermitLedger, PermitsExclusive, TypeOK
<1> QED
  BY <1>2, <1>3 DEF PermitLedger

(* The message leaves the call: into the channel, or back to the caller    *)
(* who drops it.                                                           *)
LEMMA EnqueueLedger ==
  ASSUME TypeOK, PermitLedger, NEW t \in Threads, Enqueue(t)
  PROVE  PermitLedger'
<1> USE SenderAssumption, NoneAssumption
<1>0. call[t] # NoCall /\ inflight' = inflight
      /\ call' = [call EXCEPT ![t] = NoCall]
  BY DEF Enqueue
<1>1. CASE RxOpen
  <2> DEFINE m == [id |-> call[t].id, permit |-> call[t].permit]
  <2>1. queue' = Append(queue, m) /\ free' = free
    BY <1>1 DEF Enqueue
  <2>2. queue \in Seq(Messages)
    BY DEF TypeOK
  <2>3. /\ DOMAIN queue' = 1..(Len(queue) + 1)
        /\ DOMAIN queue = 1..Len(queue)
        /\ \A i \in DOMAIN queue : queue'[i] = queue[i]
        /\ queue'[Len(queue) + 1] = m
        /\ Len(queue) \in Nat
    BY <2>1, <2>2
  <2>4. m.permit = call[t].permit
    OBVIOUS
  <2> HIDE DEF m
  <2>5. PermitsKept'
    <3> SUFFICES ASSUME NEW q \in Permits
                 PROVE  \/ q \in free
                        \/ \E u \in Threads :
                             call'[u] # NoCall /\ call'[u].permit = q
                        \/ \E i \in DOMAIN queue' : queue'[i].permit = q
                        \/ inflight # NoMsg /\ inflight.permit = q
      BY <1>0, <2>1 DEF PermitsKept
    <3>1. \A u \in Threads : u # t => call'[u] = call[u]
      BY <1>0 DEF TypeOK
    <3>2. Len(queue) + 1 \in DOMAIN queue'
          /\ queue'[Len(queue) + 1].permit = call[t].permit
      BY <2>3, <2>4
    <3>3. \A i \in DOMAIN queue : i \in DOMAIN queue' /\ queue'[i] = queue[i]
      BY <2>3
    <3> QED
      BY <3>1, <3>2, <3>3 DEF PermitLedger, PermitsKept
  <2>6. \A u \in Threads : call'[u] # NoCall => u # t /\ call'[u] = call[u]
    BY <1>0 DEF TypeOK
  <2>7. \A i \in DOMAIN queue' :
          \/ i \in DOMAIN queue /\ queue'[i] = queue[i]
          \/ i = Len(queue) + 1 /\ i \notin DOMAIN queue
             /\ queue'[i].permit = call[t].permit
    BY <2>3, <2>4
  <2>8. PermitsExclusive'
    BY <1>0, <2>1, <2>6, <2>7 DEF PermitLedger, PermitsExclusive
  <2> QED
    BY <2>5, <2>8 DEF PermitLedger
<1>2. CASE ~RxOpen
  <2>1. queue' = queue /\ free' = free \cup PermitOf(call[t])
    BY <1>2 DEF Enqueue
  <2>2. PermitsKept'
    BY <1>0, <2>1 DEF PermitLedger, PermitsKept, TypeOK, PermitOf
  <2>3. PermitsExclusive'
    BY <1>0, <2>1 DEF PermitLedger, PermitsExclusive, TypeOK, PermitOf
  <2> QED
    BY <2>2, <2>3 DEF PermitLedger
<1> QED
  BY <1>1, <1>2

(* Dropping the pump's future returns every permit it and the channel held *)
LEMMA DropPumpLedger ==
  ASSUME TypeOK, PermitLedger, DropPump, UNCHANGED call
  PROVE  PermitLedger'
<1> USE SenderAssumption, NoneAssumption
<1>1. /\ free' = free \cup PermitsIn(queue) \cup PumpPermit
      /\ queue' = <<>> /\ inflight' = NoMsg /\ call' = call
  BY DEF DropPump
<1>2. DOMAIN queue' = {}
  BY <1>1
<1>3. \A p \in Permits : (\E i \in DOMAIN queue : queue[i].permit = p)
                           => p \in PermitsIn(queue)
  BY DEF PermitsIn
<1>4. \A p \in PermitsIn(queue) : \E i \in DOMAIN queue : queue[i].permit = p
  BY DEF PermitsIn
<1>5. PermitsKept'
  BY <1>1, <1>3 DEF PermitLedger, PermitsKept, PumpPermit, PermitOf
<1>6. PermitsExclusive'
  BY <1>1, <1>2, <1>4 DEF PermitLedger, PermitsExclusive, PumpPermit, PermitOf
<1> QED
  BY <1>5, <1>6 DEF PermitLedger

(* Every step of callers, pump, panic and shutdown keeps the ledger.       *)
LEMMA LedgerStep ==
  ASSUME TypeOK, PermitLedger, [Next]_vars
  PROVE  PermitLedger'
<1> USE SenderAssumption, NoneAssumption
<1>0. ASSUME UNCHANGED <<call, free, queue, inflight>> PROVE PermitLedger'
  BY <1>0 DEF PermitLedger, PermitsKept, PermitsExclusive
<1>1. ASSUME NEW t \in Threads, ThreadStep(t) PROVE PermitLedger'
  <2>1. CASE New(t) \/ Delete(t) \/ TrySendFull(t)
             \/ \E u \in Threads : Clone(t, u)
    BY <1>0, <2>1 DEF New, Delete, TrySendFull, Clone
  <2>2. ASSUME NEW topic \in Topics \cup {NoTopic},
               TrySend(t, topic) \/ Send(t, topic)
        PROVE  PermitLedger'
    <3>1. PICK p \in free \cup {NoPermit}, try \in BOOLEAN :
                 Begin(t, topic, p, try)
      BY <2>2 DEF TrySend, Send
    <3>2. MayCall(t) /\ call[t] = NoCall
      BY <2>2 DEF TrySend, Send, MayCall
    <3>3. Id(t, topic) \in Ids
      BY <3>2 DEF MayCall, TypeOK, Id, Ids
    <3>4. [id |-> Id(t, topic), permit |-> p, try |-> try] \in Calls
      BY <3>3 DEF Calls, TypeOK
    <3> QED
      BY <3>1, <3>2, <3>4, BeginLedger
  <2>3. CASE Enqueue(t)
    BY <2>3, EnqueueLedger
  <2> QED
    BY <1>1, <2>1, <2>2, <2>3 DEF ThreadStep
<1>2. CASE PumpRecv
  <2>1. CASE queue = <<>>
    BY <1>0, <1>2, <2>1 DEF PumpRecv
  <2>2. CASE queue # <<>>
    <3>1. /\ inflight' = Head(queue) /\ queue' = Tail(queue)
          /\ call' = call /\ free' = free /\ inflight = NoMsg
      BY <1>2, <2>2 DEF PumpRecv, TypeOK
    <3>2. queue \in Seq(Messages)
      BY DEF TypeOK
    <3>3. /\ DOMAIN queue = 1..Len(queue) /\ Len(queue) \in Nat \ {0}
          /\ inflight' = queue[1]
          /\ DOMAIN queue' = 1..(Len(queue) - 1)
          /\ \A i \in DOMAIN queue' : queue'[i] = queue[i + 1]
      BY <2>2, <3>1, <3>2
    <3>4. 1 \in DOMAIN queue /\ inflight' = queue[1] /\ inflight' # NoMsg
      BY <3>2, <3>3 DEF TypeOK
    <3>5. \A i \in DOMAIN queue : i = 1 \/ (i - 1 \in DOMAIN queue'
                                          /\ queue'[i - 1] = queue[i])
      BY <3>3
    <3>6. \A i \in DOMAIN queue' : i + 1 \in DOMAIN queue /\ i + 1 # 1
                                   /\ queue'[i] = queue[i + 1]
      BY <3>3
    <3>7. PermitsKept'
      <4> SUFFICES ASSUME NEW q \in Permits
                   PROVE  \/ q \in free
                          \/ \E u \in Threads :
                               call[u] # NoCall /\ call[u].permit = q
                          \/ \E i \in DOMAIN queue' : queue'[i].permit = q
                          \/ inflight' # NoMsg /\ inflight'.permit = q
        BY <3>1 DEF PermitsKept
      <4>1. ASSUME NEW i \in DOMAIN queue, queue[i].permit = q
            PROVE  \/ \E j \in DOMAIN queue' : queue'[j].permit = q
                   \/ inflight' # NoMsg /\ inflight'.permit = q
        BY <3>4, <3>5, <4>1
      <4> QED
        BY <3>1, <4>1 DEF PermitLedger, PermitsKept
    <3>8. \A i, j \in DOMAIN queue' : i # j => i + 1 # j + 1
      BY <3>3
    <3>9. PermitsExclusive'
      <4>1. ASSUME NEW t \in Threads,
                   call[t] # NoCall, call[t].permit # NoPermit
            PROVE  /\ \A i \in DOMAIN queue' : queue'[i].permit # call[t].permit
                   /\ inflight'.permit # call[t].permit
        BY <3>4, <3>6, <4>1 DEF PermitLedger, PermitsExclusive
      <4>2. ASSUME NEW i \in DOMAIN queue', queue'[i].permit # NoPermit
            PROVE  /\ queue'[i].permit \notin free
                   /\ \A j \in DOMAIN queue' :
                        j # i => queue'[j].permit # queue'[i].permit
                   /\ inflight'.permit # queue'[i].permit
        BY <3>4, <3>6, <3>8, <4>2 DEF PermitLedger, PermitsExclusive
      <4>3. inflight'.permit \notin free
        BY <3>4 DEF PermitLedger, PermitsExclusive, TypeOK
      <4> QED
        BY <3>1, <4>1, <4>2, <4>3 DEF PermitLedger, PermitsExclusive
    <3> QED
      BY <3>7, <3>9 DEF PermitLedger
  <2> QED
    BY <2>1, <2>2
<1>3. CASE PumpPublish
  <2>1. /\ free' = free \cup PermitOf(inflight) /\ inflight' = NoMsg
        /\ queue' = queue /\ call' = call /\ inflight # NoMsg
    BY <1>3 DEF PumpPublish, TypeOK
  <2>2. PermitsKept'
    BY <2>1 DEF PermitLedger, PermitsKept, PermitOf
  <2>3. PermitsExclusive'
    BY <2>1 DEF PermitLedger, PermitsExclusive, PermitOf
  <2> QED
    BY <2>2, <2>3 DEF PermitLedger
<1>4. CASE PumpPanic
  BY <1>4, DropPumpLedger DEF PumpPanic
<1>5. CASE RuntimeDrop
  BY <1>0, <1>5, DropPumpLedger DEF RuntimeDrop
<1>6. CASE ConnStop
  BY <1>0, <1>6 DEF ConnStop
<1>7. CASE UNCHANGED vars
  BY <1>0, <1>7 DEF vars
<1> QED
  BY <1>1, <1>2, <1>3, <1>4, <1>5, <1>6, <1>7 DEF Next, PumpStep

(* No permit is lost and none is given back twice, on any path and under   *)
(* any interleaving of callers, pump, panic and shutdown.                  *)
THEOREM PermitsConserved == Spec => []PermitLedger
<1>1. Init => PermitLedger
  BY DEF Init, PermitLedger, PermitsKept, PermitsExclusive
<1> QED
  BY <1>1, TypeCorrect, LedgerStep, PTL DEF Spec

-----------------------------------------------------------------------------
(* FIFO.  FifoIntegrity is inductive once it is known that nothing was     *)
(* accepted or published before the pump exists.                           *)
FifoInv ==
  /\ FifoIntegrity
  /\ pump = "none" => accepted = <<>> /\ wire = <<>> /\ queue = <<>>

(* The messages ahead of and inside the channel, by position.              *)
LEMMA PendingShape ==
  ASSUME TypeOK
  PROVE  /\ InPump \in {0, 1} /\ Len(queue) \in Nat
         /\ DOMAIN Pending = 1..(InPump + Len(queue))
         /\ Pending \in Seq(Ids)
         /\ Len(Pending) = InPump + Len(queue)
         /\ inflight # NoMsg => InPump = 1 /\ Pending[1] = inflight.id
         /\ inflight = NoMsg => InPump = 0
         /\ \A i \in 1..Len(queue) : Pending[InPump + i] = queue[i].id
<1>1. InPump \in {0, 1} /\ (inflight = NoMsg => InPump = 0)
      /\ (inflight # NoMsg => InPump = 1)
  BY DEF InPump
<1>2. Len(queue) \in Nat /\ \A i \in 1..Len(queue) : queue[i] \in Messages
  BY DEF TypeOK
<1>3. \A i \in 1..Len(queue) : queue[i].id \in Ids
  BY <1>2 DEF Messages
<1>4. inflight # NoMsg => inflight.id \in Ids
  <2>1. inflight # NoMsg => inflight \in Messages
    BY DEF TypeOK
  <2> QED
    BY <2>1 DEF Messages
<1>5. ASSUME NEW i \in 1..(InPump + Len(queue))
      PROVE  (IF i = InPump THEN inflight.id ELSE queue[i - InPump].id) \in Ids
  <2>1. CASE i = InPump
    BY <1>1, <1>4, <2>1
  <2>2. CASE i # InPump
    <3>1. i - InPump \in 1..Len(queue)
      BY <1>1, <1>2, <2>2
    <3> QED
      BY <1>3, <2>2, <3>1
  <2> QED
    BY <2>1, <2>2
<1>6. Pending \in [1..(InPump + Len(queue)) -> Ids]
  BY <1>5 DEF Pending
<1>7. Pending \in Seq(Ids) /\ Len(Pending) = InPump + Len(queue)
  BY <1>1, <1>2, <1>6
<1>8. inflight # NoMsg => Pending[1] = inflight.id
  BY <1>1, <1>2 DEF Pending
<1>9. ASSUME NEW i \in 1..Len(queue)
      PROVE  Pending[InPump + i] = queue[i].id
  <2>1. /\ InPump + i \in 1..(InPump + Len(queue)) /\ InPump + i # InPump
        /\ (InPump + i) - InPump = i
    BY <1>1, <1>2
  <2> QED
    BY <2>1 DEF Pending
<1> QED
  BY <1>1, <1>2, <1>6, <1>7, <1>8, <1>9

(* How each kind of step changes what is pending.                          *)
LEMMA PendingSame ==
  ASSUME UNCHANGED <<queue, inflight>>
  PROVE  Pending' = Pending
BY DEF Pending, InPump

(* An accepted message joins the end of what is pending.                   *)
LEMMA PendingEnqueue ==
  ASSUME TypeOK, TypeOK', NEW t \in Threads, Enqueue(t), RxOpen
  PROVE  Pending' = Append(Pending, call[t].id)
<1> DEFINE m == [id |-> call[t].id, permit |-> call[t].permit]
<1>1. queue' = Append(queue, m) /\ inflight' = inflight /\ m.id = call[t].id
  BY DEF Enqueue
<1> HIDE DEF m
<1>2. queue \in Seq(Messages)
  BY DEF TypeOK
<1>3. /\ Len(queue') = Len(queue) + 1
      /\ \A i \in 1..Len(queue) : queue'[i] = queue[i]
      /\ queue'[Len(queue) + 1] = m
      /\ Len(queue) \in Nat
  BY <1>1, <1>2
<1>4. InPump' = InPump /\ InPump \in {0, 1}
  BY <1>1 DEF InPump
<1>5. Pending \in Seq(Ids) /\ Len(Pending) = InPump + Len(queue)
  BY PendingShape
<1> DEFINE n == InPump + Len(queue)
<1>6. Append(Pending, call[t].id)
        = [i \in 1..(n + 1) |-> IF i = n + 1 THEN call[t].id ELSE Pending[i]]
  BY <1>3, <1>4, <1>5
<1>7. Pending' = [i \in 1..(n + 1) |->
                    IF i = InPump THEN inflight.id ELSE queue'[i - InPump].id]
  BY <1>1, <1>3, <1>4 DEF Pending
<1>8. ASSUME NEW i \in 1..(n + 1)
      PROVE  (IF i = InPump THEN inflight.id ELSE queue'[i - InPump].id)
               = (IF i = n + 1 THEN call[t].id ELSE Pending[i])
  <2>1. CASE i = n + 1
    <3>1. i # InPump /\ i - InPump = Len(queue) + 1
      BY <1>3, <1>4, <2>1
    <3> QED
      BY <1>1, <1>3, <2>1, <3>1
  <2>2. CASE i # n + 1 /\ i = InPump
    <3>1. i \in 1..n
      BY <1>3, <1>4, <2>2
    <3> QED
      BY <2>2, <3>1 DEF Pending
  <2>3. CASE i # n + 1 /\ i # InPump
    <3>1. i \in 1..n /\ i - InPump \in 1..Len(queue)
      BY <1>3, <1>4, <2>3
    <3> QED
      BY <1>3, <2>3, <3>1 DEF Pending
  <2> QED
    BY <2>1, <2>2, <2>3
<1> HIDE DEF n
<1> QED
  BY <1>6, <1>7, <1>8

(* recv moves the head from the channel to the pump: nothing changes.      *)
LEMMA PendingRecv ==
  ASSUME TypeOK, TypeOK', PumpRecv
  PROVE  Pending' = Pending
<1>1. CASE queue = <<>>
  BY <1>1, PendingSame DEF PumpRecv
<1>2. CASE queue # <<>>
  <2>1. queue \in Seq(Messages) /\ inflight = NoMsg
    BY DEF PumpRecv, TypeOK
  <2>2. /\ Len(queue) \in Nat \ {0}
        /\ Len(Tail(queue)) = Len(queue) - 1
        /\ \A i \in 1..(Len(queue) - 1) : Tail(queue)[i] = queue[i + 1]
        /\ Head(queue) = queue[1]
        /\ Head(queue) \in Messages
    BY <1>2, <2>1
  <2>3. inflight' = queue[1] /\ queue' = Tail(queue) /\ inflight' # NoMsg
    BY <1>2, <2>2, NoneAssumption DEF PumpRecv
  <2>4. InPump = 0 /\ InPump' = 1
    BY <2>1, <2>3 DEF InPump
  <2>5. Pending' = [i \in 1..(1 + Len(queue')) |->
                      IF i = 1 THEN inflight'.id ELSE queue'[i - 1].id]
    BY <2>4 DEF Pending
  <2>6. Pending = [i \in 1..(0 + Len(queue)) |->
                      IF i = 0 THEN inflight.id ELSE queue[i - 0].id]
    BY <2>4 DEF Pending
  <2>7. 1 + Len(queue') = Len(queue) /\ 0 + Len(queue) = Len(queue)
    BY <2>2, <2>3
  <2>8. ASSUME NEW i \in 1..Len(queue)
        PROVE  (IF i = 1 THEN inflight'.id ELSE queue'[i - 1].id)
                 = (IF i = 0 THEN inflight.id ELSE queue[i - 0].id)
    <3>1. CASE i = 1
      BY <2>3, <3>1
    <3>2. CASE i # 1
      <4>1. i - 1 \in 1..(Len(queue) - 1) /\ i # 0 /\ i - 0 = i
            /\ (i - 1) + 1 = i
        BY <2>2, <3>2
      <4>2. queue'[i - 1] = queue[i]
        BY <2>2, <2>3, <4>1
      <4> QED
        BY <3>2, <4>1, <4>2
    <3> QED
      BY <3>1, <3>2
  <2> QED
    BY <2>5, <2>6, <2>7, <2>8
<1> QED
  BY <1>1, <1>2

(* The elements of a tail, by position.                                    *)
LEMMA TailShape ==
  ASSUME NEW S, NEW s \in Seq(S), s # <<>>
  PROVE  Tail(s) = [i \in 1..(Len(s) - 1) |-> s[i + 1]]
<1>1. /\ Tail(s) \in Seq(S) /\ Len(Tail(s)) = Len(s) - 1
      /\ \A i \in 1..(Len(s) - 1) : Tail(s)[i] = s[i + 1]
  OBVIOUS
<1>2. Len(s) - 1 \in Nat
  OBVIOUS
<1> DEFINE n == Len(s) - 1
           r == Tail(s)
<1>3. r \in Seq(S) /\ Len(r) = n /\ n \in Nat
  BY <1>1, <1>2
<1> HIDE DEF n, r
<1>4. r = [i \in 1..n |-> r[i]]
  BY <1>3
<1> QED
  BY <1>1, <1>4 DEF n, r

(* Publishing takes the head of what is pending.                           *)
LEMMA PendingPublish ==
  ASSUME TypeOK, TypeOK', PumpPublish
  PROVE  /\ Pending # <<>> /\ Pending[1] = inflight.id
         /\ Pending' = Tail(Pending)
<1>1. inflight # NoMsg /\ inflight' = NoMsg /\ queue' = queue
  BY DEF PumpPublish, TypeOK
<1>2. InPump = 1 /\ InPump' = 0
  BY <1>1 DEF InPump
<1>3. /\ Len(queue) \in Nat /\ Pending \in Seq(Ids)
      /\ Len(Pending) = 1 + Len(queue) /\ Pending[1] = inflight.id
      /\ \A i \in 1..Len(queue) : Pending[1 + i] = queue[i].id
  BY <1>1, <1>2, PendingShape
<1>4. /\ Pending' \in Seq(Ids) /\ Len(Pending') = Len(queue)
      /\ \A i \in 1..Len(queue) : Pending'[i] = queue[i].id
  <2>1. Pending' = [i \in 1..(0 + Len(queue)) |->
                      IF i = 0 THEN inflight'.id ELSE queue[i - 0].id]
    BY <1>1, <1>2 DEF Pending
  <2>2. /\ 0 + Len(queue) = Len(queue)
        /\ \A i \in 1..Len(queue) : i # 0 /\ i - 0 = i
    BY <1>3
  <2>3. \A i \in 1..Len(queue) : Pending'[i] = queue[i].id
    BY <2>1, <2>2
  <2>4. \A i \in 1..Len(queue) : Pending'[i] \in Ids
    <3>1. \A i \in 1..Len(queue) : 1 + i \in 1..Len(Pending)
      BY <1>3
    <3> QED
      BY <1>3, <2>3, <3>1
  <2>5. Pending' \in [1..Len(queue) -> Ids]
    BY <2>1, <2>2, <2>3, <2>4
  <2> QED
    BY <1>3, <2>3, <2>5
<1>5. Tail(Pending) = [i \in 1..Len(queue) |-> Pending[i + 1]]
  <2>1. Len(Pending) - 1 = Len(queue) /\ Pending # <<>>
    BY <1>3
  <2> QED
    BY <1>3, <2>1, TailShape
<1>6. \A i \in 1..Len(queue) : Pending[i + 1] = Pending'[i]
  <2>1. \A i \in 1..Len(queue) : i + 1 = 1 + i
    BY <1>3
  <2> QED
    BY <1>3, <1>4, <2>1
<1>7. Pending' = [i \in 1..Len(queue) |-> Pending'[i]]
  BY <1>4
<1>8. Pending' = Tail(Pending)
  BY <1>5, <1>6, <1>7
<1> QED
  BY <1>3, <1>8

(* Once the pump is gone nothing is pending.                               *)
LEMMA PendingDropped ==
  ASSUME TypeOK, TypeOK', DropPump
  PROVE  Pending' = <<>>
<1>1. InPump' = 0 /\ Len(queue') = 0
  BY DEF DropPump, InPump
<1>2. 1..(InPump' + Len(queue')) = {}
  BY <1>1
<1>3. Pending' = [i \in {} |->
                    IF i = InPump' THEN inflight'.id ELSE queue'[i - InPump'].id]
  BY <1>2 DEF Pending
<1> QED
  BY <1>3

-----------------------------------------------------------------------------
(* Every step of callers, pump, panic and shutdown keeps FifoInv.          *)
LEMMA FifoStep ==
  ASSUME TypeOK, TypeOK', FifoInv, [Next]_vars
  PROVE  FifoInv'
<1>1. /\ wire \in Seq(Ids) /\ accepted \in Seq(Ids)
      /\ Len(wire) \in Nat /\ Len(accepted) \in Nat
      /\ DOMAIN wire = 1..Len(wire)
      /\ Pending \in Seq(Ids) /\ Len(Pending) \in Nat
      /\ DOMAIN Pending = 1..Len(Pending)
  BY PendingShape DEF TypeOK
<1>2. ASSUME UNCHANGED <<wire, accepted>>, Pending' = Pending,
             UNCHANGED queue \/ pump' # "none", RxOpen' => RxOpen,
             pump' = "none" => pump = "none"
      PROVE  FifoInv'
  BY <1>2 DEF FifoInv, FifoIntegrity, Named
<1>3. ASSUME UNCHANGED <<wire, accepted, queue, pump, inflight>>
      PROVE  FifoInv'
  BY <1>2, <1>3, PendingSame DEF RxOpen
<1>4. ASSUME NEW t \in Threads, New(t) PROVE FifoInv'
  <2>1. accepted' = <<>> /\ wire' = <<>> /\ pump' # "none"
    BY <1>4 DEF New, FifoInv
  <2>2. Pending' = Pending /\ Len(Pending) = 0
    BY <1>4, PendingSame, PendingShape DEF New, FifoInv, TypeOK
  <2> QED
    BY <1>1, <2>1, <2>2 DEF FifoInv, FifoIntegrity
<1>5. ASSUME NEW t \in Threads, Enqueue(t) PROVE FifoInv'
  <2>1. CASE RxOpen
    <3>1. /\ accepted' = Append(accepted, call[t].id) /\ wire' = wire
          /\ Pending' = Append(Pending, call[t].id)
          /\ pump' # "none"
      BY <1>5, <2>1, PendingEnqueue DEF Enqueue, RxOpen
    <3>2. call[t].id \in Ids
      <4>1. call[t] \in Calls
        BY <1>5 DEF Enqueue, TypeOK
      <4> QED
        BY <4>1 DEF Calls
    <3>3. /\ Len(accepted) = Len(wire) + Len(Pending)
          /\ \A i \in 1..Len(Pending) : Pending[i] = accepted[Len(wire) + i]
          /\ \A i \in 1..Len(wire) : wire[i] = Named(accepted[i])
      BY <1>1, <2>1 DEF FifoInv, FifoIntegrity
    <3>4. /\ Len(accepted') = Len(accepted) + 1
          /\ \A i \in 1..Len(accepted) : accepted'[i] = accepted[i]
          /\ accepted'[Len(accepted) + 1] = call[t].id
      BY <1>1, <3>1, <3>2
    <3>5. /\ Len(Pending') = Len(Pending) + 1
          /\ DOMAIN Pending' = 1..(Len(Pending) + 1)
          /\ \A i \in 1..Len(Pending) : Pending'[i] = Pending[i]
          /\ Pending'[Len(Pending) + 1] = call[t].id
      BY <1>1, <3>1, <3>2
    <3>6. Len(wire') <= Len(accepted')
      BY <1>1, <3>1, <3>3, <3>4
    <3>7. \A i \in DOMAIN wire' : wire'[i] = Named(accepted'[i])
      BY <1>1, <3>1, <3>3, <3>4 DEF Named
    <3>8. ASSUME NEW i \in DOMAIN Pending'
          PROVE  Pending'[i] = accepted'[Len(wire') + i]
      <4>1. CASE i = Len(Pending) + 1
        <5>1. Len(wire') + i = Len(accepted) + 1
          BY <1>1, <3>1, <3>3, <4>1
        <5> QED
          BY <3>4, <3>5, <4>1, <5>1
      <4>2. CASE i \in 1..Len(Pending)
        <5>1. Len(wire') + i \in 1..Len(accepted)
          BY <1>1, <3>1, <3>3, <4>2
        <5> QED
          BY <3>1, <3>3, <3>4, <3>5, <4>2, <5>1
      <4> QED
        BY <1>1, <3>5, <4>1, <4>2
    <3>9. Len(accepted') = Len(wire') + Len(Pending')
      BY <1>1, <3>1, <3>3, <3>4, <3>5
    <3> QED
      BY <3>1, <3>6, <3>7, <3>8, <3>9 DEF FifoInv, FifoIntegrity, Named
  <2>2. CASE ~RxOpen
    BY <1>3, <1>5, <2>2 DEF Enqueue
  <2> QED
    BY <2>1, <2>2
<1>6. CASE PumpRecv
  BY <1>2, <1>6, PendingRecv DEF PumpRecv, RxOpen
<1>7. CASE PumpPublish
  <2>1. /\ wire' = Append(wire, Named(inflight.id)) /\ accepted' = accepted
        /\ pump' # "none" /\ RxOpen
    BY <1>7 DEF PumpPublish, RxOpen
  <2>2. Pending # <<>> /\ Pending[1] = inflight.id /\ Pending' = Tail(Pending)
    BY <1>7, PendingPublish
  <2>3. /\ Len(Pending) > 0
        /\ Len(Pending') = Len(Pending) - 1
        /\ DOMAIN Pending' = 1..(Len(Pending) - 1)
        /\ \A i \in 1..(Len(Pending) - 1) : Pending'[i] = Pending[i + 1]
    BY <1>1, <2>2
  <2>4. /\ Len(accepted) = Len(wire) + Len(Pending)
        /\ \A i \in 1..Len(Pending) : Pending[i] = accepted[Len(wire) + i]
        /\ \A i \in 1..Len(wire) : wire[i] = Named(accepted[i])
    BY <1>1, <2>1 DEF FifoInv, FifoIntegrity
  <2>5. accepted[Len(wire) + 1] = inflight.id
    BY <1>1, <2>2, <2>3, <2>4
  <2>6. /\ Len(wire') = Len(wire) + 1
        /\ DOMAIN wire' = 1..(Len(wire) + 1)
        /\ \A i \in 1..Len(wire) : wire'[i] = wire[i]
        /\ wire'[Len(wire) + 1] = Named(inflight.id)
    BY <1>1, <2>1
  <2>7. \A i \in DOMAIN wire' : wire'[i] = Named(accepted'[i])
    BY <1>1, <2>1, <2>4, <2>5, <2>6
  <2>8. Len(wire') <= Len(accepted') /\ Len(accepted') = Len(wire') + Len(Pending')
    BY <1>1, <2>1, <2>3, <2>4, <2>6
  <2>9. ASSUME NEW i \in 1..(Len(Pending) - 1)
        PROVE  Pending'[i] = accepted'[Len(wire') + i]
    <3>1. i + 1 \in 1..Len(Pending) /\ Len(wire) + (i + 1) = Len(wire') + i
      BY <1>1, <2>3, <2>6
    <3> QED
      BY <2>1, <2>3, <2>4, <3>1
  <2> QED
    BY <2>1, <2>3, <2>7, <2>8, <2>9 DEF FifoInv, FifoIntegrity, Named
<1>8. ASSUME DropPump, UNCHANGED <<wire, accepted>> PROVE FifoInv'
  BY <1>8 DEF DropPump, RxOpen, FifoInv, FifoIntegrity, Named
<1>9. CASE PumpPanic
  BY <1>8, <1>9 DEF PumpPanic
<1>10. CASE RuntimeDrop
  BY <1>3, <1>8, <1>10 DEF RuntimeDrop
<1>11. ASSUME NEW t \in Threads, ThreadStep(t) PROVE FifoInv'
  BY <1>3, <1>4, <1>5, <1>11 DEF ThreadStep, Clone, Delete, TrySend, Send,
     Begin, TrySendFull
<1>12. CASE ConnStop \/ UNCHANGED vars
  BY <1>3, <1>12 DEF ConnStop, vars
<1> QED
  BY <1>6, <1>7, <1>9, <1>10, <1>11, <1>12 DEF Next, PumpStep

(* Whatever the interleaving, the wire carries the accepted messages in    *)
(* order, none twice and none skipped, and while the pump lives the rest   *)
(* is still pending.                                                       *)
THEOREM Fifo == Spec => []FifoIntegrity
<1>1. Init /\ TypeOK => FifoInv
  <2>1. ASSUME Init, TypeOK PROVE FifoInv
    BY <2>1 DEF Init, FifoInv, FifoIntegrity, RxOpen
  <2> QED
    BY <2>1
<1>2. FifoInv => FifoIntegrity
  BY DEF FifoInv
<1> QED
  BY <1>1, <1>2, TypeCorrect, FifoStep, PTL DEF Spec

-----------------------------------------------------------------------------
(* Refinement.                                                             *)
Mapped == [i \in DOMAIN Pending |-> Named(Pending[i])]

(* The elements of an appended sequence, by position.                      *)
LEMMA AppendShape ==
  ASSUME NEW S, NEW s \in Seq(S), NEW e \in S
  PROVE  Append(s, e)
           = [i \in 1..(Len(s) + 1) |-> IF i = Len(s) + 1 THEN e ELSE s[i]]
<1> DEFINE n == Len(s) + 1
           r == Append(s, e)
<1>1. /\ r \in Seq(S) /\ Len(r) = n /\ n \in Nat /\ r[n] = e
      /\ \A i \in 1..n : i # n => r[i] = s[i]
  OBVIOUS
<1> HIDE DEF n, r
<1>2. r = [i \in 1..n |-> r[i]]
  BY <1>1
<1>3. [i \in 1..n |-> r[i]] = [i \in 1..n |-> IF i = n THEN e ELSE s[i]]
  BY <1>1
<1> QED
  BY <1>2, <1>3 DEF n, r

(* The mapped queue grows at its end when Pending does.                    *)
LEMMA MappedAppend ==
  ASSUME TypeOK, NEW id \in Ids, Pending' = Append(Pending, id)
  PROVE  Mapped' = Append(Mapped, Named(id))
<1>1. Pending \in Seq(Ids) /\ Len(Pending) \in Nat
      /\ DOMAIN Pending = 1..Len(Pending)
  BY PendingShape
<1>2. /\ DOMAIN Pending' = 1..(Len(Pending) + 1)
      /\ \A i \in 1..Len(Pending) : Pending'[i] = Pending[i]
      /\ Pending'[Len(Pending) + 1] = id
  BY <1>1
<1>3. /\ Mapped \in Seq(Ids) /\ Len(Mapped) = Len(Pending)
      /\ \A i \in 1..Len(Pending) : Mapped[i] = Named(Pending[i])
  <2>1. \A i \in 1..Len(Pending) : Named(Pending[i]) \in Ids
    BY <1>1, NamedType
  <2>2. Mapped \in [1..Len(Pending) -> Ids]
    BY <1>1, <2>1 DEF Mapped
  <2> QED
    BY <1>1, <2>2 DEF Mapped
<1>4. Append(Mapped, Named(id))
        = [i \in 1..(Len(Pending) + 1) |->
             IF i = Len(Pending) + 1 THEN Named(id) ELSE Mapped[i]]
  BY <1>1, <1>3, NamedType, AppendShape
<1>5. Mapped' = [i \in 1..(Len(Pending) + 1) |-> Named(Pending'[i])]
  BY <1>2 DEF Mapped, Named
<1>6. ASSUME NEW i \in 1..(Len(Pending) + 1)
      PROVE  Named(Pending'[i])
               = (IF i = Len(Pending) + 1 THEN Named(id) ELSE Mapped[i])
  <2>1. CASE i = Len(Pending) + 1
    BY <1>2, <2>1
  <2>2. CASE i \in 1..Len(Pending)
    BY <1>1, <1>2, <1>3, <2>2
  <2> QED
    BY <1>1, <2>1, <2>2
<1> QED
  BY <1>4, <1>5, <1>6

(* The mapped queue loses its head when Pending does.                      *)
LEMMA MappedTail ==
  ASSUME TypeOK, Pending # <<>>, Pending' = Tail(Pending)
  PROVE  /\ Mapped # <<>> /\ Head(Mapped) = Named(Pending[1])
         /\ Mapped' = Tail(Mapped)
<1>1. Pending \in Seq(Ids) /\ Len(Pending) \in Nat \ {0}
      /\ DOMAIN Pending = 1..Len(Pending)
  BY PendingShape
<1>2. /\ DOMAIN Pending' = 1..(Len(Pending) - 1)
      /\ \A i \in 1..(Len(Pending) - 1) : Pending'[i] = Pending[i + 1]
  BY <1>1
<1>3. /\ Mapped \in Seq(Ids) /\ Len(Mapped) = Len(Pending)
      /\ \A i \in 1..Len(Pending) : Mapped[i] = Named(Pending[i])
  <2>1. \A i \in 1..Len(Pending) : Named(Pending[i]) \in Ids
    BY <1>1, NamedType
  <2>2. Mapped \in [1..Len(Pending) -> Ids]
    BY <1>1, <2>1 DEF Mapped
  <2> QED
    BY <1>1, <2>2 DEF Mapped
<1>4. Mapped # <<>> /\ Head(Mapped) = Named(Pending[1])
  BY <1>1, <1>3
<1>5. Tail(Mapped) = [i \in 1..(Len(Mapped) - 1) |-> Mapped[i + 1]]
  BY <1>3, <1>4, TailShape
<1>6. Mapped' = [i \in 1..(Len(Pending) - 1) |-> Named(Pending'[i])]
  BY <1>2 DEF Mapped, Named
<1>7. \A i \in 1..(Len(Pending) - 1) : Named(Pending'[i]) = Mapped[i + 1]
  <2>1. \A i \in 1..(Len(Pending) - 1) : i + 1 \in 1..Len(Pending)
    BY <1>1
  <2> QED
    BY <1>2, <1>3, <2>1
<1>8. Mapped' = Tail(Mapped)
  BY <1>3, <1>5, <1>6, <1>7
<1> QED
  BY <1>4, <1>8

(* Every step of the Sender is a step of SendQueue or a stutter.           *)
LEMMA RefinementStep ==
  ASSUME TypeOK, TypeOK', FifoInv, PumpNeverEnds, [Next]_vars
  PROVE  [SQ!Next]_(SQ!vars)
<1> USE DEF SQ!vars, QueueStatus
<1>1. ASSUME UNCHANGED <<wire, pump>>, Pending' = Pending
      PROVE  UNCHANGED SQ!vars
  BY <1>1 DEF Mapped, RxOpen, Named
<1>2. ASSUME UNCHANGED <<wire, pump, queue, inflight>>
      PROVE  UNCHANGED SQ!vars
  BY <1>1, <1>2, PendingSame
<1>3. ASSUME NEW t \in Threads, New(t) PROVE SQ!Create
  <2>1. Pending' = Pending /\ wire' = wire
    BY <1>3, PendingSame DEF New
  <2>2. QueueStatus = "none" /\ QueueStatus' \in {"open", "closed"}
    BY <1>3 DEF New, RxOpen
  <2> QED
    BY <2>1, <2>2 DEF SQ!Create, Named
<1>4. ASSUME NEW t \in Threads, Enqueue(t), RxOpen
      PROVE  \E m \in Ids : SQ!Accept(m)
  <2>1. call[t].id \in Ids
    <3>1. call[t] \in Calls
      BY <1>4 DEF Enqueue, TypeOK
    <3> QED
      BY <3>1 DEF Calls
  <2>2. Mapped' = Append(Mapped, Named(call[t].id))
    BY <1>4, <2>1, PendingEnqueue, MappedAppend
  <2>3. QueueStatus = "open" /\ QueueStatus' = "open" /\ wire' = wire
    BY <1>4 DEF Enqueue, RxOpen
  <2>4. Named(call[t].id) \in Ids
    BY <2>1, NamedType
  <2>5. SQ!Accept(Named(call[t].id))
    BY <2>2, <2>3 DEF SQ!Accept, Mapped
  <2> QED
    BY <2>4, <2>5
<1>5. ASSUME NEW t \in Threads, Enqueue(t), ~RxOpen PROVE UNCHANGED SQ!vars
  BY <1>2, <1>5 DEF Enqueue
<1>6. ASSUME PumpRecv PROVE UNCHANGED SQ!vars
  <2>1. wire' = wire /\ Pending' = Pending
    BY <1>6, PendingRecv DEF PumpRecv
  <2>2. QueueStatus' = QueueStatus
    BY <1>6 DEF PumpRecv, RxOpen, SenderAlive
  <2> QED
    BY <2>1, <2>2 DEF Named
<1>7. ASSUME PumpPublish PROVE SQ!Publish
  <2>1. Pending # <<>> /\ Pending[1] = inflight.id /\ Pending' = Tail(Pending)
    BY <1>7, PendingPublish
  <2>2. /\ Mapped # <<>> /\ Head(Mapped) = Named(inflight.id)
        /\ Mapped' = Tail(Mapped)
    BY <2>1, MappedTail
  <2>3. /\ QueueStatus = "open" /\ QueueStatus' = "open"
        /\ wire' = Append(wire, Named(inflight.id))
    BY <1>7 DEF PumpPublish, RxOpen
  <2> QED
    BY <2>2, <2>3 DEF SQ!Publish, Mapped
<1>8. ASSUME DropPump, RxOpen, wire' = wire PROVE SQ!Close
  <2>1. Pending' = <<>>
    BY <1>8, PendingDropped
  <2>2. QueueStatus = "open" /\ QueueStatus' = "closed"
    BY <1>8 DEF DropPump, RxOpen
  <2>3. Mapped' = <<>>
    BY <2>1 DEF Mapped
  <2> QED
    BY <1>8, <2>2, <2>3 DEF SQ!Close, Mapped
<1>9. ASSUME PumpPanic PROVE SQ!Close
  BY <1>8, <1>9 DEF PumpPanic, RxOpen
<1>10. ASSUME RuntimeDrop PROVE SQ!Close \/ UNCHANGED SQ!vars
  BY <1>2, <1>8, <1>10 DEF RuntimeDrop
<1>11. ASSUME NEW t \in Threads, ThreadStep(t)
       PROVE  SQ!Next \/ UNCHANGED SQ!vars
  <2>1. CASE New(t) \/ Enqueue(t)
    BY <1>3, <1>4, <1>5, <2>1 DEF SQ!Next
  <2>2. CASE ~(New(t) \/ Enqueue(t))
    <3>1. UNCHANGED <<wire, pump, queue, inflight>>
      BY <1>11, <2>2 DEF ThreadStep, Clone, Delete, TrySend, Send, Begin,
         TrySendFull
    <3> QED
      BY <1>2, <3>1
  <2> QED
    BY <2>1, <2>2
<1>12. ASSUME ConnStop \/ UNCHANGED vars PROVE UNCHANGED SQ!vars
  BY <1>2, <1>12 DEF ConnStop, vars
<1> QED
  BY <1>6, <1>7, <1>9, <1>10, <1>11, <1>12 DEF Next, PumpStep, SQ!Next

(* The Sender, with its semaphore, calls in two steps, pump, panic and     *)
(* shutdown, implements one FIFO queue that may close once.                *)
THEOREM Refinement == Spec => ImplementsSendQueue
<1>1. Init => SQ!Init
  <2> SUFFICES ASSUME Init PROVE SQ!Init
    OBVIOUS
  <2>1. Pending = <<>>
    <3>1. 1..(InPump + Len(queue)) = {}
      BY DEF Init, InPump
    <3> QED
      BY <3>1 DEF Pending
  <2>2. Mapped = <<>>
    BY <2>1 DEF Mapped
  <2>3. QueueStatus = "none" /\ wire = <<>>
    BY DEF Init, QueueStatus, RxOpen
  <2> QED
    BY <2>2, <2>3 DEF SQ!Init, Mapped
<1>2. Init /\ TypeOK => FifoInv
  <2>1. ASSUME Init, TypeOK PROVE FifoInv
    BY <2>1 DEF Init, FifoInv, FifoIntegrity, RxOpen
  <2> QED
    BY <2>1
<1> QED
  BY <1>1, <1>2, TypeCorrect, PumpImmortal, FifoStep, RefinementStep, PTL
     DEF Spec, ImplementsSendQueue, SQ!Spec

-----------------------------------------------------------------------------
(* Counting.                                                               *)
CallPermits == {call[t].permit : t \in HoldingCalls}

(* An injective image of a finite set has the cardinality of the set.      *)
LEMMA CountImage ==
  ASSUME NEW S, NEW T, IsFiniteSet(T), NEW f \in [S -> T],
         \A x, y \in S : f[x] = f[y] => x = y,
         \A z \in T : \E x \in S : f[x] = z
  PROVE  IsFiniteSet(S) /\ Cardinality(S) = Cardinality(T)
<1>1. f \in Injection(S, T)
  BY DEF Injection, IsInjective
<1>2. f \in Surjection(S, T)
  BY DEF Surjection
<1> QED
  BY <1>1, <1>2, FS_Injection

(* The cardinality of a union of two disjoint finite sets.                 *)
LEMMA CountDisjoint ==
  ASSUME NEW S, NEW T, IsFiniteSet(S), IsFiniteSet(T), S \cap T = {}
  PROVE  /\ IsFiniteSet(S \cup T)
         /\ Cardinality(S \cup T) = Cardinality(S) + Cardinality(T)
<1>1. /\ IsFiniteSet(S \cup T)
      /\ Cardinality(S \cup T) = Cardinality(S) + Cardinality(T) - Cardinality({})
  BY FS_Union
<1>2. Cardinality({}) = 0 /\ Cardinality(S) \in Nat /\ Cardinality(T) \in Nat
  BY FS_EmptySet, FS_CardinalityType
<1> QED
  BY <1>1, <1>2

(* The messages that hold a permit are exactly as many as the permits the  *)
(* semaphore is short of.                                                  *)
LEMMA OutstandingCount ==
  ASSUME TypeOK, PermitLedger
  PROVE  /\ Outstanding + Cardinality(free) = Cardinality(Permits)
         /\ Outstanding \in Nat /\ Cardinality(free) \in Nat
<1> USE SenderAssumption, NoneAssumption
<1> DEFINE C == CallPermits
           Q == PermitsIn(queue)
           P == PumpPermit
<1>1. C \subseteq Permits /\ Q \subseteq Permits /\ P \subseteq Permits
      /\ free \subseteq Permits
  BY Holders DEF CallPermits, HoldingCalls, PermitsIn, PumpPermit, PermitOf,
     TypeOK
<1>2. IsFiniteSet(C) /\ IsFiniteSet(Q) /\ IsFiniteSet(P) /\ IsFiniteSet(free)
  BY <1>1, FS_Subset
<1>3. Cardinality(HoldingCalls) = Cardinality(C)
  <2> DEFINE f == [t \in HoldingCalls |-> call[t].permit]
  <2>1. f \in [HoldingCalls -> C] /\ \A z \in C : \E x \in HoldingCalls : f[x] = z
    BY DEF CallPermits
  <2>2. \A x, y \in HoldingCalls : f[x] = f[y] => x = y
    BY DEF HoldingCalls, PermitLedger, PermitsExclusive
  <2> HIDE DEF f, C
  <2> QED
    BY <1>2, <2>1, <2>2, CountImage
<1>4. Cardinality(HoldingQueue) = Cardinality(Q)
  <2> DEFINE f == [i \in HoldingQueue |-> queue[i].permit]
  <2>1. f \in [HoldingQueue -> Q] /\ \A z \in Q : \E x \in HoldingQueue : f[x] = z
    BY DEF HoldingQueue, PermitsIn
  <2>2. \A x, y \in HoldingQueue : f[x] = f[y] => x = y
    BY DEF HoldingQueue, PermitLedger, PermitsExclusive
  <2> HIDE DEF f, Q
  <2> QED
    BY <1>2, <2>1, <2>2, CountImage
<1>5. /\ C \cap Q = {} /\ (C \cup Q) \cap P = {}
      /\ (C \cup Q \cup P) \cap free = {}
  <2>1. \A p \in C : p \notin Q /\ p \notin P /\ p \notin free
    BY DEF CallPermits, HoldingCalls, PermitsIn, PumpPermit, PermitOf,
       PermitLedger, PermitsExclusive
  <2>2. \A p \in Q : p \notin P /\ p \notin free
    BY DEF PermitsIn, PumpPermit, PermitOf, PermitLedger, PermitsExclusive
  <2>3. \A p \in P : p \notin free
    BY DEF PumpPermit, PermitOf, PermitLedger, PermitsExclusive
  <2> QED
    BY <2>1, <2>2, <2>3
<1>6. Permits = C \cup Q \cup P \cup free
  <2>1. ASSUME NEW p \in Permits PROVE p \in C \cup Q \cup P \cup free
    BY DEF CallPermits, HoldingCalls, PermitsIn, PumpPermit, PermitOf,
       PermitLedger, PermitsKept
  <2> QED
    BY <1>1, <2>1
<1>7. /\ Cardinality(C) \in Nat /\ Cardinality(Q) \in Nat
      /\ Cardinality(P) \in Nat /\ Cardinality(free) \in Nat
  BY <1>2, FS_CardinalityType
<1> HIDE DEF C, Q, P
<1>8. IsFiniteSet(C \cup Q)
      /\ Cardinality(C \cup Q) = Cardinality(C) + Cardinality(Q)
  BY <1>2, <1>5, CountDisjoint
<1>9. IsFiniteSet(C \cup Q \cup P)
      /\ Cardinality(C \cup Q \cup P) = Cardinality(C \cup Q) + Cardinality(P)
  BY <1>2, <1>5, <1>8, CountDisjoint
<1>10. Cardinality(Permits) = Cardinality(C \cup Q \cup P) + Cardinality(free)
  BY <1>2, <1>5, <1>6, <1>9, CountDisjoint
<1>11. Outstanding = Cardinality(C) + Cardinality(Q) + Cardinality(P)
  BY <1>3, <1>4 DEF Outstanding, P
<1> QED
  BY <1>7, <1>8, <1>9, <1>10, <1>11

(* Capacity holds for every capacity and any number of threads.            *)
THEOREM Capacity == Spec => []CapacityRespected
<1>1. TypeOK /\ PermitLedger => CapacityRespected
  BY OutstandingCount DEF CapacityRespected
<1> QED
  BY <1>1, TypeCorrect, PermitsConserved, PTL

(* try_send refuses only when `capacity` messages are outstanding.         *)
THEOREM NoSpuriousRefusal == Spec => RefusalMeansFull
<1> DEFINE Refusal == \A t \in Threads :
             calls'[t] # calls[t] /\ call'[t] = call[t]
               => Outstanding = Cardinality(Permits)
<1>1. ASSUME TypeOK, PermitLedger, [Next]_vars PROVE [Refusal]_vars
  <2> SUFFICES ASSUME NEW t \in Threads, calls'[t] # calls[t],
                      call'[t] = call[t]
               PROVE  Outstanding = Cardinality(Permits)
    OBVIOUS
  <2>1. PICK u \in Threads : ThreadStep(u)
    BY <1>1 DEF Next, PumpStep, PumpRecv, PumpPublish, PumpPanic, RuntimeDrop,
       ConnStop, vars
  <2>2. ASSUME NEW topic \in Topics \cup {NoTopic},
               TrySend(u, topic) \/ Send(u, topic)
        PROVE  FALSE
    <3>1. PICK p \in free \cup {NoPermit}, try \in BOOLEAN :
                 Begin(u, topic, p, try)
      BY <2>2 DEF TrySend, Send
    <3>2. u = t
      BY <1>1, <3>1 DEF Begin, TypeOK
    <3>3. MayCall(t) /\ call[t] = NoCall
      BY <2>2, <3>2 DEF TrySend, Send, MayCall
    <3>4. Id(t, topic) \in Ids
      BY <1>1, <3>3, SenderAssumption DEF MayCall, TypeOK, Id, Ids
    <3>5. [id |-> Id(t, topic), permit |-> p, try |-> try] \in Calls
      BY <1>1, <3>4 DEF Calls, TypeOK
    <3>6. call'[t] = [id |-> Id(t, topic), permit |-> p, try |-> try]
      BY <1>1, <3>1, <3>2 DEF Begin, TypeOK
    <3> QED
      BY <3>3, <3>5, <3>6, NoneAssumption
  <2>3. TrySendFull(u)
    BY <2>1, <2>2 DEF ThreadStep, New, Clone, Delete, Enqueue
  <2>4. Cardinality(free) = 0
    BY <2>3, FS_EmptySet DEF TrySendFull
  <2> QED
    BY <1>1, <2>4, OutstandingCount
<1> QED
  BY <1>1, TypeCorrect, PermitsConserved, PTL DEF Spec, RefusalMeansFull

-----------------------------------------------------------------------------
(* Order per thread.  A thread's call under way is its latest, so what it  *)
(* adds to the channel is newer than everything it added before.           *)
OrderInv ==
  /\ \A t \in Threads : call[t] # NoCall =>
       call[t].id.from = t /\ call[t].id.n = calls[t]
  /\ \A i \in DOMAIN accepted :
       /\ accepted[i].n <= calls[accepted[i].from]
       /\ call[accepted[i].from] # NoCall =>
            accepted[i].n < calls[accepted[i].from]
  /\ \A i, j \in DOMAIN accepted :
       i < j /\ accepted[i].from = accepted[j].from =>
         accepted[i].n < accepted[j].n

(* The accepted messages by position.                                      *)
LEMMA AcceptedType ==
  ASSUME TypeOK
  PROVE  /\ \A i \in DOMAIN accepted :
              accepted[i].from \in Threads /\ accepted[i].n \in Nat
         /\ \A t \in Threads : calls[t] \in Nat
<1>1. \A i \in DOMAIN accepted : accepted[i] \in Ids
  BY DEF TypeOK
<1>2. \A id \in Ids : id.from \in Threads /\ id.n \in Nat
  BY SenderAssumption DEF Ids
<1>3. \A t \in Threads : calls[t] \in Nat
  BY SenderAssumption DEF TypeOK
<1> QED
  BY <1>1, <1>2, <1>3

(* Every step of callers, pump, panic and shutdown keeps OrderInv.         *)
LEMMA OrderStep ==
  ASSUME TypeOK, TypeOK', OrderInv, [Next]_vars
  PROVE  OrderInv'
<1>1. ASSUME UNCHANGED <<calls, call, accepted>> PROVE OrderInv'
  BY <1>1 DEF OrderInv
<1>2. ASSUME NEW t \in Threads, NEW topic \in Topics \cup {NoTopic}, NEW p,
             NEW try, MayCall(t), Begin(t, topic, p, try)
      PROVE  OrderInv'
  <2>1. /\ call' = [call EXCEPT ![t] =
                      [id |-> Id(t, topic), permit |-> p, try |-> try]]
        /\ calls' = [calls EXCEPT ![t] = calls[t] + 1]
        /\ accepted' = accepted
    BY <1>2 DEF Begin
  <2>2. /\ calls'[t] = calls[t] + 1
        /\ \A u \in Threads : u # t => calls'[u] = calls[u] /\ call'[u] = call[u]
        /\ call'[t].id = Id(t, topic)
    BY <2>1 DEF TypeOK
  <2>3. call'[t].id.from = t /\ call'[t].id.n = calls'[t]
    BY <2>2 DEF Id
  <2>4. \A i \in DOMAIN accepted :
          /\ accepted[i].n <= calls'[accepted[i].from]
          /\ call'[accepted[i].from] # NoCall =>
               accepted[i].n < calls'[accepted[i].from]
    BY <2>2, AcceptedType DEF OrderInv
  <2> QED
    BY <2>1, <2>2, <2>3, <2>4 DEF OrderInv
<1>3. ASSUME NEW t \in Threads, TrySendFull(t) PROVE OrderInv'
  <2>1. /\ calls' = [calls EXCEPT ![t] = calls[t] + 1]
        /\ call' = call /\ accepted' = accepted /\ call[t] = NoCall
    BY <1>3 DEF TrySendFull, MayCall
  <2>2. /\ calls'[t] = calls[t] + 1
        /\ \A u \in Threads : u # t => calls'[u] = calls[u]
    BY <2>1 DEF TypeOK
  <2>3. \A i \in DOMAIN accepted :
          /\ accepted[i].n <= calls'[accepted[i].from]
          /\ call[accepted[i].from] # NoCall =>
               accepted[i].n < calls'[accepted[i].from]
    BY <2>1, <2>2, AcceptedType DEF OrderInv
  <2> QED
    BY <2>1, <2>2, <2>3 DEF OrderInv
<1>4. ASSUME NEW t \in Threads, Enqueue(t) PROVE OrderInv'
  <2>1. /\ call[t] # NoCall /\ calls' = calls
        /\ call'[t] = NoCall
        /\ \A u \in Threads : u # t => call'[u] = call[u]
    BY <1>4 DEF Enqueue, TypeOK
  <2>2. call[t].id.from = t /\ call[t].id.n = calls[t]
    BY <2>1 DEF OrderInv
  <2>3. CASE ~RxOpen
    <3>1. accepted' = accepted
      BY <1>4, <2>3 DEF Enqueue
    <3> QED
      BY <2>1, <3>1, AcceptedType DEF OrderInv
  <2>4. CASE RxOpen
    <3>1. accepted' = Append(accepted, call[t].id) /\ accepted \in Seq(Ids)
      BY <1>4, <2>4 DEF Enqueue, TypeOK
    <3>2. call[t].id \in Ids
      <4>1. call[t] \in Calls
        BY <2>1 DEF TypeOK
      <4> QED
        BY <4>1 DEF Calls
    <3>3. \A i \in DOMAIN accepted' :
            \/ i \in DOMAIN accepted /\ accepted'[i] = accepted[i]
            \/ i = Len(accepted) + 1 /\ accepted'[i] = call[t].id
      BY <3>1, <3>2
    <3>4. /\ \A i \in DOMAIN accepted : i \in 1..Len(accepted)
          /\ Len(accepted) \in Nat
      BY <3>1
    <3>5. \A i \in DOMAIN accepted :
            accepted[i].from = t => accepted[i].n < calls[t]
      BY <2>1 DEF OrderInv
    <3>6. \A i \in DOMAIN accepted' :
            /\ accepted'[i].n <= calls'[accepted'[i].from]
            /\ call'[accepted'[i].from] # NoCall =>
                 accepted'[i].n < calls'[accepted'[i].from]
      BY <2>1, <2>2, <3>3, AcceptedType DEF OrderInv
    <3>7. ASSUME NEW i \in DOMAIN accepted', NEW j \in DOMAIN accepted',
                 i < j, accepted'[i].from = accepted'[j].from
          PROVE  accepted'[i].n < accepted'[j].n
      <4>1. i \in DOMAIN accepted /\ accepted'[i] = accepted[i]
        BY <3>3, <3>4, <3>7
      <4>2. CASE j \in DOMAIN accepted /\ accepted'[j] = accepted[j]
        BY <3>7, <4>1, <4>2 DEF OrderInv
      <4>3. CASE accepted'[j] = call[t].id
        BY <2>2, <3>5, <3>7, <4>1, <4>3
      <4> QED
        BY <3>3, <4>2, <4>3
    <3> QED
      BY <2>1, <3>6, <3>7 DEF OrderInv
  <2> QED
    BY <2>3, <2>4
<1>5. ASSUME NEW t \in Threads, ThreadStep(t) PROVE OrderInv'
  <2>1. ASSUME NEW topic \in Topics \cup {NoTopic},
               TrySend(t, topic) \/ Send(t, topic)
        PROVE  OrderInv'
    BY <1>2, <2>1 DEF TrySend, Send
  <2> QED
    BY <1>1, <1>3, <1>4, <1>5, <2>1 DEF ThreadStep, New, Clone, Delete
<1>6. CASE PumpStep \/ RuntimeDrop \/ ConnStop \/ UNCHANGED vars
  BY <1>1, <1>6 DEF PumpStep, PumpRecv, PumpPublish, PumpPanic, RuntimeDrop,
     ConnStop, vars
<1> QED
  BY <1>5, <1>6 DEF Next

(* What one thread sends reaches the wire in the order it sent it, for any *)
(* mix of try_send and send and any interleaving with other threads.       *)
THEOREM ThreadOrder == Spec => []PerThreadOrder
<1>1. Init => OrderInv
  BY DEF Init, OrderInv
<1>2. ASSUME TypeOK, FifoIntegrity, OrderInv PROVE PerThreadOrder
  <2> SUFFICES ASSUME NEW i \in DOMAIN wire, NEW j \in DOMAIN wire, i < j,
                      wire[i].from = wire[j].from
               PROVE  wire[i].n < wire[j].n
    BY DEF PerThreadOrder
  <2>1. i \in DOMAIN accepted /\ j \in DOMAIN accepted
    BY <1>2 DEF FifoIntegrity, TypeOK
  <2>2. accepted[i] \in Ids /\ accepted[j] \in Ids
    BY <1>2, <2>1 DEF TypeOK
  <2>3. \A id \in Ids : Named(id).from = id.from /\ Named(id).n = id.n
    BY DEF Ids, Named
  <2>4. wire[i] = Named(accepted[i]) /\ wire[j] = Named(accepted[j])
    BY <1>2 DEF FifoIntegrity
  <2> QED
    BY <1>2, <2>1, <2>2, <2>3, <2>4 DEF OrderInv
<1> QED
  BY <1>1, <1>2, TypeCorrect, Fifo, OrderStep, PTL DEF Spec
=============================================================================
