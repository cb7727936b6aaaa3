------------------------ MODULE NamedReceiverProofs ------------------------
(***************************************************************************)
(* Proofs about NamedReceiver, for any threads, capacities, messages and   *)
(* tokens.                                                                 *)
(*                                                                         *)
(* The inductive invariant has three parts: why the pump can end (Asked),  *)
(* where a pushed message is (Ledger), and how many the channel holds      *)
(* (Fits), which with capacity 0 is a count of the threads that wait.      *)
(***************************************************************************)
EXTENDS NamedReceiver, FiniteSetTheorems, SequenceTheorems, TLAPS

(* Where an unsubscribe and the end of the registration come from, and     *)
(* that the pump holds the subscription as long as it runs.                *)
Asked ==
  /\ ~runtime => ~handler
  /\ closed \/ unsubs > 0 \/ ~registered => cancelled \/ ~handler
  /\ signal > 0 \/ pop = "unsub" => cancelled
  /\ pop = "ret" /\ result = Null => cancelled \/ ~handler
  /\ PumpRuns => box = "held"

(* Before the Receiver is constructed nothing has happened.                *)
Before ==
  pop = "idle" =>
    /\ receivers = {} /\ waiting = {} /\ ~ended
    /\ chan = <<>> /\ pushed = <<>> /\ taken = <<>>

(* Where a message is: taken, or in the channel of the Receivers.          *)
Ledger == EachTakenOnce /\ (receivers = {} => chan = <<>>)

(* What is in the channel fits, and a thread that waits may still be told  *)
(* the end.                                                                *)
Fits ==
  /\ IsFiniteSet(waiting)
  /\ Len(chan) <= Limit
  /\ \A t \in waiting : nulls[t] < MaxNulls

(* The end is told after the pump has gone and the channel is empty.       *)
Over == ended => ~PumpRuns /\ pop # "idle" /\ chan = <<>>

IInv == TypeOK /\ Asked /\ PumpOutlivesReceivers /\ Before /\ Ledger /\ Fits /\ Over

-----------------------------------------------------------------------------
(* The kinds of step: of a thread, and of the subscription alone.          *)
ThreadKinds(t) ==
  \/ \E u \in Threads : Clone(t, u)
  \/ Delete(t) \/ TryRecv(t) \/ RecvBegin(t) \/ RecvEnd(t)

SubKinds ==
  \/ Dispatch \/ HandlerUnsubscribe \/ HandlerStop
  \/ GetToken \/ CloneToken \/ DeleteToken \/ Cancel
  \/ PopNext \/ PopShutdown \/ PopUnsubscribe

(* Every step is one of these kinds.                                       *)
LEMMA Steps ==
  ASSUME [Next]_vars
  PROVE  \/ SubKinds /\ UNCHANGED recvVars
         \/ PumpPush \/ PumpReturn \/ PumpUnwind \/ RuntimeDrop
         \/ \E t \in Threads : ThreadKinds(t)
         \/ \E t \in Threads : \E n \in Capacities : New(t, n)
         \/ UNCHANGED vars
BY Zenon DEF Next, LinkStep, TokenNext, PumpStep, PopStep, ThreadStep, ThreadKinds, SubKinds

(* The threads leave the subscription alone.                               *)
LEMMA ThreadsApart ==
  ASSUME NEW t \in Threads, ThreadKinds(t)
  PROVE  UNCHANGED subVars
BY Zenon DEF ThreadKinds, Clone, Delete, TryRecv, RecvBegin, RecvEnd

Bools ==
  /\ runtime \in BOOLEAN /\ handler \in BOOLEAN /\ registered \in BOOLEAN
  /\ closed \in BOOLEAN /\ cancelled \in BOOLEAN

(* The empty buffer.                                                       *)
LEMMA EmptyFits == <<>> \in Seq(1..MaxMsgs) /\ Len(<<>>) <= BufCap
BY SubAssumption

(* A step of the subscription preserves its types.                         *)
LEMMA SubTypeStep ==
  ASSUME SubTypeOK, SubKinds
  PROVE  SubTypeOK'
<1> USE SubAssumption DEF SubTypeOK, linkVars
<1>1. ASSUME Dispatch PROVE SubTypeOK'
  <2>1. Bools'
    BY <1>1, Zenon DEF Dispatch, Bools
  <2>2. /\ sent < MaxMsgs /\ sent' = sent + 1
        /\ \/ /\ Len(buffer) < BufCap
              /\ buffer' = Append(buffer, sent + 1) /\ queued' = Append(queued, sent + 1)
           \/ UNCHANGED <<buffer, queued>>
        /\ UNCHANGED <<unsubs, signal, tokens, box, pop, result>>
    BY <1>1, Zenon DEF Dispatch
  <2>3. buffer' \in Seq(1..MaxMsgs) /\ Len(buffer') <= BufCap /\ queued' \in Seq(1..MaxMsgs)
    <3>1. CASE UNCHANGED <<buffer, queued>>
      BY <3>1
    <3>2. CASE /\ Len(buffer) < BufCap /\ buffer' = Append(buffer, sent + 1)
               /\ queued' = Append(queued, sent + 1)
      <4>1. sent + 1 \in 1..MaxMsgs
        BY <2>2
      <4> QED
        BY <3>2, <4>1
    <3> QED
      BY <2>2, <3>1, <3>2, Zenon
  <2> QED
    BY <2>1, <2>2, <2>3 DEF Bools
<1>2. ASSUME HandlerUnsubscribe PROVE SubTypeOK'
  <2>1. Bools'
    BY <1>2, Zenon DEF HandlerUnsubscribe, Bools
  <2>2. /\ unsubs > 0 /\ unsubs' = unsubs - 1
        /\ UNCHANGED <<buffer, signal, tokens, box, pop, result, sent, queued>>
    BY <1>2, Zenon DEF HandlerUnsubscribe
  <2> QED
    BY <2>1, <2>2 DEF Bools
<1>3. ASSUME HandlerStop PROVE SubTypeOK'
  BY <1>3 DEF HandlerStop
<1>4. ASSUME GetToken PROVE SubTypeOK'
  BY <1>4 DEF GetToken, TokenStep
<1>5. ASSUME CloneToken PROVE SubTypeOK'
  BY <1>5 DEF CloneToken, TokenStep
<1>6. ASSUME DeleteToken PROVE SubTypeOK'
  BY <1>6 DEF DeleteToken, TokenStep
<1>7. ASSUME Cancel PROVE SubTypeOK'
  BY <1>7 DEF Cancel
<1>8. ASSUME PopNext PROVE SubTypeOK'
  <2>1. Bools'
    BY <1>8, Zenon DEF PopNext, NextReady, Bools
  <2>2. /\ pop' \in {"ret", "sd"}
        /\ \/ /\ result' = IF buffer = <<>> THEN Null ELSE Head(buffer)
              /\ buffer' = IF buffer = <<>> THEN <<>> ELSE Tail(buffer)
           \/ UNCHANGED <<result, buffer>>
        /\ UNCHANGED <<unsubs, signal, tokens, box, sent, queued>>
    BY <1>8, Zenon DEF PopNext, NextReady
  <2>3. /\ buffer' \in Seq(1..MaxMsgs) /\ Len(buffer') <= BufCap
        /\ result' \in 1..MaxMsgs \cup {Null}
    <3>1. CASE UNCHANGED <<result, buffer>>
      BY <3>1
    <3>2. CASE buffer = <<>> /\ buffer' = <<>> /\ result' = Null
      BY <3>2, EmptyFits
    <3>3. CASE buffer # <<>> /\ buffer' = Tail(buffer) /\ result' = Head(buffer)
      BY <3>3
    <3> QED
      BY <2>2, <3>1, <3>2, <3>3, Zenon
  <2> QED
    BY <2>1, <2>2, <2>3 DEF Bools
<1>9. ASSUME PopShutdown PROVE SubTypeOK'
  BY <1>9 DEF PopShutdown, SdReady, SdSenderAlive
<1>10. ASSUME PopUnsubscribe PROVE SubTypeOK'
  <2>1. Bools'
    BY <1>10, Zenon DEF PopUnsubscribe, Unsubscribe, Bools
  <2>2. /\ pop' \in {"next", "panicked"} /\ unsubs' \in {unsubs, unsubs + 1}
        /\ UNCHANGED <<buffer, signal, tokens, box, result, sent, queued>>
    BY <1>10, Zenon DEF PopUnsubscribe, Unsubscribe
  <2> QED
    BY <2>1, <2>2 DEF Bools
<1> QED
  BY <1>1, <1>2, <1>3, <1>4, <1>5, <1>6, <1>7, <1>8, <1>9, <1>10 DEF SubKinds

(* So do the steps of the pump's task, and the constructor that spawns it. *)
LEMMA PumpTypeStep ==
  ASSUME SubTypeOK,
         \/ PumpPush \/ PumpReturn \/ PumpUnwind \/ RuntimeDrop
         \/ \E t \in Threads : \E n \in Capacities : New(t, n)
  PROVE  SubTypeOK'
<1>1. Bools'
  BY Zenon DEF SubTypeOK, Bools, linkVars, PumpPush, PumpReturn, PumpUnwind, PumpDrop,
     RuntimeDrop, New, DropSubscriber
<1>2. /\ UNCHANGED <<signal, tokens, result, sent, queued>>
      /\ pop' \in {pop, "next", "lost"} /\ box' \in {box, "gone"}
      /\ unsubs' \in {unsubs, unsubs + 1, 0}
      /\ buffer' \in {buffer, <<>>}
  BY Zenon DEF linkVars, PumpPush, PumpReturn, PumpUnwind, PumpDrop, RuntimeDrop, New,
     DropSubscriber
<1>3. buffer' \in Seq(1..MaxMsgs) /\ Len(buffer') <= BufCap
  BY <1>2, EmptyFits, Zenon DEF SubTypeOK
<1> QED
  BY <1>1, <1>2, <1>3, SubAssumption DEF SubTypeOK, Bools

-----------------------------------------------------------------------------
(* The types of the channel and of the threads.                            *)
RecvTypes ==
  /\ receivers \subseteq Threads /\ waiting \subseteq receivers
  /\ cap \in Capacities \cup {0}
  /\ chan \in Seq(1..MaxMsgs)
  /\ nulls \in [Threads -> 0..MaxNulls]
  /\ ended \in BOOLEAN
  /\ pushed \in Seq(1..MaxMsgs) /\ lost \in Seq(1..MaxMsgs)
  /\ taken \in Seq(Threads \X (1..MaxMsgs))

(* What the threads took is a sequence of messages.                        *)
LEMMA TakenIsSeq ==
  ASSUME RecvTypes
  PROVE  TakenMsgs \in Seq(1..MaxMsgs) /\ Len(TakenMsgs) = Len(taken)
<1>1. /\ taken \in Seq(Threads \X (1..MaxMsgs))
      /\ DOMAIN taken = 1..Len(taken) /\ Len(taken) \in Nat
      /\ \A i \in 1..Len(taken) : taken[i] \in Threads \X (1..MaxMsgs)
  BY DEF RecvTypes
<1>2. \A i \in 1..Len(taken) : taken[i][2] \in 1..MaxMsgs
  BY <1>1
<1>3. TakenMsgs = [i \in 1..Len(taken) |-> taken[i][2]]
  BY <1>1 DEF TakenMsgs
<1>4. TakenMsgs \in [1..Len(taken) -> 1..MaxMsgs]
  BY <1>2, <1>3
<1>5. TakenMsgs \in Seq(1..MaxMsgs)
  <2>1. PICK n \in Nat : n = Len(taken)
    BY <1>1
  <2>2. TakenMsgs \in [1..n -> 1..MaxMsgs]
    BY <1>4, <2>1
  <2> QED
    BY <2>2, SeqDef
<1>6. 1..Len(TakenMsgs) = 1..Len(taken) /\ Len(TakenMsgs) \in Nat
  BY <1>4, <1>5, LenProperties
<1> QED
  BY <1>1, <1>5, <1>6

(* Taking moves the head of the channel to the end of what was taken.      *)
LEMMA TakeMoves ==
  ASSUME RecvTypes, NEW t \in Threads, chan # <<>>, Take(t)
  PROVE  /\ chan' \in Seq(1..MaxMsgs) /\ taken' \in Seq(Threads \X (1..MaxMsgs))
         /\ Len(chan) \in Nat \ {0} /\ Len(chan') = Len(chan) - 1
         /\ TakenMsgs' = Append(TakenMsgs, Head(chan))
         /\ TakenMsgs' \o chan' = TakenMsgs \o chan
<1>1. /\ chan \in Seq(1..MaxMsgs) /\ taken \in Seq(Threads \X (1..MaxMsgs))
      /\ chan' = Tail(chan) /\ taken' = Append(taken, <<t, Head(chan)>>)
  BY DEF RecvTypes, Take
<1>2. Head(chan) \in 1..MaxMsgs /\ chan' \in Seq(1..MaxMsgs)
  BY <1>1, HeadTailProperties
<1>3. Len(chan) \in Nat \ {0} /\ Len(chan') = Len(chan) - 1
  BY <1>1
<1>4. <<t, Head(chan)>> \in Threads \X (1..MaxMsgs)
  BY <1>2
<1>5. /\ taken' \in Seq(Threads \X (1..MaxMsgs))
      /\ DOMAIN taken = 1..Len(taken) /\ Len(taken) \in Nat
      /\ DOMAIN taken' = 1..(Len(taken) + 1)
      /\ \A i \in 1..Len(taken) : taken'[i] = taken[i]
      /\ taken'[Len(taken) + 1] = <<t, Head(chan)>>
  BY <1>1, <1>4
<1>6. TakenMsgs \in Seq(1..MaxMsgs) /\ Len(TakenMsgs) = Len(taken)
  BY TakenIsSeq
<1>7. TakenMsgs' = Append(TakenMsgs, Head(chan))
  <2>1. TakenMsgs' = [i \in 1..(Len(taken) + 1) |-> taken'[i][2]]
    BY <1>5 DEF TakenMsgs
  <2>2. \A i \in 1..Len(taken) : TakenMsgs[i] = taken[i][2]
    BY <1>5 DEF TakenMsgs
  <2> DEFINE app == Append(TakenMsgs, Head(chan))
  <2>3. /\ app \in Seq(1..MaxMsgs) /\ Len(app) = Len(taken) + 1
        /\ \A i \in 1..Len(taken) : app[i] = TakenMsgs[i]
        /\ app[Len(taken) + 1] = Head(chan)
    BY <1>2, <1>6, AppendProperties
  <2> HIDE DEF app
  <2>4. app = [i \in 1..(Len(taken) + 1) |-> app[i]]
    BY <2>3, LenProperties
  <2>5. \A i \in 1..(Len(taken) + 1) : taken'[i][2] = app[i]
    <3>1. taken'[Len(taken) + 1][2] = Head(chan)
      BY <1>5
    <3>2. \A i \in 1..Len(taken) : taken'[i][2] = taken[i][2]
      BY <1>5
    <3>3. \A i \in 1..(Len(taken) + 1) : i \in 1..Len(taken) \/ i = Len(taken) + 1
      BY <1>5
    <3> QED
      BY <2>2, <2>3, <3>1, <3>2, <3>3, Zenon
  <2>6. TakenMsgs' = app
    BY <2>1, <2>4, <2>5
  <2> QED
    BY <2>6 DEF app
<1>8. Append(TakenMsgs, Head(chan)) \o Tail(chan) = TakenMsgs \o chan
  BY <1>1, <1>2, <1>6
<1> QED
  BY <1>1, <1>2, <1>3, <1>5, <1>7, <1>8

(* Every step preserves the types of the channel and of the threads.       *)
LEMMA RecvTypeStep ==
  ASSUME SubTypeOK, RecvTypes, Before, Fits, [Next]_vars
  PROVE  RecvTypes'
<1> USE SubAssumption, ReceiverAssumption
<1>1. CASE UNCHANGED recvVars
  BY <1>1 DEF recvVars, RecvTypes
<1>2. CASE PumpReturn \/ PumpUnwind \/ RuntimeDrop
  BY <1>1, <1>2 DEF PumpReturn, PumpUnwind, PumpDrop, RuntimeDrop
<1>3. CASE UNCHANGED vars
  BY <1>1, <1>3 DEF vars
<1>4. CASE PumpPush
  <2>1. result \in 1..MaxMsgs
    BY <1>4 DEF PumpPush, SubTypeOK
  <2>2. /\ \/ chan' = Append(chan, result) /\ pushed' = Append(pushed, result) /\ lost' = lost
           \/ chan' = chan /\ pushed' = pushed /\ lost' = Append(lost, result)
        /\ UNCHANGED <<receivers, waiting, cap, nulls, ended, taken>>
    BY <1>4, Zenon DEF PumpPush
  <2>3. chan' \in Seq(1..MaxMsgs) /\ pushed' \in Seq(1..MaxMsgs) /\ lost' \in Seq(1..MaxMsgs)
    <3>1. /\ Append(chan, result) \in Seq(1..MaxMsgs)
          /\ Append(pushed, result) \in Seq(1..MaxMsgs)
          /\ Append(lost, result) \in Seq(1..MaxMsgs)
      BY <2>1, AppendProperties DEF RecvTypes
    <3> QED
      BY <2>2, <3>1, Zenon DEF RecvTypes
  <2> QED
    BY <2>2, <2>3 DEF RecvTypes
<1>5. ASSUME NEW t \in Threads, NEW n \in Capacities, New(t, n) PROVE RecvTypes'
  <2>1. /\ receivers' = {t} /\ cap' = n /\ pop = "idle"
        /\ UNCHANGED <<waiting, chan, nulls, ended, pushed, lost, taken>>
    BY <1>5, Zenon DEF New
  <2> QED
    BY <2>1 DEF Before, RecvTypes
<1>6. ASSUME NEW t \in Threads, NEW u \in Threads, Clone(t, u) PROVE RecvTypes'
  BY <1>6 DEF Clone, RecvTypes
<1>7. ASSUME NEW t \in Threads, Delete(t) PROVE RecvTypes'
  <2>1. /\ receivers' = receivers \ {t} /\ t \notin waiting /\ chan' \in {chan, <<>>}
        /\ UNCHANGED <<waiting, cap, nulls, ended, pushed, lost, taken>>
    BY <1>7, Zenon DEF Delete
  <2>2. chan' \in Seq(1..MaxMsgs)
    BY <2>1, EmptyFits, Zenon DEF RecvTypes
  <2> QED
    BY <2>1, <2>2 DEF RecvTypes
<1>8. ASSUME NEW t \in Threads, RecvBegin(t) PROVE RecvTypes'
  BY <1>8 DEF RecvBegin, RecvTypes
<1>9. ASSUME NEW t \in Threads, TryRecv(t) PROVE RecvTypes'
  <2>1. CASE chan # <<>> /\ cap > 0 /\ Take(t)
    BY <1>9, <2>1, TakeMoves DEF TryRecv, Take, RecvTypes
  <2>2. CASE nulls[t] < MaxNulls /\ nulls' = [nulls EXCEPT ![t] = @ + 1]
             /\ UNCHANGED <<receivers, chan, ended, pushed, lost, taken>>
    BY <1>9, <2>2 DEF TryRecv, RecvTypes
  <2> QED
    BY <1>9, <2>1, <2>2 DEF TryRecv
<1>10. ASSUME NEW t \in Threads, RecvEnd(t) PROVE RecvTypes'
  <2>1. CASE chan # <<>> /\ Take(t)
    BY <1>10, <2>1, TakeMoves DEF RecvEnd, Take, RecvTypes
  <2>2. CASE nulls' = [nulls EXCEPT ![t] = @ + 1] /\ ended' = TRUE
             /\ UNCHANGED <<receivers, chan, pushed, lost, taken>>
    <3>1. nulls[t] < MaxNulls /\ t \in Threads
      BY <1>10 DEF RecvEnd, Fits
    <3>2. nulls' \in [Threads -> 0..MaxNulls]
      BY <2>2, <3>1 DEF RecvTypes
    <3>3. ended' \in BOOLEAN
      BY <2>2, Zenon
    <3>4. waiting' = waiting \ {t} /\ cap' = cap
          /\ UNCHANGED <<receivers, chan, pushed, lost, taken>>
      BY <1>10, <2>2, Zenon DEF RecvEnd
    <3> QED
      BY <3>2, <3>3, <3>4 DEF RecvTypes
  <2> QED
    BY <1>10, <2>1, <2>2, Zenon DEF RecvEnd
<1> QED
  BY <1>1, <1>2, <1>3, <1>4, <1>5, <1>6, <1>7, <1>8, <1>9, <1>10, Steps DEF ThreadKinds

-----------------------------------------------------------------------------
(* Every step preserves why the pump ends.                                 *)
LEMMA AskedStep ==
  ASSUME TypeOK, Asked, PumpOutlivesReceivers, [Next]_vars
  PROVE  Asked' /\ PumpOutlivesReceivers'
<1> USE DEF Asked, PumpOutlivesReceivers, PumpRuns, TypeOK, SubTypeOK, linkVars
<1>1. CASE Dispatch
  BY <1>1 DEF Dispatch
<1>2. CASE HandlerUnsubscribe
  BY <1>2 DEF HandlerUnsubscribe
<1>3. CASE HandlerStop
  BY <1>3 DEF HandlerStop
<1>4. CASE GetToken \/ CloneToken \/ DeleteToken
  BY <1>4 DEF GetToken, CloneToken, DeleteToken, TokenStep
<1>5. CASE Cancel
  BY <1>5 DEF Cancel
<1>6. CASE PopNext
  <2>1. buffer # <<>> => Head(buffer) # Null
    <3>1. buffer \in Seq(1..MaxMsgs)
      OBVIOUS
    <3>2. buffer # <<>> => Head(buffer) \in 1..MaxMsgs
      BY <3>1, HeadTailProperties
    <3> QED
      BY <3>2, SubAssumption
  <2>2. pop' = "ret" /\ result' = Null => closed \/ ~registered
    BY <1>6, <2>1 DEF PopNext, NextReady
  <2> QED
    BY <1>6, <2>2 DEF PopNext
<1>7. CASE PopShutdown
  BY <1>7 DEF PopShutdown, SdReady, SdSenderAlive
<1>8. CASE PopUnsubscribe
  BY <1>8 DEF PopUnsubscribe, Unsubscribe
<1>9. CASE PumpPush
  BY <1>9 DEF PumpPush
<1>10. CASE PumpReturn \/ PumpUnwind
  BY <1>10 DEF PumpReturn, PumpUnwind, PumpDrop, DropSubscriber
<1>11. CASE RuntimeDrop
  BY <1>11 DEF RuntimeDrop
<1>12. ASSUME NEW t \in Threads, NEW c \in Capacities, New(t, c)
       PROVE  Asked' /\ PumpOutlivesReceivers'
  BY <1>12 DEF New, DropSubscriber
<1>13. CASE UNCHANGED subVars
  BY <1>13 DEF subVars
<1> QED
  BY <1>1, <1>2, <1>3, <1>4, <1>5, <1>6, <1>7,
     <1>8, <1>9, <1>10, <1>11, <1>12, <1>13, Steps, ThreadsApart
     DEF SubKinds, vars

(* Every step preserves that nothing happens before the constructor.       *)
LEMMA BeforeStep ==
  ASSUME TypeOK, Before, [Next]_vars
  PROVE  Before'
<1>1. CASE pop' # "idle"
  BY <1>1 DEF Before
<1>2. CASE UNCHANGED recvVars /\ pop = "idle"
  BY <1>2 DEF recvVars, Before
<1>3. ASSUME SubKinds, pop' = "idle" PROVE pop = "idle"
  BY <1>3 DEF SubKinds, linkVars, Dispatch, HandlerUnsubscribe, HandlerStop, GetToken,
     CloneToken, DeleteToken, TokenStep, Cancel, PopNext, PopShutdown, PopUnsubscribe
<1>4. CASE PumpPush \/ PumpReturn \/ PumpUnwind
  BY <1>1, <1>4 DEF PumpPush, PumpReturn, PumpUnwind, PumpDrop
<1>5. ASSUME RuntimeDrop, pop' = "idle" PROVE pop = "idle" /\ UNCHANGED recvVars
  BY <1>5 DEF RuntimeDrop
<1>6. ASSUME NEW t \in Threads, ThreadKinds(t) PROVE pop' # "idle"
  <2>1. receivers # {} \/ waiting # {}
    BY <1>6 DEF ThreadKinds, Clone, Delete, TryRecv, RecvBegin, RecvEnd
  <2>2. pop' = pop
    BY <1>6, ThreadsApart DEF subVars
  <2> QED
    BY <2>1, <2>2 DEF Before
<1>7. ASSUME NEW t \in Threads, NEW c \in Capacities, New(t, c) PROVE pop' # "idle"
  BY <1>7 DEF New
<1>8. CASE UNCHANGED vars
  BY <1>8 DEF vars, subVars, recvVars, Before
<1> QED
  BY <1>1, <1>2, <1>3, <1>4, <1>5, <1>6, <1>7, <1>8, Steps

(* Every step preserves where a message is.                                *)
LEMMA LedgerStep ==
  ASSUME TypeOK, RecvTypes, Before, Ledger, [Next]_vars
  PROVE  Ledger'
<1>1. ASSUME UNCHANGED <<taken, chan, pushed>>, receivers' = receivers PROVE Ledger'
  BY <1>1 DEF Ledger, EachTakenOnce, TakenMsgs
<1>2. CASE UNCHANGED recvVars
  BY <1>1, <1>2 DEF recvVars
<1>3. CASE PumpReturn \/ PumpUnwind \/ RuntimeDrop
  BY <1>2, <1>3 DEF PumpReturn, PumpUnwind, PumpDrop, RuntimeDrop
<1>4. CASE PumpPush
  <2>1. result \in 1..MaxMsgs /\ receivers' = receivers /\ taken' = taken
    BY <1>4 DEF PumpPush, TypeOK, SubTypeOK
  <2>2. CASE ~Room
    BY <1>1, <1>4, <2>1, <2>2 DEF PumpPush
  <2>3. CASE Room /\ chan' = Append(chan, result) /\ pushed' = Append(pushed, result)
    <3>1. receivers # {} /\ pushed = TakenMsgs \o chan
      BY <2>3 DEF Room, Ledger, EachTakenOnce
    <3>2. TakenMsgs \in Seq(1..MaxMsgs) /\ chan \in Seq(1..MaxMsgs)
      BY TakenIsSeq DEF RecvTypes
    <3>3. Append(TakenMsgs \o chan, result) = TakenMsgs \o Append(chan, result)
      BY <2>1, <3>2
    <3>4. TakenMsgs' = TakenMsgs
      BY <2>1 DEF TakenMsgs
    <3> QED
      BY <2>1, <2>3, <3>1, <3>3, <3>4 DEF Ledger, EachTakenOnce
  <2> QED
    BY <1>4, <2>2, <2>3 DEF PumpPush
<1>5. ASSUME NEW t \in Threads, NEW c \in Capacities, New(t, c) PROVE Ledger'
  <2>1. /\ pop = "idle" /\ receivers' = {t} /\ UNCHANGED <<taken, chan, pushed>>
    BY <1>5, Zenon DEF New
  <2>2. taken' = <<>> /\ chan' = <<>> /\ pushed' = <<>>
    BY <2>1 DEF Before
  <2>3. TakenMsgs' = <<>>
    BY <2>2 DEF TakenMsgs
  <2> QED
    BY <2>1, <2>2, <2>3 DEF Ledger, EachTakenOnce
<1>6. ASSUME NEW t \in Threads, NEW u \in Threads, Clone(t, u) PROVE Ledger'
  <2>1. receivers # {} /\ receivers' # {} /\ UNCHANGED <<taken, chan, pushed>>
    BY <1>6 DEF Clone
  <2> QED
    BY <2>1 DEF Ledger, EachTakenOnce, TakenMsgs
<1>7. ASSUME NEW t \in Threads, Delete(t) PROVE Ledger'
  <2>1. /\ t \in receivers /\ receivers' = receivers \ {t}
        /\ chan' = (IF receivers = {t} THEN <<>> ELSE chan)
        /\ UNCHANGED <<taken, pushed>>
    BY <1>7, Zenon DEF Delete
  <2>2. CASE receivers = {t}
    BY <2>1, <2>2 DEF Ledger, EachTakenOnce
  <2>3. CASE receivers # {t}
    BY <2>1, <2>3 DEF Ledger, EachTakenOnce, TakenMsgs
  <2> QED
    BY <2>2, <2>3
<1>8. ASSUME NEW t \in Threads, chan # <<>>, Take(t) PROVE Ledger'
  <2>1. TakenMsgs' \o chan' = TakenMsgs \o chan
    BY <1>8, TakeMoves
  <2>2. receivers' = receivers /\ pushed' = pushed
    BY <1>8 DEF Take
  <2>3. receivers # {}
    BY <1>8 DEF Ledger
  <2> QED
    BY <2>1, <2>2, <2>3 DEF Ledger, EachTakenOnce
<1>9. ASSUME NEW t \in Threads, TryRecv(t) \/ RecvBegin(t) \/ RecvEnd(t) PROVE Ledger'
  BY <1>1, <1>8, <1>9 DEF TryRecv, RecvBegin, RecvEnd
<1>10. CASE UNCHANGED vars
  BY <1>2, <1>10 DEF vars
<1> QED
  BY <1>2, <1>3, <1>4, <1>5, <1>6, <1>7, <1>9, <1>10, Steps DEF ThreadKinds

(* The number of waiting threads when one comes or goes.                   *)
LEMMA WaitingCount ==
  ASSUME IsFiniteSet(waiting), NEW t
  PROVE  /\ Cardinality(waiting) \in Nat
         /\ IsFiniteSet(waiting \cup {t}) /\ Cardinality(waiting \cup {t}) \in Nat
         /\ Cardinality(waiting \cup {t}) >= Cardinality(waiting)
         /\ IsFiniteSet(waiting \ {t}) /\ Cardinality(waiting \ {t}) \in Nat
         /\ t \in waiting => Cardinality(waiting \ {t}) = Cardinality(waiting) - 1
<1>1. Cardinality(waiting) \in Nat
  BY FS_CardinalityType
<1>2. /\ IsFiniteSet(waiting \cup {t})
      /\ Cardinality(waiting \cup {t}) =
           IF t \in waiting THEN Cardinality(waiting) ELSE Cardinality(waiting) + 1
  BY FS_AddElement
<1>3. /\ IsFiniteSet(waiting \ {t})
      /\ Cardinality(waiting \ {t}) =
           IF t \in waiting THEN Cardinality(waiting) - 1 ELSE Cardinality(waiting)
  BY FS_RemoveElement
<1>4. Cardinality(waiting \ {t}) \in Nat
  BY <1>3, FS_CardinalityType
<1> QED
  BY <1>1, <1>2, <1>3, <1>4

(* Every step preserves that what is in the channel fits.                  *)
LEMMA FitsStep ==
  ASSUME TypeOK, RecvTypes, Before, Fits, [Next]_vars
  PROVE  Fits'
<1> USE ReceiverAssumption
<1>1. ASSUME UNCHANGED <<waiting, chan, cap, nulls>> PROVE Fits'
  BY <1>1 DEF Fits, Limit
<1>2. CASE UNCHANGED recvVars
  BY <1>1, <1>2 DEF recvVars
<1>3. CASE PumpReturn \/ PumpUnwind \/ RuntimeDrop
  BY <1>2, <1>3 DEF PumpReturn, PumpUnwind, PumpDrop, RuntimeDrop
<1>4. cap \in Nat /\ chan \in Seq(1..MaxMsgs) /\ Len(chan) \in Nat
  BY DEF RecvTypes
<1>5. IsFiniteSet(waiting) /\ Cardinality(waiting) \in Nat
  BY WaitingCount DEF Fits
<1>6. CASE PumpPush
  <2>1. UNCHANGED <<waiting, cap, nulls>>
    BY <1>6 DEF PumpPush
  <2>2. CASE chan' = chan
    BY <1>1, <2>1, <2>2
  <2>3. CASE Room /\ chan' = Append(chan, result)
    <3>1. Len(chan') = Len(chan) + 1
      BY <1>4, <2>3
    <3>2. Len(chan) + 1 <= Limit
      BY <1>4, <1>5, <2>3 DEF Room, Limit
    <3>3. Limit' = Limit
      BY <2>1 DEF Limit
    <3> QED
      BY <2>1, <3>1, <3>2, <3>3 DEF Fits
  <2> QED
    BY <1>6, <2>2, <2>3 DEF PumpPush
<1>7. ASSUME NEW t \in Threads, NEW c \in Capacities, New(t, c) PROVE Fits'
  <2>1. pop = "idle" /\ cap' = c /\ UNCHANGED <<waiting, chan, nulls>>
    BY <1>7, Zenon DEF New
  <2>2. waiting' = {} /\ chan' = <<>> /\ c \in Nat
    BY <2>1 DEF Before
  <2>3. IsFiniteSet({}) /\ Cardinality({}) = 0
    BY FS_EmptySet
  <2>4. Len(chan') = 0
    BY <2>2
  <2> QED
    BY <2>1, <2>2, <2>3, <2>4 DEF Fits, Limit
<1>8. ASSUME NEW t \in Threads, NEW u \in Threads, Clone(t, u) PROVE Fits'
  BY <1>1, <1>8 DEF Clone
<1>9. ASSUME NEW t \in Threads, Delete(t) PROVE Fits'
  <2>1. UNCHANGED <<waiting, cap, nulls>> /\ chan' \in {chan, <<>>}
    BY <1>9, Zenon DEF Delete
  <2>2. CASE chan' = chan
    BY <1>1, <2>1, <2>2
  <2>3. CASE chan' = <<>>
    <3>1. Len(chan') = 0 /\ Limit' = Limit /\ Limit \in Nat
      BY <1>4, <1>5, <2>1, <2>3 DEF Limit
    <3> QED
      BY <2>1, <3>1 DEF Fits
  <2> QED
    BY <2>1, <2>2, <2>3
<1>10. ASSUME NEW t \in Threads, RecvBegin(t) PROVE Fits'
  <2>1. waiting' = waiting \cup {t} /\ nulls[t] < MaxNulls /\ UNCHANGED <<chan, cap, nulls>>
    BY <1>10 DEF RecvBegin
  <2>2. IsFiniteSet(waiting') /\ Cardinality(waiting') \in Nat
        /\ Cardinality(waiting') >= Cardinality(waiting)
    BY <1>5, <2>1, WaitingCount
  <2>3. Len(chan') <= Limit'
    BY <1>4, <1>5, <2>1, <2>2 DEF Fits, Limit
  <2> QED
    BY <2>1, <2>2, <2>3 DEF Fits
<1>11. ASSUME NEW t \in Threads, TryRecv(t) PROVE Fits'
  <2>1. t \notin waiting /\ UNCHANGED <<waiting, cap>>
    BY <1>11 DEF TryRecv
  <2>2. CASE chan # <<>> /\ Take(t)
    <3>1. Len(chan') <= Len(chan) /\ Len(chan') \in Nat /\ nulls' = nulls
      BY <1>4, <2>2, TakeMoves DEF Take
    <3>2. Limit' = Limit /\ Limit \in Nat
      BY <1>4, <1>5, <2>1 DEF Limit
    <3> QED
      BY <1>4, <2>1, <3>1, <3>2 DEF Fits
  <2>3. CASE nulls' = [nulls EXCEPT ![t] = @ + 1] /\ chan' = chan
    <3>1. \A u \in waiting : nulls'[u] = nulls[u]
      BY <2>1, <2>3 DEF RecvTypes
    <3>2. Limit' = Limit
      BY <2>1 DEF Limit
    <3> QED
      BY <2>1, <2>3, <3>1, <3>2 DEF Fits
  <2> QED
    BY <1>11, <2>2, <2>3 DEF TryRecv
<1>12. ASSUME NEW t \in Threads, RecvEnd(t) PROVE Fits'
  <2>1. t \in waiting /\ waiting' = waiting \ {t} /\ cap' = cap
    BY <1>12 DEF RecvEnd
  <2>2. IsFiniteSet(waiting') /\ Cardinality(waiting') = Cardinality(waiting) - 1
        /\ Cardinality(waiting') \in Nat
    BY <1>5, <2>1, WaitingCount
  <2>3. CASE chan # <<>> /\ Take(t)
    <3>1. Len(chan') = Len(chan) - 1 /\ nulls' = nulls
      BY <2>3, TakeMoves DEF Take
    <3>2. Len(chan') <= Limit'
      BY <1>4, <1>5, <2>1, <2>2, <3>1 DEF Fits, Limit
    <3> QED
      BY <2>1, <2>2, <3>1, <3>2 DEF Fits
  <2>4. CASE chan = <<>> /\ chan' = chan /\ nulls' = [nulls EXCEPT ![t] = @ + 1]
    <3>1. \A u \in waiting' : nulls'[u] = nulls[u]
      BY <2>1, <2>4 DEF RecvTypes
    <3>2. Len(chan') = 0 /\ Limit' \in Nat
      BY <1>4, <2>1, <2>2, <2>4 DEF Limit
    <3> QED
      BY <2>1, <2>2, <3>1, <3>2 DEF Fits
  <2> QED
    BY <1>12, <2>3, <2>4 DEF RecvEnd
<1>13. CASE UNCHANGED vars
  BY <1>2, <1>13 DEF vars
<1> QED
  BY <1>2, <1>3, <1>6, <1>7, <1>8, <1>9, <1>10, <1>11, <1>12, <1>13, Steps DEF ThreadKinds

(* The pump does not start again.                                          *)
LEMMA PumpStaysGone ==
  ASSUME [Next]_vars, pop # "idle", ~PumpRuns
  PROVE  pop' # "idle" /\ ~PumpRuns'
<1> USE DEF PumpRuns
<1>1. CASE SubKinds
  BY <1>1 DEF SubKinds, linkVars, Dispatch, HandlerUnsubscribe, HandlerStop, GetToken,
     CloneToken, DeleteToken, TokenStep, Cancel, PopNext, PopShutdown, PopUnsubscribe
<1>2. CASE PumpPush \/ PumpReturn \/ PumpUnwind \/ RuntimeDrop
  BY <1>2 DEF PumpPush, PumpReturn, PumpUnwind, PumpDrop, RuntimeDrop
<1>3. ASSUME NEW t \in Threads, NEW c \in Capacities PROVE ~New(t, c)
  BY DEF New
<1>4. CASE UNCHANGED subVars
  BY <1>4 DEF subVars
<1> QED
  BY <1>1, <1>2, <1>3, <1>4, Steps, ThreadsApart DEF vars

(* Every step preserves that the end is told when nothing is left.         *)
LEMMA OverStep ==
  ASSUME TypeOK, Before, Ledger, Over, [Next]_vars
  PROVE  Over'
<1>1. CASE ended
  <2>1. pop' # "idle" /\ ~PumpRuns' /\ chan = <<>>
    BY <1>1, PumpStaysGone DEF Over
  <2>2. chan' = chan \/ chan' = <<>>
    <3>1. ~PumpPush
      BY <1>1 DEF Over, PumpRuns, PumpPush
    <3>2. ASSUME NEW t \in Threads, ThreadKinds(t) PROVE chan' = chan \/ chan' = <<>>
      BY <2>1, <3>2 DEF ThreadKinds, Clone, Delete, TryRecv, RecvBegin, RecvEnd
    <3>3. ASSUME NEW t \in Threads, NEW c \in Capacities, New(t, c) PROVE chan' = chan
      BY <3>3, Zenon DEF New
    <3>4. CASE PumpReturn \/ PumpUnwind \/ RuntimeDrop \/ UNCHANGED recvVars
      BY <3>4, Zenon DEF PumpReturn, PumpUnwind, PumpDrop, RuntimeDrop, recvVars
    <3> QED
      BY <3>1, <3>2, <3>3, <3>4, Steps DEF vars
  <2> QED
    BY <2>1, <2>2 DEF Over
<1>2. CASE ~ended
  <2>1. ASSUME NEW t \in Threads, RecvEnd(t), ended' PROVE Over'
    <3>1. chan = <<>> /\ ~PumpRuns /\ chan' = chan /\ waiting # {} /\ UNCHANGED subVars
      BY <1>2, <2>1 DEF RecvEnd, Take
    <3>2. pop # "idle" /\ pop' = pop
      BY <3>1 DEF Before, subVars
    <3> QED
      BY <3>1, <3>2 DEF Over, PumpRuns
  <2>2. ASSUME NEW t \in Threads, ThreadKinds(t), ~RecvEnd(t) PROVE ended' = ended
    BY <2>2, Zenon DEF ThreadKinds, Clone, Delete, TryRecv, Take, RecvBegin
  <2>3. ASSUME NEW t \in Threads, NEW c \in Capacities, New(t, c) PROVE ended' = ended
    BY <2>3, Zenon DEF New
  <2>4. CASE PumpPush \/ PumpReturn \/ PumpUnwind \/ RuntimeDrop \/ UNCHANGED recvVars
    <3>1. ended' = ended
      BY <2>4, Zenon DEF PumpPush, PumpReturn, PumpUnwind, PumpDrop, RuntimeDrop, recvVars
    <3> QED
      BY <1>2, <3>1 DEF Over
  <2>5. ended' = ended => Over'
    BY <1>2 DEF Over
  <2> QED
    BY <2>1, <2>2, <2>3, <2>4, <2>5, Steps DEF vars, Over
<1> QED
  BY <1>1, <1>2

-----------------------------------------------------------------------------
(* The types and the strengthening hold in every reachable state.          *)
THEOREM Invariant == Spec => []IInv
<1>1. TypeOK <=> SubTypeOK /\ RecvTypes
  BY DEF TypeOK, RecvTypes
<1>2. Init => IInv
  <2> SUFFICES ASSUME Init PROVE IInv
    OBVIOUS
  <2>1. Bools /\ ended \in BOOLEAN /\ ~ended
    BY Zenon DEF Init, SubInit, Bools
  <2>2. /\ buffer = <<>> /\ queued = <<>> /\ unsubs = 0 /\ signal = 0 /\ tokens = 0
        /\ sent = 0 /\ box = "held" /\ pop = "idle" /\ result = Null
        /\ receivers = {} /\ waiting = {} /\ cap = 0 /\ chan = <<>>
        /\ nulls = [t \in Threads |-> 0] /\ pushed = <<>> /\ lost = <<>> /\ taken = <<>>
    BY Zenon DEF Init, SubInit
  <2>3. SubTypeOK
    BY <2>1, <2>2, SubAssumption, EmptyFits DEF SubTypeOK, Bools
  <2>4. RecvTypes
    <3>1. taken \in Seq(Threads \X (1..MaxMsgs))
      BY <2>2, EmptySeq
    <3> QED
      BY <2>1, <2>2, <3>1, ReceiverAssumption, EmptyFits DEF RecvTypes
  <2>5. Asked /\ PumpOutlivesReceivers
    BY DEF Init, SubInit, Asked, PumpOutlivesReceivers, PumpRuns
  <2>6. Before /\ Over /\ Ledger
    BY <2>1, <2>2 DEF Before, Over, Ledger, EachTakenOnce
  <2>7. Fits
    <3>1. Len(chan) = 0 /\ IsFiniteSet(waiting) /\ Cardinality(waiting) = 0
      BY <2>2, FS_EmptySet
    <3> QED
      BY <2>2, <3>1 DEF Fits, Limit
  <2> QED
    BY <1>1, <2>3, <2>4, <2>5, <2>6, <2>7 DEF IInv
<1>3. IInv /\ [Next]_vars => IInv'
  <2> SUFFICES ASSUME IInv, [Next]_vars PROVE IInv'
    OBVIOUS
  <2>1. SubTypeOK'
    <3>1. CASE UNCHANGED subVars
      BY <1>1, <3>1 DEF IInv, SubTypeOK, subVars
    <3> QED
      BY <1>1, <3>1, Steps, ThreadsApart, SubTypeStep, PumpTypeStep DEF IInv, vars
  <2>2. RecvTypes'
    BY <1>1, RecvTypeStep DEF IInv
  <2>3. TypeOK'
    BY <2>1, <2>2 DEF TypeOK, RecvTypes
  <2> QED
    BY <1>1, <2>3, AskedStep, BeforeStep, LedgerStep, FitsStep, OverStep DEF IInv
<1> QED
  BY <1>2, <1>3, PTL DEF Spec

(* What the threads took, in order, followed by what is in the channel, is *)
(* what the pump pushed: no message is taken twice or skipped.             *)
THEOREM TakenOnce == Spec => []EachTakenOnce
<1>1. IInv => EachTakenOnce
  BY DEF IInv, Ledger
<1> QED
  BY <1>1, Invariant, PTL

(* Destroying Receivers, in any order, never ends the pump.                *)
THEOREM PumpOutlives == Spec => []PumpOutlivesReceivers
<1>1. IInv => PumpOutlivesReceivers
  BY DEF IInv
<1> QED
  BY <1>1, Invariant, PTL

(* A message is dropped only when the channel is full, which with capacity *)
(* 0 means that no waiting thread is left without one, or when nobody is   *)
(* there to take it.                                                       *)
THEOREM LossOnlyWhenFull == Spec => LossMeansFull
<1>1. ASSUME IInv, [Next]_vars, lost' # lost, receivers # {}
      PROVE  Len(pushed) - Len(taken) = Limit
  <2>1. PumpPush /\ ~Room
    <3>1. ASSUME NEW t \in Threads, ThreadKinds(t) PROVE lost' = lost
      BY <3>1, Zenon DEF ThreadKinds, Clone, Delete, TryRecv, Take, RecvBegin, RecvEnd
    <3>2. ASSUME NEW t \in Threads, NEW c \in Capacities, New(t, c) PROVE lost' = lost
      BY <3>2, Zenon DEF New
    <3>3. CASE PumpReturn \/ PumpUnwind \/ RuntimeDrop \/ UNCHANGED recvVars
      BY <1>1, <3>3, Zenon DEF PumpReturn, PumpUnwind, PumpDrop, RuntimeDrop, recvVars
    <3> QED
      BY <1>1, <3>1, <3>2, <3>3, Steps DEF vars, PumpPush
  <2>2. RecvTypes
    BY <1>1 DEF IInv, TypeOK, RecvTypes
  <2>3. cap \in Nat /\ chan \in Seq(1..MaxMsgs) /\ Len(chan) \in Nat
    BY <2>2, ReceiverAssumption DEF RecvTypes
  <2>4. Cardinality(waiting) \in Nat /\ Len(chan) <= Limit
    BY <1>1, FS_CardinalityType DEF IInv, Fits
  <2>5. Len(chan) = Limit
    BY <1>1, <2>1, <2>3, <2>4 DEF Room, Limit
  <2>6. pushed = TakenMsgs \o chan
    BY <1>1 DEF IInv, Ledger, EachTakenOnce
  <2>7. TakenMsgs \in Seq(1..MaxMsgs) /\ Len(TakenMsgs) = Len(taken)
    BY <2>2, TakenIsSeq
  <2>8. Len(pushed) = Len(taken) + Len(chan) /\ Len(taken) \in Nat
    <3>1. Len(TakenMsgs \o chan) = Len(TakenMsgs) + Len(chan)
      BY <2>3, <2>7, ConcatProperties
    <3>2. Len(TakenMsgs) \in Nat
      BY <2>7
    <3> QED
      BY <2>6, <2>7, <3>1, <3>2
  <2> QED
    BY <2>3, <2>5, <2>8
<1>2. IInv /\ [Next]_vars =>
        [lost' # lost => Len(pushed) - Len(taken) = Limit \/ receivers = {}]_vars
  BY <1>1
<1> QED
  BY <1>2, Invariant, PTL DEF Spec, LossMeansFull

-----------------------------------------------------------------------------
(* Every step of the Receiver is a step of the stream or a stutter.        *)
LEMMA RefinementStep ==
  ASSUME IInv, [Next]_vars
  PROVE  [Stream!Next]_(Stream!vars)
<1>0. RecvTypes /\ (receivers # {} => pop # "idle")
  BY DEF IInv, TypeOK, RecvTypes, Before
<1>1. ASSUME UNCHANGED <<chan, taken, ended>>,
             (receivers' = {} /\ pop' # "idle") = (receivers = {} /\ pop # "idle")
      PROVE  UNCHANGED Stream!vars
  BY <1>1 DEF Stream!vars, TakenMsgs
<1>2. ASSUME UNCHANGED <<chan, taken, ended, receivers>>, (pop' = "idle") = (pop = "idle")
      PROVE  UNCHANGED Stream!vars
  BY <1>1, <1>2
<1>3. ASSUME SubKinds PROVE (pop' = "idle") = (pop = "idle")
  BY <1>3 DEF SubKinds, linkVars, Dispatch, HandlerUnsubscribe, HandlerStop, GetToken,
     CloneToken, DeleteToken, TokenStep, Cancel, PopNext, PopShutdown, PopUnsubscribe
<1>4. CASE SubKinds /\ UNCHANGED recvVars
  BY <1>2, <1>3, <1>4 DEF recvVars
<1>5. CASE PumpReturn \/ PumpUnwind \/ RuntimeDrop
  <2>1. UNCHANGED recvVars /\ (pop' = "idle") = (pop = "idle")
    BY <1>5 DEF PumpReturn, PumpUnwind, PumpDrop, RuntimeDrop, PumpRuns
  <2> QED
    BY <1>2, <2>1 DEF recvVars
<1>6. CASE PumpPush
  <2>1. /\ pop = "ret" /\ pop' = "next" /\ result \in 1..MaxMsgs
        /\ UNCHANGED <<taken, ended, receivers>>
    BY <1>6 DEF PumpPush, IInv, TypeOK, SubTypeOK
  <2>2. CASE chan' = chan
    BY <1>2, <2>1, <2>2
  <2>3. CASE Room /\ chan' = Append(chan, result)
    <3>1. receivers # {} /\ ~ended /\ TakenMsgs' = TakenMsgs
      BY <2>1, <2>3 DEF Room, IInv, Over, PumpRuns, TakenMsgs
    <3>2. Stream!Accept(result)
      BY <2>1, <2>3, <3>1 DEF Stream!Accept
    <3> QED
      BY <2>1, <3>2 DEF Stream!Next
  <2> QED
    BY <1>6, <2>2, <2>3 DEF PumpPush
<1>7. ASSUME NEW t \in Threads, NEW c \in Capacities, New(t, c)
      PROVE  UNCHANGED Stream!vars
  <2>1. pop = "idle" /\ receivers' = {t} /\ UNCHANGED <<chan, taken, ended>>
    BY <1>7, Zenon DEF New
  <2> QED
    BY <1>1, <2>1
<1>8. ASSUME NEW t \in Threads, NEW u \in Threads, Clone(t, u)
      PROVE  UNCHANGED Stream!vars
  <2>1. receivers # {} /\ receivers' # {} /\ UNCHANGED <<chan, taken, ended>>
    BY <1>8 DEF Clone
  <2> QED
    BY <1>1, <2>1
<1>9. ASSUME NEW t \in Threads, Delete(t) PROVE [Stream!Next]_(Stream!vars)
  <2>1. /\ t \in receivers /\ receivers' = receivers \ {t} /\ pop' = pop
        /\ chan' = (IF receivers = {t} THEN <<>> ELSE chan)
        /\ UNCHANGED <<taken, ended>>
    BY <1>9, Zenon DEF Delete, subVars
  <2>2. CASE receivers = {t}
    <3>1. receivers' = {} /\ chan' = <<>> /\ pop' # "idle" /\ TakenMsgs' = TakenMsgs
      BY <1>0, <2>1, <2>2 DEF TakenMsgs
    <3>2. Stream!Discard
      BY <2>1, <3>1 DEF Stream!Discard
    <3> QED
      BY <3>2 DEF Stream!Next
  <2>3. CASE receivers # {t}
    <3>1. receivers # {} /\ receivers' # {} /\ chan' = chan
      BY <2>1, <2>3
    <3> QED
      BY <1>1, <2>1, <3>1
  <2> QED
    BY <2>2, <2>3
<1>10. ASSUME NEW t \in Threads, chan # <<>>, Take(t), UNCHANGED subVars
       PROVE  Stream!Deliver
  <2>1. /\ TakenMsgs' = Append(TakenMsgs, Head(chan)) /\ chan' = Tail(chan)
        /\ receivers' = receivers /\ ended' = ended
    BY <1>0, <1>10, TakeMoves DEF Take
  <2>2. receivers # {} /\ ~ended
    BY <1>10 DEF IInv, Ledger, Over
  <2>3. pop' = pop
    BY <1>10 DEF subVars
  <2> QED
    BY <1>10, <2>1, <2>2, <2>3 DEF Stream!Deliver
<1>11. ASSUME NEW t \in Threads, RecvEnd(t) PROVE [Stream!Next]_(Stream!vars)
  <2>1. CASE chan # <<>> /\ Take(t)
    BY <1>10, <1>11, <2>1 DEF RecvEnd, Stream!Next
  <2>2. CASE chan = <<>> /\ ended' = TRUE /\ UNCHANGED <<receivers, chan, taken>>
    <3>1. receivers # {} /\ receivers' # {} /\ TakenMsgs' = TakenMsgs
      BY <1>0, <1>11, <2>2 DEF RecvEnd, RecvTypes, TakenMsgs
    <3>2. Stream!End
      BY <2>2, <3>1, Zenon DEF Stream!End
    <3> QED
      BY <3>2 DEF Stream!Next
  <2> QED
    BY <1>11, <2>1, <2>2, Zenon DEF RecvEnd
<1>12. ASSUME NEW t \in Threads, TryRecv(t) PROVE [Stream!Next]_(Stream!vars)
  <2>1. CASE chan # <<>> /\ Take(t)
    BY <1>10, <1>12, <2>1 DEF TryRecv, Stream!Next
  <2>2. CASE UNCHANGED <<receivers, chan, ended, taken>>
    BY <1>2, <1>12, <2>2 DEF TryRecv, subVars
  <2> QED
    BY <1>12, <2>1, <2>2, Zenon DEF TryRecv
<1>13. ASSUME NEW t \in Threads, RecvBegin(t) PROVE UNCHANGED Stream!vars
  BY <1>2, <1>13 DEF RecvBegin, subVars
<1>14. CASE UNCHANGED vars
  BY <1>2, <1>14 DEF vars, subVars, recvVars
<1> QED
  BY <1>4, <1>5, <1>6, <1>7, <1>8, <1>9, <1>11, <1>12, <1>13, <1>14, Steps DEF ThreadKinds

(* nonblocking::Receiver, with its pump, its channel and all its clones,   *)
(* implements one FIFO stream.                                             *)
THEOREM Refinement == Spec => ImplementsStream
<1>1. Init => Stream!Init
  <2> SUFFICES ASSUME Init PROVE Stream!Init
    OBVIOUS
  <2>1. taken = <<>> /\ chan = <<>> /\ pop = "idle" /\ ended = FALSE
    BY Zenon DEF Init, SubInit
  <2>2. TakenMsgs = <<>>
    BY <2>1 DEF TakenMsgs
  <2> QED
    BY <2>1, <2>2, Zenon DEF Stream!Init
<1> QED
  BY <1>1, Invariant, RefinementStep, PTL DEF Spec, ImplementsStream, Stream!Spec

-----------------------------------------------------------------------------
(* A cancel is kept until the subscription is closed: its signal is in the *)
(* shutdown channel, or the pump is unsubscribing or unwinding.  Only what *)
(* closes the subscription lets its box go.                                *)
CancelKept ==
  /\ cancelled => signal > 0 \/ pop \in {"unsub", "panicked"} \/ closed
  /\ box = "gone" => closed

(* Closing is final, and nothing enters the stream afterwards.             *)
ClosedForGood == [][closed => closed' /\ queued' = queued]_vars

(* One step after the subscription was closed.                             *)
LEMMA ClosedStep ==
  ASSUME closed, [Next]_vars
  PROVE  closed' /\ queued' = queued
<1>1. CASE SubKinds
  BY <1>1, Zenon DEF SubKinds, linkVars, Dispatch, HandlerUnsubscribe, HandlerStop,
     GetToken, CloneToken, DeleteToken, TokenStep, Cancel, PopNext, PopShutdown,
     PopUnsubscribe, Unsubscribe
<1>2. CASE PumpPush \/ PumpReturn \/ PumpUnwind \/ RuntimeDrop
  BY <1>2, Zenon DEF linkVars, PumpPush, PumpReturn, PumpUnwind, PumpDrop,
     DropSubscriber, RuntimeDrop
<1>3. ASSUME NEW t \in Threads, NEW c \in Capacities, New(t, c)
      PROVE  closed' /\ queued' = queued
  BY <1>3, Zenon DEF New, DropSubscriber
<1>4. CASE UNCHANGED subVars
  BY <1>4, Zenon DEF subVars
<1> QED
  BY <1>1, <1>2, <1>3, <1>4, Steps, ThreadsApart DEF vars

(* Every step keeps the cancel.                                            *)
LEMMA KeptStep ==
  ASSUME CancelKept, [Next]_vars
  PROVE  CancelKept'
<1>0. closed => closed'
  BY ClosedStep
<1>1. CASE Cancel
  <2>1. /\ UNCHANGED <<pop, closed, box>>
        /\ signal' = IF box = "gone" THEN signal ELSE 1
    BY <1>1, Zenon DEF Cancel
  <2> QED
    BY <2>1 DEF CancelKept
<1>2. CASE \/ Dispatch \/ HandlerUnsubscribe \/ HandlerStop
           \/ GetToken \/ CloneToken \/ DeleteToken \/ UNCHANGED subVars
  <2>1. UNCHANGED <<pop, closed, signal, cancelled, box>>
    BY <1>2, Zenon DEF Dispatch, HandlerUnsubscribe, HandlerStop, GetToken,
       CloneToken, DeleteToken, TokenStep, subVars
  <2> QED
    BY <2>1 DEF CancelKept
<1>3. CASE PopNext
  BY <1>3 DEF PopNext, linkVars, CancelKept
<1>4. CASE PopShutdown
  BY <1>4 DEF PopShutdown, SdReady, linkVars, CancelKept
<1>5. CASE PopUnsubscribe
  <2>1. /\ UNCHANGED <<signal, cancelled, box>>
        /\ (closed' /\ pop' = "next") \/ pop' = "panicked"
    BY <1>5, Zenon DEF PopUnsubscribe, Unsubscribe
  <2> QED
    BY <1>0, <2>1 DEF CancelKept
<1>6. CASE PumpPush
  <2>1. UNCHANGED <<signal, cancelled, box, closed>> /\ pop = "ret"
    BY <1>6, Zenon DEF PumpPush
  <2> QED
    BY <2>1 DEF CancelKept
<1>7. CASE PumpReturn \/ PumpUnwind
  <2>1. closed'
    BY <1>7, Zenon DEF PumpReturn, PumpUnwind, PumpDrop, DropSubscriber
  <2> QED
    BY <2>1 DEF CancelKept
<1>8. CASE RuntimeDrop
  <2>1. closed' \/ UNCHANGED <<pop, signal, cancelled, box, closed>>
    BY <1>8, Zenon DEF RuntimeDrop
  <2> QED
    BY <2>1 DEF CancelKept
<1>9. ASSUME NEW t \in Threads, NEW c \in Capacities, New(t, c)
      PROVE  CancelKept'
  <2>1. /\ pop = "idle" /\ UNCHANGED <<signal, cancelled>>
        /\ closed' \/ UNCHANGED <<closed, box>>
    BY <1>9, Zenon DEF New, DropSubscriber
  <2> QED
    BY <2>1 DEF CancelKept
<1> QED
  BY <1>1, <1>2, <1>3, <1>4, <1>5, <1>6, <1>7, <1>8, <1>9, Steps, ThreadsApart
     DEF SubKinds, vars

(* subscribtion.rs:117: a cancel that comes before the Receiver exists,    *)
(* while the pump pushes or between its polls is never lost.               *)
THEOREM CancelNotLost == Spec => []CancelKept
<1>1. Init => CancelKept
  BY DEF Init, SubInit, CancelKept
<1> QED
  BY <1>1, KeptStep, PTL DEF Spec

(* subscribtion.rs:19: nothing enters the stream once `pop` unsubscribed.  *)
THEOREM NothingAfterClose == Spec => ClosedForGood
<1>1. [Next]_vars => [closed => closed' /\ queued' = queued]_vars
  BY ClosedStep
<1> QED
  BY <1>1, PTL DEF Spec, ClosedForGood
=============================================================================
