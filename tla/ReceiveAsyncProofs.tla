------------------------- MODULE ReceiveAsyncProofs -------------------------
(***************************************************************************)
(* Proofs about ReceiveAsync, for any number of messages, receives and     *)
(* tokens and any capacity of the buffer.                                  *)
(*                                                                         *)
(* The inductive invariant traces every unsubscribe to the cancel or the   *)
(* destructor that asked for it, and says that the stream is dry for good  *)
(* from the moment `pop` takes a None.                                     *)
(***************************************************************************)
EXTENDS ReceiveAsync, SequenceTheorems, TLAPS

(* A receive is pending.                                                   *)
Running == pop \in {"next", "sd", "unsub", "ret"}

(* Where an unsubscribe, and the end of the registration, come from.       *)
Asked ==
  /\ closed \/ unsubs > 0 => cancelled \/ box # "held"
  /\ ~registered => cancelled \/ box # "held" \/ ~handler
  /\ signal > 0 \/ pop = "unsub" => cancelled
  /\ pop = "panicked" => cancelled /\ ~handler

(* The client does not destroy what a pending receive borrows.             *)
Borrowed ==
  /\ Running => box = "held"
  /\ box = "gone" => closed

(* Nothing is in the buffer and nothing can enter it any more.             *)
Dry == buffer = <<>> /\ (closed \/ ~registered) /\ (cancelled \/ ~handler)

Last ==
  /\ NullAt # {} \/ (pop = "ret" /\ result = Null) => Dry
  /\ NullAt # {} /\ pop = "ret" => result = Null
  /\ \A i, j \in DOMAIN delivered : i <= j /\ delivered[i] = Null => delivered[j] = Null

IInv == TypeOK /\ Asked /\ Borrowed /\ Last

-----------------------------------------------------------------------------
(* The kinds of step.                                                      *)
LEMMA Steps ==
  ASSUME [Next]_vars
  PROVE  \/ (\/ Dispatch \/ HandlerUnsubscribe \/ HandlerStop
             \/ GetToken \/ CloneToken \/ DeleteToken \/ Cancel
             \/ PopNext \/ PopShutdown \/ PopUnsubscribe
             \/ DeleteUnsubscribe \/ DeleteDrop) /\ UNCHANGED <<receives, delivered>>
         \/ Receive \/ Callback \/ Delete \/ RuntimeDrop
         \/ UNCHANGED vars
BY Zenon DEF Next, LinkStep, TokenNext, Task, PopStep

Bools ==
  /\ runtime \in BOOLEAN /\ handler \in BOOLEAN /\ registered \in BOOLEAN
  /\ closed \in BOOLEAN /\ cancelled \in BOOLEAN

(* The empty buffer.                                                       *)
LEMMA EmptyFits == <<>> \in Seq(1..MaxMsgs) /\ Len(<<>>) <= BufCap
BY SubAssumption

(* Every step preserves the types.                                         *)
LEMMA TypeStep ==
  ASSUME TypeOK, [Next]_vars
  PROVE  TypeOK'
<1> USE SubAssumption, ReceiveAssumption DEF TypeOK, SubTypeOK, linkVars
<1>1. ASSUME Dispatch, UNCHANGED <<receives, delivered>> PROVE TypeOK'
  <2>1. Bools' /\ receives' = receives /\ delivered' = delivered
    BY <1>1, Zenon DEF Dispatch, Bools
  <2>2. /\ sent < MaxMsgs /\ sent' = sent + 1
        /\ \/ /\ Len(buffer) < BufCap
              /\ buffer' = Append(buffer, sent + 1) /\ queued' = Append(queued, sent + 1)
           \/ UNCHANGED <<buffer, queued>>
        /\ UNCHANGED <<unsubs, signal, tokens, box, pop, result>>
    BY <1>1, Zenon DEF Dispatch
  <2>3. buffer' \in Seq(1..MaxMsgs) /\ Len(buffer') <= BufCap /\ queued' \in Seq(1..MaxMsgs)
    <3>1. CASE UNCHANGED <<buffer, queued>>
      BY <3>1
    <3>2. CASE /\ Len(buffer) < BufCap /\ buffer' = Append(buffer, sent + 1)
               /\ queued' = Append(queued, sent + 1)
      <4>1. sent + 1 \in 1..MaxMsgs
        BY <2>2
      <4> QED
        BY <3>2, <4>1
    <3> QED
      BY <2>2, <3>1, <3>2, Zenon
  <2> QED
    BY <2>1, <2>2, <2>3 DEF Bools
<1>2. ASSUME HandlerUnsubscribe, UNCHANGED <<receives, delivered>> PROVE TypeOK'
  <2>1. Bools' /\ receives' = receives /\ delivered' = delivered
    BY <1>2, Zenon DEF HandlerUnsubscribe, Bools
  <2>2. /\ unsubs > 0 /\ unsubs' = unsubs - 1
        /\ UNCHANGED <<buffer, signal, tokens, box, pop, result, sent, queued>>
    BY <1>2, Zenon DEF HandlerUnsubscribe
  <2> QED
    BY <2>1, <2>2 DEF Bools
<1>3. ASSUME HandlerStop, UNCHANGED <<receives, delivered>> PROVE TypeOK'
  BY <1>3 DEF HandlerStop
<1>4. ASSUME GetToken, UNCHANGED <<receives, delivered>> PROVE TypeOK'
  BY <1>4 DEF GetToken, TokenStep
<1>5. ASSUME CloneToken, UNCHANGED <<receives, delivered>> PROVE TypeOK'
  BY <1>5 DEF CloneToken, TokenStep
<1>6. ASSUME DeleteToken, UNCHANGED <<receives, delivered>> PROVE TypeOK'
  BY <1>6 DEF DeleteToken, TokenStep
<1>7. ASSUME Cancel, UNCHANGED <<receives, delivered>> PROVE TypeOK'
  BY <1>7 DEF Cancel
<1>8. ASSUME PopNext, UNCHANGED <<receives, delivered>> PROVE TypeOK'
  <2>1. Bools' /\ receives' = receives /\ delivered' = delivered
    BY <1>8, Zenon DEF PopNext, NextReady, Bools
  <2>2. /\ pop' \in {"ret", "sd"}
        /\ \/ /\ result' = IF buffer = <<>> THEN Null ELSE Head(buffer)
              /\ buffer' = IF buffer = <<>> THEN <<>> ELSE Tail(buffer)
           \/ UNCHANGED <<result, buffer>>
        /\ UNCHANGED <<unsubs, signal, tokens, box, sent, queued>>
    BY <1>8, Zenon DEF PopNext, NextReady
  <2>3. /\ buffer' \in Seq(1..MaxMsgs) /\ Len(buffer') <= BufCap
        /\ result' \in 1..MaxMsgs \cup {Null}
    <3>1. CASE UNCHANGED <<result, buffer>>
      BY <3>1
    <3>2. CASE buffer = <<>> /\ buffer' = <<>> /\ result' = Null
      BY <3>2, EmptyFits
    <3>3. CASE buffer # <<>> /\ buffer' = Tail(buffer) /\ result' = Head(buffer)
      BY <3>3
    <3> QED
      BY <2>2, <3>1, <3>2, <3>3, Zenon
  <2> QED
    BY <2>1, <2>2, <2>3 DEF Bools
<1>9. ASSUME PopShutdown, UNCHANGED <<receives, delivered>> PROVE TypeOK'
  BY <1>9 DEF PopShutdown, SdReady, SdSenderAlive
<1>10. ASSUME PopUnsubscribe, UNCHANGED <<receives, delivered>> PROVE TypeOK'
  <2>1. Bools' /\ receives' = receives /\ delivered' = delivered
    BY <1>10, Zenon DEF PopUnsubscribe, Unsubscribe, Bools
  <2>2. /\ pop' \in {"next", "panicked"} /\ unsubs' \in {unsubs, unsubs + 1}
        /\ UNCHANGED <<buffer, signal, tokens, box, result, sent, queued>>
    BY <1>10, Zenon DEF PopUnsubscribe, Unsubscribe
  <2> QED
    BY <2>1, <2>2 DEF Bools
<1>11. ASSUME DeleteUnsubscribe, UNCHANGED <<receives, delivered>> PROVE TypeOK'
  <2>1. Bools' /\ receives' = receives /\ delivered' = delivered
    BY <1>11, Zenon DEF DeleteUnsubscribe, Unsubscribe, Bools
  <2>2. /\ box' = "dropping" /\ unsubs' \in {unsubs, unsubs + 1}
        /\ UNCHANGED <<buffer, signal, tokens, pop, result, sent, queued>>
    BY <1>11, Zenon DEF DeleteUnsubscribe, Unsubscribe
  <2> QED
    BY <2>1, <2>2 DEF Bools
<1>12. ASSUME DeleteDrop, UNCHANGED <<receives, delivered>> PROVE TypeOK'
  BY <1>12 DEF DeleteDrop, DropSubscriber
<1>13. ASSUME Delete PROVE TypeOK'
  <2>1. Bools' /\ receives' = receives /\ delivered' = delivered
    BY <1>13, Zenon DEF Delete, DeleteCall, DropSubscriber, Bools
  <2>2. /\ box' \in {"deleting", "gone"} /\ unsubs' \in {unsubs, unsubs + 1}
        /\ buffer' \in {<<>>, buffer}
        /\ UNCHANGED <<signal, tokens, pop, result, sent, queued>>
    BY <1>13, Zenon DEF Delete, DeleteCall, DropSubscriber
  <2>3. buffer' \in Seq(1..MaxMsgs) /\ Len(buffer') <= BufCap
    BY <2>2, EmptyFits, Zenon
  <2> QED
    BY <2>1, <2>2, <2>3 DEF Bools
<1>14. ASSUME Receive PROVE TypeOK'
  BY <1>14 DEF Receive
<1>15. ASSUME Callback PROVE TypeOK'
  BY <1>15 DEF Callback
<1>16. ASSUME RuntimeDrop PROVE TypeOK'
  <2>1. Bools' /\ receives' = receives /\ delivered' = delivered
    BY <1>16, Zenon DEF RuntimeDrop, Bools
  <2>2. /\ box' \in {"gone", box} /\ unsubs' = 0 /\ buffer' \in {<<>>, buffer}
        /\ pop' \in {"lost", pop}
        /\ UNCHANGED <<signal, tokens, result, sent, queued>>
    BY <1>16, Zenon DEF RuntimeDrop
  <2>3. buffer' \in Seq(1..MaxMsgs) /\ Len(buffer') <= BufCap
    BY <2>2, EmptyFits, Zenon
  <2> QED
    BY <2>1, <2>2, <2>3 DEF Bools
<1>17. CASE UNCHANGED vars
  BY <1>17 DEF vars, subVars
<1> QED
  BY <1>1, <1>2, <1>3, <1>4, <1>5, <1>6, <1>7, <1>8, <1>9, <1>10,
     <1>11, <1>12, <1>13, <1>14, <1>15, <1>16, <1>17, Steps

(* Every step preserves where an unsubscribe comes from.                   *)
LEMMA AskedStep ==
  ASSUME TypeOK, Asked, Borrowed, [Next]_vars
  PROVE  Asked'
<1> USE DEF Asked, Borrowed, Running, TypeOK, SubTypeOK, linkVars
<1>1. ASSUME Dispatch, UNCHANGED <<receives, delivered>> PROVE Asked'
  BY <1>1 DEF Dispatch
<1>2. ASSUME HandlerUnsubscribe, UNCHANGED <<receives, delivered>> PROVE Asked'
  BY <1>2 DEF HandlerUnsubscribe
<1>3. ASSUME HandlerStop, UNCHANGED <<receives, delivered>> PROVE Asked'
  BY <1>3 DEF HandlerStop
<1>4. ASSUME GetToken, UNCHANGED <<receives, delivered>> PROVE Asked'
  BY <1>4 DEF GetToken, TokenStep
<1>5. ASSUME CloneToken, UNCHANGED <<receives, delivered>> PROVE Asked'
  BY <1>5 DEF CloneToken, TokenStep
<1>6. ASSUME DeleteToken, UNCHANGED <<receives, delivered>> PROVE Asked'
  BY <1>6 DEF DeleteToken, TokenStep
<1>7. ASSUME Cancel, UNCHANGED <<receives, delivered>> PROVE Asked'
  BY <1>7 DEF Cancel
<1>8. ASSUME PopNext, UNCHANGED <<receives, delivered>> PROVE Asked'
  BY <1>8 DEF PopNext, NextReady
<1>9. ASSUME PopShutdown, UNCHANGED <<receives, delivered>> PROVE Asked'
  BY <1>9 DEF PopShutdown, SdReady, SdSenderAlive
<1>10. ASSUME PopUnsubscribe, UNCHANGED <<receives, delivered>> PROVE Asked'
  BY <1>10 DEF PopUnsubscribe, Unsubscribe
<1>11. ASSUME DeleteUnsubscribe, UNCHANGED <<receives, delivered>> PROVE Asked'
  BY <1>11 DEF DeleteUnsubscribe, Unsubscribe
<1>12. ASSUME DeleteDrop, UNCHANGED <<receives, delivered>> PROVE Asked'
  BY <1>12 DEF DeleteDrop, DropSubscriber
<1>13. ASSUME Delete PROVE Asked'
  BY <1>13 DEF Delete, DeleteCall, DropSubscriber
<1>14. ASSUME Receive PROVE Asked'
  BY <1>14 DEF Receive
<1>15. ASSUME Callback PROVE Asked'
  BY <1>15 DEF Callback
<1>16. ASSUME RuntimeDrop PROVE Asked'
  BY <1>16 DEF RuntimeDrop
<1>17. CASE UNCHANGED vars
  BY <1>17 DEF vars, subVars
<1> QED
  BY <1>1, <1>2, <1>3, <1>4, <1>5, <1>6, <1>7, <1>8, <1>9, <1>10,
     <1>11, <1>12, <1>13, <1>14, <1>15, <1>16, <1>17, Steps

(* Every step preserves what the client promises.                          *)
LEMMA BorrowedStep ==
  ASSUME TypeOK, Borrowed, [Next]_vars
  PROVE  Borrowed'
<1> USE DEF Borrowed, Running, TypeOK, SubTypeOK, linkVars
<1>1. ASSUME Dispatch, UNCHANGED <<receives, delivered>> PROVE Borrowed'
  BY <1>1 DEF Dispatch
<1>2. ASSUME HandlerUnsubscribe, UNCHANGED <<receives, delivered>> PROVE Borrowed'
  BY <1>2 DEF HandlerUnsubscribe
<1>3. ASSUME HandlerStop, UNCHANGED <<receives, delivered>> PROVE Borrowed'
  BY <1>3 DEF HandlerStop
<1>4. ASSUME GetToken, UNCHANGED <<receives, delivered>> PROVE Borrowed'
  BY <1>4 DEF GetToken, TokenStep
<1>5. ASSUME CloneToken, UNCHANGED <<receives, delivered>> PROVE Borrowed'
  BY <1>5 DEF CloneToken, TokenStep
<1>6. ASSUME DeleteToken, UNCHANGED <<receives, delivered>> PROVE Borrowed'
  BY <1>6 DEF DeleteToken, TokenStep
<1>7. ASSUME Cancel, UNCHANGED <<receives, delivered>> PROVE Borrowed'
  BY <1>7 DEF Cancel
<1>8. ASSUME PopNext, UNCHANGED <<receives, delivered>> PROVE Borrowed'
  BY <1>8 DEF PopNext, NextReady
<1>9. ASSUME PopShutdown, UNCHANGED <<receives, delivered>> PROVE Borrowed'
  BY <1>9 DEF PopShutdown, SdReady, SdSenderAlive
<1>10. ASSUME PopUnsubscribe, UNCHANGED <<receives, delivered>> PROVE Borrowed'
  BY <1>10 DEF PopUnsubscribe, Unsubscribe
<1>11. ASSUME DeleteUnsubscribe, UNCHANGED <<receives, delivered>> PROVE Borrowed'
  BY <1>11 DEF DeleteUnsubscribe, Unsubscribe
<1>12. ASSUME DeleteDrop, UNCHANGED <<receives, delivered>> PROVE Borrowed'
  BY <1>12 DEF DeleteDrop, DropSubscriber
<1>13. ASSUME Delete PROVE Borrowed'
  BY <1>13 DEF Delete, DeleteCall, DropSubscriber
<1>14. ASSUME Receive PROVE Borrowed'
  BY <1>14 DEF Receive
<1>15. ASSUME Callback PROVE Borrowed'
  BY <1>15 DEF Callback
<1>16. ASSUME RuntimeDrop PROVE Borrowed'
  BY <1>16 DEF RuntimeDrop
<1>17. CASE UNCHANGED vars
  BY <1>17 DEF vars, subVars
<1> QED
  BY <1>1, <1>2, <1>3, <1>4, <1>5, <1>6, <1>7, <1>8, <1>9, <1>10,
     <1>11, <1>12, <1>13, <1>14, <1>15, <1>16, <1>17, Steps

(* A stream that is dry stays dry.                                         *)
LEMMA DryStep ==
  ASSUME Dry, [Next]_vars
  PROVE  Dry'
<1> USE DEF Dry, linkVars
<1>1. CASE Dispatch \/ HandlerUnsubscribe \/ HandlerStop
  BY <1>1 DEF Dispatch, HandlerUnsubscribe, HandlerStop
<1>2. CASE GetToken \/ CloneToken \/ DeleteToken \/ Cancel
  BY <1>2 DEF GetToken, CloneToken, DeleteToken, TokenStep, Cancel
<1>3. CASE PopNext \/ PopShutdown \/ PopUnsubscribe
  BY <1>3 DEF PopNext, PopShutdown, PopUnsubscribe, Unsubscribe
<1>4. CASE DeleteUnsubscribe \/ DeleteDrop \/ Delete
  BY <1>4 DEF DeleteUnsubscribe, Unsubscribe, DeleteDrop, Delete, DeleteCall,
     DropSubscriber
<1>5. CASE Receive \/ Callback \/ RuntimeDrop
  BY <1>5 DEF Receive, Callback, RuntimeDrop
<1>6. CASE UNCHANGED vars
  BY <1>6 DEF vars, subVars
<1> QED
  BY <1>1, <1>2, <1>3, <1>4, <1>5, <1>6, Steps

(* Only `pop` makes a result, and only the callback hands it out.          *)
LEMMA ReturnStep ==
  ASSUME [Next]_vars
  PROVE  \/ Callback
         \/ PopNext /\ delivered' = delivered
         \/ delivered' = delivered /\ (pop' = "ret" => pop = "ret" /\ result' = result)
<1> USE DEF linkVars
<1>1. CASE (Dispatch \/ HandlerUnsubscribe \/ HandlerStop) /\ UNCHANGED <<receives, delivered>>
  BY <1>1 DEF Dispatch, HandlerUnsubscribe, HandlerStop
<1>2. CASE /\ GetToken \/ CloneToken \/ DeleteToken \/ Cancel
           /\ UNCHANGED <<receives, delivered>>
  BY <1>2 DEF GetToken, CloneToken, DeleteToken, TokenStep, Cancel
<1>3. CASE (PopNext \/ PopShutdown \/ PopUnsubscribe) /\ UNCHANGED <<receives, delivered>>
  BY <1>3 DEF PopShutdown, PopUnsubscribe
<1>4. CASE (DeleteUnsubscribe \/ DeleteDrop) /\ UNCHANGED <<receives, delivered>>
  BY <1>4 DEF DeleteUnsubscribe, DeleteDrop
<1>5. CASE Delete \/ Receive \/ Callback \/ RuntimeDrop
  BY <1>5 DEF Delete, DeleteCall, Receive, RuntimeDrop
<1>6. CASE UNCHANGED vars
  BY <1>6 DEF vars, subVars
<1> QED
  BY <1>1, <1>2, <1>3, <1>4, <1>5, <1>6, Steps

(* `pop` takes a None only from a stream that is dry.                      *)
LEMMA NoneIsDry ==
  ASSUME TypeOK, Asked, Borrowed, PopNext, pop' = "ret", result' = Null
  PROVE  Dry'
<1>1. NextReady /\ result' = IF buffer = <<>> THEN Null ELSE Head(buffer)
  BY DEF PopNext
<1>2. buffer = <<>>
  <2>1. ASSUME buffer # <<>> PROVE Head(buffer) \in Nat
    BY <2>1, SubAssumption DEF TypeOK, SubTypeOK
  <2> QED
    BY <1>1, <2>1, SubAssumption
<1>3. box = "held"
  BY DEF PopNext, Borrowed, Running
<1> QED
  BY <1>1, <1>2, <1>3 DEF NextReady, Asked, Dry, PopNext, linkVars

(* Every step preserves that the null message is the last.                 *)
LEMMA LastStep ==
  ASSUME TypeOK, Asked, Borrowed, Last, [Next]_vars
  PROVE  Last'
<1>1. CASE PopNext /\ delivered' = delivered
  <2>1. NullAt' = NullAt
    BY <1>1 DEF NullAt
  <2>2. NullAt # {} => Dry'
    BY DryStep DEF Last
  <2>3. NullAt # {} /\ pop' = "ret" => result' = Null
    BY <1>1 DEF Last, Dry, PopNext
  <2>4. pop' = "ret" /\ result' = Null => Dry'
    BY <1>1, NoneIsDry
  <2> QED
    BY <1>1, <2>1, <2>2, <2>3, <2>4 DEF Last
<1>2. CASE delivered' = delivered /\ (pop' = "ret" => pop = "ret" /\ result' = result)
  <2>1. NullAt' = NullAt
    BY <1>2 DEF NullAt
  <2> QED
    BY <1>2, <2>1, DryStep DEF Last
<1>3. CASE Callback
  <2>1. pop = "ret" /\ pop' = "idle" /\ delivered' = Append(delivered, result)
    BY <1>3 DEF Callback
  <2>2. /\ DOMAIN delivered = 1..Len(delivered) /\ Len(delivered) \in Nat
        /\ DOMAIN delivered' = 1..(Len(delivered) + 1)
        /\ delivered'[Len(delivered) + 1] = result
        /\ \A i \in 1..Len(delivered) : delivered'[i] = delivered[i]
    BY <2>1 DEF TypeOK
  <2>3. NullAt' # {} => NullAt # {} \/ result = Null
    BY <2>2 DEF NullAt
  <2>4. NullAt' # {} => Dry'
    BY <2>1, <2>3, DryStep DEF Last
  <2>5. ASSUME NEW i \in DOMAIN delivered', NEW j \in DOMAIN delivered',
               i <= j, delivered'[i] = Null
        PROVE  delivered'[j] = Null
    <3>1. CASE j \in 1..Len(delivered)
      BY <2>2, <2>5, <3>1 DEF Last
    <3>2. CASE j = Len(delivered) + 1
      <4>1. CASE i = Len(delivered) + 1
        BY <2>5, <3>2, <4>1
      <4>2. CASE i \in 1..Len(delivered)
        <5>1. i \in NullAt
          BY <2>2, <2>5, <4>2 DEF NullAt
        <5> QED
          BY <2>1, <2>2, <3>2, <5>1 DEF Last
      <4> QED
        BY <2>2, <4>1, <4>2
    <3> QED
      BY <2>2, <3>1, <3>2
  <2> QED
    BY <2>1, <2>4, <2>5 DEF Last
<1> QED
  BY <1>1, <1>2, <1>3, ReturnStep

-----------------------------------------------------------------------------
(* The types and the strengthening hold in every reachable state.          *)
THEOREM Invariant == Spec => []IInv
<1>1. Init => IInv
  <2> SUFFICES ASSUME Init PROVE IInv
    OBVIOUS
  <2>1. TypeOK
    <3>1. Bools
      BY Zenon DEF Init, SubInit, Bools
    <3>2. /\ buffer = <<>> /\ queued = <<>> /\ delivered = <<>>
          /\ unsubs = 0 /\ signal = 0 /\ tokens = 0 /\ sent = 0 /\ receives = 0
          /\ box = "held" /\ pop = "idle" /\ result = Null
      BY Zenon DEF Init, SubInit
    <3>3. delivered \in Seq(1..MaxMsgs \cup {Null})
      BY <3>2
    <3> QED
      BY <3>1, <3>2, <3>3, SubAssumption, ReceiveAssumption, EmptyFits
         DEF Bools, TypeOK, SubTypeOK
  <2>2. Asked /\ Borrowed
    BY DEF Init, SubInit, Asked, Borrowed, Running
  <2>3. Last
    BY DEF Init, SubInit, Last, NullAt
  <2> QED
    BY <2>1, <2>2, <2>3 DEF IInv
<1>2. IInv /\ [Next]_vars => IInv'
  BY TypeStep, AskedStep, BorrowedStep, LastStep DEF IInv
<1> QED
  BY <1>1, <1>2, PTL DEF Spec

(* A null Message is the end of the stream: it comes after a cancel or the *)
(* end of the connection, when nothing is left, and nothing follows it.    *)
THEOREM NullEnds == Spec => []NullIsTheEnd
<1>1. IInv => NullIsTheEnd
  <2> SUFFICES ASSUME IInv, NEW i \in DOMAIN delivered, delivered[i] = Null
               PROVE  /\ cancelled \/ ~handler
                      /\ \A j \in i..Len(delivered) : delivered[j] = Null
                      /\ buffer = <<>>
    BY DEF NullIsTheEnd
  <2>1. i \in NullAt
    BY DEF NullAt
  <2>2. Dry
    BY <2>1 DEF IInv, Last
  <2>3. DOMAIN delivered = 1..Len(delivered) /\ Len(delivered) \in Nat
    BY DEF IInv, TypeOK
  <2>4. \A j \in i..Len(delivered) : j \in DOMAIN delivered /\ i <= j
    BY <2>3
  <2> QED
    BY <2>2, <2>4 DEF Dry, IInv, Last
<1> QED
  BY <1>1, Invariant, PTL

(* Only a cancel or the destructor makes the client unsubscribe.           *)
THEOREM Unsubscribes == Spec => []UnsubscribeIsAsked
<1>1. IInv => UnsubscribeIsAsked
  BY DEF IInv, Asked, UnsubscribeIsAsked
<1> QED
  BY <1>1, Invariant, PTL

-----------------------------------------------------------------------------
(* The stream of ReceiveAsync.                                             *)
Pending == InHand \o buffer
Out     == [i \in MsgAt |-> delivered[i]]

(* What the message in hand and the buffer make together.                  *)
LEMMA PendingParts ==
  ASSUME TypeOK
  PROVE  /\ ~(pop = "ret" /\ result # Null) => Pending = buffer
         /\ pop = "ret" /\ result # Null =>
              /\ Pending # <<>> /\ Head(Pending) = result /\ Tail(Pending) = buffer
<1>1. buffer \in Seq(1..MaxMsgs)
  BY DEF TypeOK, SubTypeOK
<1>2. CASE ~(pop = "ret" /\ result # Null)
  <2>1. InHand = <<>>
    BY <1>2 DEF InHand
  <2> QED
    BY <1>1, <1>2, <2>1 DEF Pending
<1>3. CASE pop = "ret" /\ result # Null
  <2>1. InHand = <<result>> /\ result \in 1..MaxMsgs
    BY <1>3 DEF InHand, TypeOK, SubTypeOK
  <2>2. <<result>> \o buffer # <<>> /\ Head(<<result>> \o buffer) = result
    BY <1>1, <2>1
  <2>3. Tail(<<result>> \o buffer) = buffer
    BY <1>1, <2>1
  <2> QED
    BY <1>3, <2>1, <2>2, <2>3 DEF Pending
<1> QED
  BY <1>2, <1>3

(* A message that enters the buffer enters the stream.                     *)
LEMMA PendingAppend ==
  ASSUME TypeOK, NEW m, buffer' = Append(buffer, m), UNCHANGED <<pop, result>>
  PROVE  Pending' = Append(Pending, m)
<1>1. buffer \in Seq(1..MaxMsgs) /\ InHand' = InHand
  BY DEF TypeOK, SubTypeOK, InHand
<1>2. CASE InHand = <<>>
  BY <1>1, <1>2 DEF Pending
<1>3. CASE InHand = <<result>>
  BY <1>1, <1>3 DEF Pending
<1> QED
  BY <1>2, <1>3 DEF InHand

(* A step that hands nothing out and does not destroy the object.          *)
LEMMA Stutters ==
  ASSUME delivered' = delivered, Pending' = Pending, (box' = "gone") = (box = "gone")
  PROVE  UNCHANGED Stream!vars
<1>1. MsgAt' = MsgAt /\ NullAt' = NullAt
  BY DEF MsgAt, NullAt
<1>2. Out' = Out
  BY <1>1 DEF Out
<1> QED
  BY <1>1, <1>2 DEF Stream!vars, Out, Pending

(* A step that drops the Subscriber discards what is in the stream.        *)
LEMMA Discards ==
  ASSUME TypeOK', delivered' = delivered, box' = "gone", pop' # "ret", buffer' = <<>>
  PROVE  Stream!Discard
<1>1. MsgAt' = MsgAt /\ NullAt' = NullAt
  BY DEF MsgAt, NullAt
<1>2. Out' = Out
  BY <1>1 DEF Out
<1>3. Pending' = <<>>
  <2>1. InHand' = <<>>
    BY DEF InHand
  <2> QED
    BY <2>1 DEF Pending
<1> QED
  BY <1>1, <1>2, <1>3 DEF Stream!Discard, Out, Pending

(* Every step of ReceiveAsync is a step of the stream or a stutter.        *)
LEMMA RefinementStep ==
  ASSUME IInv, IInv', [Next]_vars
  PROVE  [Stream!Next]_(Stream!vars)
<1> USE DEF IInv, linkVars
<1>1. ASSUME Dispatch, delivered' = delivered PROVE [Stream!Next]_(Stream!vars)
  <2>1. UNCHANGED <<pop, result, box>>
    BY <1>1 DEF Dispatch
  <2>2. CASE buffer' = buffer
    <3>1. Pending' = Pending
      BY <2>1, <2>2 DEF Pending, InHand
    <3> QED
      BY <1>1, <2>1, <3>1, Stutters
  <2>3. CASE buffer' = Append(buffer, sent + 1) /\ ~closed /\ registered
    <3>1. sent + 1 \in 1..MaxMsgs
      BY <1>1, SubAssumption DEF Dispatch, TypeOK, SubTypeOK
    <3>2. Pending' = Append(Pending, sent + 1)
      BY <2>1, <2>3, PendingAppend
    <3>3. NullAt = {} /\ box # "gone"
      BY <2>3 DEF Last, Dry, Borrowed
    <3>4. MsgAt' = MsgAt /\ NullAt' = NullAt
      BY <1>1 DEF MsgAt, NullAt
    <3>5. Out' = Out
      BY <1>1, <3>4 DEF Out
    <3>6. Stream!Accept(sent + 1)
      BY <2>1, <3>2, <3>3, <3>4, <3>5 DEF Stream!Accept, Out, Pending
    <3> QED
      BY <3>1, <3>6 DEF Stream!Next
  <2> QED
    BY <1>1, <2>2, <2>3 DEF Dispatch
<1>2. CASE UNCHANGED <<delivered, buffer, pop, result, box>>
  <2>1. Pending' = Pending
    BY <1>2 DEF Pending, InHand
  <2> QED
    BY <1>2, <2>1, Stutters
<1>3. ASSUME PopNext, delivered' = delivered PROVE [Stream!Next]_(Stream!vars)
  <2>1. pop = "next" /\ box' = box
    BY <1>3 DEF PopNext
  <2>2. Pending = buffer
    BY <2>1, PendingParts
  <2>3. CASE pop' = "sd" /\ buffer' = buffer
    <3>1. Pending' = buffer'
      <4>1. InHand' = <<>>
        BY <2>3 DEF InHand
      <4> QED
        BY <2>3, <4>1 DEF Pending, TypeOK, SubTypeOK
    <3> QED
      BY <1>3, <2>1, <2>2, <2>3, <3>1, Stutters
  <2>4. CASE pop' = "ret" /\ buffer = <<>> /\ buffer' = <<>> /\ result' = Null
    <3>1. Pending' = <<>>
      <4>1. InHand' = <<>>
        BY <2>4 DEF InHand
      <4> QED
        BY <2>4, <4>1 DEF Pending
    <3> QED
      BY <1>3, <2>1, <2>2, <2>4, <3>1, Stutters
  <2>5. CASE pop' = "ret" /\ buffer # <<>> /\ buffer' = Tail(buffer) /\ result' = Head(buffer)
    <3>1. buffer \in Seq(1..MaxMsgs) /\ Head(buffer) \in 1..MaxMsgs
      <4>1. buffer \in Seq(1..MaxMsgs)
        BY DEF TypeOK, SubTypeOK
      <4> QED
        BY <2>5, <4>1, HeadTailProperties
    <3>2. Head(buffer) # Null
      BY <3>1, SubAssumption
    <3>3. InHand' = <<Head(buffer)>>
      BY <2>5, <3>2 DEF InHand
    <3>4. Pending' = <<Head(buffer)>> \o Tail(buffer)
      BY <2>5, <3>3 DEF Pending
    <3>5. Pending' = buffer
      BY <2>5, <3>1, <3>4
    <3> QED
      BY <1>3, <2>1, <2>2, <3>5, Stutters
  <2> QED
    BY <1>3, <2>3, <2>4, <2>5 DEF PopNext
<1>4. CASE UNCHANGED <<delivered, buffer, box>> /\ pop # "ret" /\ pop' # "ret"
  <2>1. InHand = <<>> /\ InHand' = <<>>
    BY <1>4 DEF InHand
  <2>2. Pending' = Pending
    BY <1>4, <2>1 DEF Pending
  <2> QED
    BY <1>4, <2>2, Stutters
<1>5. CASE UNCHANGED <<delivered, buffer>> /\ pop # "ret" /\ pop' # "ret"
           /\ box # "gone" /\ box' # "gone"
  <2>1. InHand = <<>> /\ InHand' = <<>>
    BY <1>5 DEF InHand
  <2>2. Pending' = Pending
    BY <1>5, <2>1 DEF Pending
  <2> QED
    BY <1>5, <2>2, Stutters
<1>6. CASE delivered' = delivered /\ box' = "gone" /\ pop' # "ret" /\ buffer' = <<>>
  BY <1>6, Discards DEF Stream!Next
<1>7. ASSUME Callback PROVE [Stream!Next]_(Stream!vars)
  <2>1. /\ pop = "ret" /\ pop' = "idle" /\ delivered' = Append(delivered, result)
        /\ UNCHANGED <<buffer, box>>
    BY <1>7 DEF Callback
  <2>2. /\ DOMAIN delivered = 1..Len(delivered) /\ Len(delivered) \in Nat
        /\ DOMAIN delivered' = 1..(Len(delivered) + 1)
        /\ delivered'[Len(delivered) + 1] = result
        /\ \A i \in 1..Len(delivered) : delivered'[i] = delivered[i]
    BY <2>1 DEF TypeOK
  <2>3. box = "held" /\ box' = "held"
    BY <2>1 DEF Borrowed, Running
  <2>4. Pending' = buffer
    <3>1. InHand' = <<>>
      BY <2>1 DEF InHand
    <3> QED
      BY <2>1, <3>1 DEF Pending, TypeOK, SubTypeOK
  <2>5. CASE result = Null
    <3>1. Pending = <<>> /\ Pending' = <<>>
      BY <2>1, <2>4, <2>5, PendingParts DEF Last, Dry
    <3>2. MsgAt' = MsgAt
      BY <2>2, <2>5 DEF MsgAt
    <3>3. Out' = Out
      BY <2>2, <3>2 DEF Out, MsgAt
    <3>4. NullAt' # {}
      BY <2>2, <2>5 DEF NullAt
    <3>5. Stream!End
      BY <2>3, <3>1, <3>3, <3>4 DEF Stream!End, Out, Pending
    <3> QED
      BY <3>5 DEF Stream!Next
  <2>6. CASE result # Null
    <3>1. Pending # <<>> /\ Head(Pending) = result /\ Pending' = Tail(Pending)
      BY <2>1, <2>4, <2>6, PendingParts
    <3>2. NullAt = {}
      BY <2>1, <2>6 DEF Last
    <3>3. MsgAt = 1..Len(delivered) /\ MsgAt' = 1..(Len(delivered) + 1) /\ NullAt' = {}
      BY <2>2, <2>6, <3>2 DEF MsgAt, NullAt
    <3>4. Out = delivered /\ Out' = delivered'
      <4>1. /\ delivered = [i \in 1..Len(delivered) |-> delivered[i]]
            /\ delivered' = [i \in 1..(Len(delivered) + 1) |-> delivered'[i]]
        <5>1. /\ delivered \in Seq(1..MaxMsgs \cup {Null})
              /\ delivered' \in Seq(1..MaxMsgs \cup {Null})
              /\ Len(delivered') = Len(delivered) + 1
          BY <2>1 DEF TypeOK
        <5> QED
          BY <5>1, LenProperties
      <4> QED
        BY <3>3, <4>1 DEF Out
    <3>5. Stream!Deliver
      BY <2>1, <2>3, <3>1, <3>2, <3>3, <3>4 DEF Stream!Deliver, Out, Pending
    <3> QED
      BY <3>5 DEF Stream!Next
  <2> QED
    BY <2>5, <2>6
<1>8. CASE HandlerUnsubscribe /\ delivered' = delivered
  BY <1>2, <1>8 DEF HandlerUnsubscribe
<1>9. CASE HandlerStop /\ delivered' = delivered
  BY <1>2, <1>9 DEF HandlerStop
<1>10. CASE (GetToken \/ CloneToken \/ DeleteToken \/ Cancel) /\ delivered' = delivered
  BY <1>2, <1>10 DEF GetToken, CloneToken, DeleteToken, TokenStep, Cancel
<1>11. CASE (PopShutdown \/ PopUnsubscribe) /\ delivered' = delivered
  BY <1>4, <1>11 DEF PopShutdown, PopUnsubscribe
<1>12. CASE DeleteUnsubscribe /\ delivered' = delivered
  BY <1>5, <1>12 DEF DeleteUnsubscribe, Borrowed, Running
<1>13. CASE DeleteDrop /\ delivered' = delivered
  BY <1>6, <1>13 DEF DeleteDrop, DropSubscriber, Borrowed, Running
<1>14. CASE Delete
  BY <1>5, <1>6, <1>14 DEF Delete, DeleteCall, DropSubscriber
<1>15. CASE Receive
  BY <1>4, <1>15 DEF Receive
<1>16. CASE RuntimeDrop
  BY <1>4, <1>6, <1>16 DEF RuntimeDrop
<1>17. CASE UNCHANGED vars
  BY <1>2, <1>17 DEF vars, subVars
<1> QED
  BY <1>1, <1>3, <1>7, <1>8, <1>9, <1>10, <1>11, <1>12, <1>13, <1>14, <1>15,
     <1>16, <1>17, Steps

(* Subscribtion::receive, with its task, the tokens, the connection, the   *)
(* destructor and the end of the runtime, implements a FIFO stream.        *)
THEOREM Refinement == Spec => ImplementsStream
<1>1. Init => Stream!Init
  <2> SUFFICES ASSUME Init PROVE Stream!Init
    OBVIOUS
  <2>1. delivered = <<>> /\ buffer = <<>> /\ pop = "idle" /\ box = "held"
    BY Zenon DEF Init, SubInit
  <2>2. InHand = <<>> /\ MsgAt = {} /\ NullAt = {}
    BY <2>1 DEF InHand, MsgAt, NullAt
  <2>3. Pending = <<>> /\ Out = <<>>
    BY <2>1, <2>2 DEF Pending, Out
  <2> QED
    BY <2>1, <2>2, <2>3 DEF Stream!Init, Pending, Out
<1> QED
  BY <1>1, Invariant, RefinementStep, PTL DEF Spec, ImplementsStream, Stream!Spec

-----------------------------------------------------------------------------
(* What a step may never do to a subscription that has unsubscribed: open  *)
(* it again, or let another message into its buffer.                       *)
ClosedForGood == [][closed => closed' /\ queued' = queued]_vars

(* A cancel is not lost on its way: until the subscription is closed its   *)
(* signal is in the shutdown channel or `pop` is about to unsubscribe,     *)
(* unless it was told that it cannot (the panic) or the runtime dropped it.*)
CancelKept ==
  cancelled => signal > 0 \/ pop \in {"unsub", "panicked", "lost"} \/ closed

(* `pop` is between its two polls, or unsubscribing, only while the        *)
(* subscription is open.                                                   *)
OpenPolls == pop \in {"sd", "unsub"} => ~closed

(* The steps of its own that `pop` may still take before it returns, once  *)
(* a cancel has come.                                                      *)
PopLeft ==
  IF pop = "sd" THEN 3
  ELSE IF pop = "unsub" THEN 2
  ELSE IF pop = "next" THEN (IF NextReady THEN 1 ELSE 4)
  ELSE 0

(* After a cancel each step of `pop` brings the end of the receive nearer, *)
(* and no other step puts it off.                                          *)
CancelBounded ==
  [][cancelled /\ pop \in {"next", "sd", "unsub"} =>
       PopLeft' < PopLeft \/ (pop' = pop /\ PopLeft' = PopLeft)]_vars

(* Closing is final.                                                       *)
LEMMA ClosedStep ==
  ASSUME closed, [Next]_vars
  PROVE  closed' /\ queued' = queued
<1>1. CASE Dispatch
  BY <1>1, Zenon DEF Dispatch
<1>2. CASE \/ HandlerUnsubscribe \/ HandlerStop
           \/ GetToken \/ CloneToken \/ DeleteToken \/ Cancel
  BY <1>2, Zenon DEF HandlerUnsubscribe, HandlerStop, GetToken, CloneToken,
     DeleteToken, TokenStep, Cancel
<1>3. CASE PopNext \/ PopShutdown \/ PopUnsubscribe
  BY <1>3, Zenon DEF PopNext, PopShutdown, PopUnsubscribe, Unsubscribe, linkVars
<1>4. CASE DeleteUnsubscribe \/ DeleteDrop \/ Delete
  BY <1>4, Zenon DEF DeleteUnsubscribe, DeleteDrop, Delete, DeleteCall,
     Unsubscribe, DropSubscriber
<1>5. CASE Receive \/ Callback \/ RuntimeDrop
  BY <1>5, Zenon DEF Receive, Callback, RuntimeDrop, linkVars
<1>6. CASE UNCHANGED vars
  BY <1>6, Zenon DEF vars, subVars
<1> QED
  BY <1>1, <1>2, <1>3, <1>4, <1>5, <1>6, Steps

(* Every step keeps the cancel.                                            *)
LEMMA KeptStep ==
  ASSUME TypeOK, Borrowed, CancelKept, OpenPolls, [Next]_vars
  PROVE  CancelKept' /\ OpenPolls'
<1>0. closed => closed'
  BY ClosedStep
<1>1. CASE Cancel
  <2>1. /\ UNCHANGED <<pop, closed>>
        /\ signal' = IF box = "gone" THEN signal ELSE 1
    BY <1>1, Zenon DEF Cancel
  <2> QED
    BY <2>1 DEF CancelKept, OpenPolls, Borrowed
<1>2. CASE \/ Dispatch \/ HandlerUnsubscribe \/ HandlerStop
           \/ GetToken \/ CloneToken \/ DeleteToken \/ UNCHANGED vars
  <2>1. UNCHANGED <<pop, closed, signal, cancelled>>
    BY <1>2, Zenon DEF Dispatch, HandlerUnsubscribe, HandlerStop, GetToken,
       CloneToken, DeleteToken, TokenStep, vars, subVars
  <2> QED
    BY <2>1 DEF CancelKept, OpenPolls
<1>3. CASE PopNext
  BY <1>3 DEF PopNext, NextReady, CancelKept, OpenPolls
<1>4. CASE PopShutdown
  BY <1>4 DEF PopShutdown, SdReady, CancelKept, OpenPolls
<1>5. CASE PopUnsubscribe
  <2>1. /\ UNCHANGED <<signal, cancelled>>
        /\ (closed' /\ pop' = "next") \/ pop' = "panicked"
    BY <1>5, Zenon DEF PopUnsubscribe, Unsubscribe
  <2> QED
    BY <2>1 DEF CancelKept, OpenPolls
<1>6. CASE DeleteUnsubscribe \/ DeleteDrop \/ Delete
  <2>1. /\ UNCHANGED <<signal, cancelled, pop>>
        /\ pop \in {"idle", "lost", "panicked"} \/ box # "held"
    BY <1>6 DEF DeleteUnsubscribe, DeleteDrop, Delete, DeleteCall
  <2> QED
    BY <1>0, <2>1 DEF CancelKept, OpenPolls, Borrowed, Running
<1>7. CASE Receive \/ Callback
  <2>1. /\ UNCHANGED <<signal, cancelled, closed>>
        /\ pop \in {"idle", "ret"} /\ pop' \in {"next", "lost", "idle"}
    BY <1>7 DEF Receive, Callback
  <2> QED
    BY <2>1 DEF CancelKept, OpenPolls
<1>8. CASE RuntimeDrop
  <2>1. /\ UNCHANGED <<signal, cancelled>> /\ pop # "sd"
        /\ pop' = IF pop \in {"next", "unsub"} THEN "lost" ELSE pop
    BY <1>8, Zenon DEF RuntimeDrop
  <2> QED
    BY <1>0, <2>1 DEF CancelKept, OpenPolls
<1> QED
  BY <1>1, <1>2, <1>3, <1>4, <1>5, <1>6, <1>7, <1>8, Steps

(* subscribtion.rs:117: no interleaving of polls, messages and tokens      *)
(* loses a cancel.                                                         *)
THEOREM CancelNotLost == Spec => [](CancelKept /\ OpenPolls)
<1>1. Init => CancelKept /\ OpenPolls
  BY DEF Init, SubInit, CancelKept, OpenPolls
<1>2. IInv /\ CancelKept /\ OpenPolls /\ [Next]_vars => (CancelKept /\ OpenPolls)'
  BY KeptStep DEF IInv
<1> QED
  BY <1>1, <1>2, Invariant, PTL DEF Spec

(* subscribtion.rs:19: no message is let in after the unsubscribe.         *)
THEOREM NothingAfterClose == Spec => ClosedForGood
<1>1. [Next]_vars => [closed => closed' /\ queued' = queued]_vars
  BY ClosedStep
<1> QED
  BY <1>1, PTL DEF Spec, ClosedForGood

(* A stream that is ready stays so until `pop` takes what it has.          *)
LEMMA ReadyStays ==
  ASSUME TypeOK, NextReady,
         \/ Dispatch \/ HandlerUnsubscribe \/ HandlerStop
         \/ GetToken \/ CloneToken \/ DeleteToken \/ Cancel \/ UNCHANGED vars
  PROVE  NextReady'
<1>1. CASE Dispatch
  <2>1. /\ closed' = closed /\ registered
        /\ closed \/ buffer' = buffer \/ buffer' = Append(buffer, sent + 1)
    BY <1>1, Zenon DEF Dispatch
  <2>2. CASE closed
    BY <2>1, <2>2 DEF NextReady
  <2>3. CASE buffer' = buffer /\ ~closed
    BY <2>1, <2>3 DEF NextReady
  <2>4. CASE buffer' = Append(buffer, sent + 1)
    <3>1. buffer' # <<>>
      BY <2>4 DEF TypeOK, SubTypeOK
    <3> QED
      BY <3>1 DEF NextReady
  <2> QED
    BY <2>1, <2>2, <2>3, <2>4
<1>2. CASE HandlerUnsubscribe \/ HandlerStop
  <2>1. ~registered'
    BY <1>2, Zenon DEF HandlerUnsubscribe, HandlerStop
  <2> QED
    BY <2>1 DEF NextReady
<1>3. CASE GetToken \/ CloneToken \/ DeleteToken \/ Cancel \/ UNCHANGED vars
  <2>1. UNCHANGED <<buffer, closed, registered>>
    BY <1>3, Zenon DEF GetToken, CloneToken, DeleteToken, TokenStep, Cancel, vars,
       subVars
  <2> QED
    BY <2>1 DEF NextReady
<1> QED
  BY <1>1, <1>2, <1>3

(* One step after a cancel.                                                *)
LEMMA BoundedStep ==
  ASSUME IInv, CancelKept, OpenPolls, [Next]_vars,
         cancelled, pop \in {"next", "sd", "unsub"}
  PROVE  PopLeft' < PopLeft \/ (pop' = pop /\ PopLeft' = PopLeft)
<1>0. TypeOK /\ box = "held"
  BY DEF IInv, Borrowed, Running
<1>1. CASE PopNext
  <2>1. CASE NextReady
    <3>1. pop = "next" /\ pop' = "ret"
      BY <1>1, <2>1, Zenon DEF PopNext
    <3> QED
      BY <2>1, <3>1 DEF PopLeft
  <2>2. CASE ~NextReady
    <3>1. pop = "next" /\ pop' = "sd"
      BY <1>1, <2>2, Zenon DEF PopNext
    <3> QED
      BY <2>2, <3>1 DEF PopLeft
  <2> QED
    BY <2>1, <2>2
<1>2. CASE PopShutdown
  <2>1. pop = "sd" /\ SdReady
    BY <1>2 DEF PopShutdown, SdReady, CancelKept, OpenPolls
  <2>2. pop' = "unsub"
    BY <1>2, <2>1, Zenon DEF PopShutdown
  <2> QED
    BY <2>1, <2>2 DEF PopLeft
<1>3. CASE PopUnsubscribe
  <2>1. pop = "unsub" /\ ((closed' /\ pop' = "next") \/ pop' = "panicked")
    BY <1>3, Zenon DEF PopUnsubscribe, Unsubscribe
  <2>2. pop' = "next" => NextReady'
    BY <2>1 DEF NextReady
  <2> QED
    BY <2>1, <2>2 DEF PopLeft
<1>4. CASE \/ Dispatch \/ HandlerUnsubscribe \/ HandlerStop
           \/ GetToken \/ CloneToken \/ DeleteToken \/ Cancel \/ UNCHANGED vars
  <2>1. pop' = pop
    BY <1>4, Zenon DEF Dispatch, HandlerUnsubscribe, HandlerStop, GetToken,
       CloneToken, DeleteToken, TokenStep, Cancel, vars, subVars
  <2>2. NextReady => NextReady'
    BY <1>0, <1>4, ReadyStays
  <2> QED
    BY <2>1, <2>2 DEF PopLeft
<1>5. CASE RuntimeDrop
  <2>1. pop # "sd" /\ pop' = "lost"
    BY <1>5 DEF RuntimeDrop
  <2> QED
    BY <2>1 DEF PopLeft
<1>6. ~(Receive \/ Callback \/ Delete \/ DeleteUnsubscribe \/ DeleteDrop)
  BY <1>0 DEF Receive, Callback, Delete, DeleteUnsubscribe, DeleteDrop
<1> QED
  BY <1>1, <1>2, <1>3, <1>4, <1>5, <1>6, Steps

(* subscribtion.rs:11-24: after a cancel `pop` returns within four steps   *)
(* of its own, wherever it is, whatever the server sends.  That the task   *)
(* takes them is fairness, and CancelEndsReceive.                          *)
THEOREM CancelEndsSoon == Spec => CancelBounded
<1>1. IInv /\ CancelKept /\ OpenPolls /\ [Next]_vars =>
        [cancelled /\ pop \in {"next", "sd", "unsub"} =>
           PopLeft' < PopLeft \/ (pop' = pop /\ PopLeft' = PopLeft)]_vars
  BY BoundedStep
<1> QED
  BY <1>1, Invariant, CancelNotLost, PTL DEF Spec, CancelBounded
=============================================================================
