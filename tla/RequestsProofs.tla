--------------------------- MODULE RequestsProofs ---------------------------
(***************************************************************************)
(* Proofs about Requests, for any number of requests, any inboxes and any  *)
(* width of the timeout.  The inductive invariant follows an address from  *)
(* the builder to the answer: an inbox is frozen once the request is       *)
(* handed over, so two requests with one address were given one inbox.     *)
(***************************************************************************)
EXTENDS Requests, TLAPS

Phases == {"none", "built", "spawned", "waiting", "done", "timedout"}

(* Requests that have sent, and so have a reply address.                   *)
Gone == {"waiting", "done", "timedout"}

(* Inboxes a builder can hold: none of them is a generated one.            *)
Inboxes == {NoInbox} \cup {<<"name", n>> : n \in Names} \cup {<<"box", r>> : r \in Reqs}

Types ==
  /\ phase \in [Reqs -> Phases]
  /\ inbox \in [Reqs -> Inboxes]
  /\ boxes \subseteq {<<"box", r>> : r \in Reqs}
  /\ timeout \in [Reqs -> -1 .. Word - 1]
  /\ asked \in [Reqs -> Durations]
  /\ addr \in [Reqs -> Inboxes \cup {<<"gen", r>> : r \in Reqs}]
  /\ answered \subseteq Reqs
  /\ got \in [Reqs -> {{}} \cup {{r} : r \in Reqs}]

(* A request has a reply address from its first poll on, and it is the one *)
(* its builder still says.                                                 *)
Frozen == \A r \in Reqs : addr[r] = IF phase[r] \in Gone THEN ReplyAddress(r) ELSE NoInbox

(* An answer travels to the address of the request it answers.             *)
InFlight == flight \subseteq {<<addr[r], r>> : r \in answered}

(* A completed request was given the answer to one with its own address.   *)
Matched ==
  /\ \A r \in answered : phase[r] \in Gone
  /\ \A r \in Reqs : (got[r] # {}) = (phase[r] = "done")
  /\ \A r, q \in Reqs : q \in got[r] => phase[q] \in Gone /\ addr[q] = addr[r]

IInv == Types /\ Frozen /\ InFlight /\ Matched /\ TimeoutFaithful

-----------------------------------------------------------------------------
(* The conversion of a duration: it fits the word, a duration that is not  *)
(* negative is cut to whole milliseconds, and a negative one wraps to zero *)
(* or to the upper half of the range.                                      *)
LEMMA MillisRange ==
  ASSUME NEW d \in Durations
  PROVE  /\ Millis(d) \in 0 .. Word - 1
         /\ d >= 0 => Millis(d) * PerMs <= d /\ d < (Millis(d) + 1) * PerMs
         /\ d < 0 => Millis(d) = 0 \/ Millis(d) > Word \div 2
<1> DEFINE H == Word \div 2
<1>1. /\ PerMs \in Nat /\ PerMs > 0 /\ Word \in Nat /\ Word > 0
      /\ MaxDur \in Nat /\ MaxDur < H * PerMs
      /\ d \in Int /\ -MaxDur <= d /\ d <= MaxDur
  BY RequestsAssumption DEF Durations
<1>2. H \in Nat /\ 2 * H <= Word
  BY <1>1
<1> HIDE DEF H
<1>3. ASSUME NEW e \in Nat, e <= MaxDur
      PROVE  /\ e \div PerMs \in Nat
             /\ (e \div PerMs) * PerMs <= e
             /\ e < (e \div PerMs + 1) * PerMs
             /\ e \div PerMs < H
  <2>1. /\ e \div PerMs \in Int
        /\ (e \div PerMs) * PerMs <= e
        /\ e < (e \div PerMs) * PerMs + PerMs
    BY <1>1
  <2> DEFINE q == e \div PerMs
  <2>2. q \in Int /\ q * PerMs <= e /\ e < q * PerMs + PerMs
    BY <2>1
  <2> HIDE DEF q
  <2>3. q * PerMs + PerMs = (q + 1) * PerMs
    BY <1>1, <2>2
  <2>4. q >= 0
    <3>1. SUFFICES ASSUME q + 1 <= 0 PROVE FALSE
      BY <2>2
    <3>2. (q + 1) * PerMs <= 0
      BY <1>1, <2>2, <3>1
    <3> QED
      BY <1>1, <2>2, <2>3, <3>2
  <2>5. q < H
    <3>1. SUFFICES ASSUME q >= H PROVE FALSE
      BY <1>2, <2>2
    <3>2. q * PerMs >= H * PerMs
      <4>1. q - H \in Nat
        BY <1>2, <2>2, <3>1
      <4>2. (q - H) * PerMs >= 0
        BY <1>1, <4>1
      <4>3. (q - H) * PerMs = q * PerMs - H * PerMs
        BY <1>1, <1>2, <2>2
      <4>4. q * PerMs \in Int /\ H * PerMs \in Int
        BY <1>1, <1>2, <2>2
      <4> QED
        BY <4>2, <4>3, <4>4
    <3>3. q * PerMs \in Int /\ H * PerMs \in Int
      BY <1>1, <1>2, <2>2
    <3> QED
      BY <1>1, <1>3, <2>2, <3>2, <3>3
  <2> QED
    BY <2>2, <2>3, <2>4, <2>5 DEF q
<1>4. CASE d >= 0
  <2>1. d \div PerMs \in Nat /\ d \div PerMs < H
    BY <1>1, <1>3, <1>4
  <2>2. d \div PerMs < Word
    BY <1>1, <1>2, <2>1
  <2>3. (d \div PerMs) % Word = d \div PerMs
    BY <1>1, <2>1, <2>2
  <2>4. Millis(d) = d \div PerMs
    BY <1>4, <2>3 DEF Millis
  <2> QED
    BY <1>1, <1>3, <1>4, <2>1, <2>2, <2>4
<1>5. CASE d < 0
  <2> DEFINE k == (-d) \div PerMs
  <2>1. k \in Nat /\ k < H
    BY <1>1, <1>3, <1>5
  <2>2. Millis(d) = (-k) % Word
    BY <1>1, <1>5 DEF Millis
  <2> HIDE DEF k
  <2>3. CASE k = 0
    <3>1. (-k) % Word = 0
      BY <1>1, <2>3
    <3> QED
      BY <1>1, <1>5, <2>2, <3>1
  <2>4. CASE k > 0
    <3>1. (-k) % Word = Word - k
      BY <1>1, <1>2, <2>1, <2>4
    <3> QED
      BY <1>1, <1>2, <1>5, <2>1, <2>2, <2>4, <3>1 DEF H
  <2> QED
    BY <2>1, <2>3, <2>4
<1> QED
  BY <1>1, <1>4, <1>5

-----------------------------------------------------------------------------
(* A generated address is never an inbox, and belongs to one request.      *)
LEMMA Addresses ==
  ASSUME Types, NEW r \in Reqs, NEW q \in Reqs, q # r,
         ReplyAddress(q) = ReplyAddress(r)
  PROVE  inbox[q] = inbox[r] /\ inbox[r] # NoInbox
<1>1. \A i \in Inboxes : i = <<>> \/ i[1] = "name" \/ i[1] = "box"
  BY DEF Inboxes, NoInbox
<1>2. <<"gen", r>> # <<"gen", q>> /\ <<"gen", r>>[1] = "gen" /\ <<"gen", q>>[1] = "gen"
  OBVIOUS
<1>3. <<"gen", r>> \notin Inboxes /\ <<"gen", q>> \notin Inboxes
  BY <1>1, <1>2
<1>4. inbox[r] \in Inboxes /\ inbox[q] \in Inboxes
  BY DEF Types
<1> QED
  BY <1>2, <1>3, <1>4 DEF ReplyAddress

(* The initial states satisfy the invariant.                               *)
LEMMA InitIInv == Init => IInv
<1> SUFFICES ASSUME Init PROVE IInv
  OBVIOUS
<1>1. Types
  BY RequestsAssumption DEF Init, Types, Phases, Inboxes, NoInbox, NoTime, Durations
<1>2. Frozen /\ InFlight /\ Matched
  BY DEF Init, Frozen, InFlight, Matched, Gone
<1>3. TimeoutFaithful
  BY DEF Init, TimeoutFaithful, NoTime
<1> QED
  BY <1>1, <1>2, <1>3 DEF IInv

(* A step that is not RequestBuilder::timeout leaves the timeouts alone.   *)
LEMMA TimeoutStands ==
  ASSUME TimeoutFaithful, timeout' = timeout, asked' = asked
  PROVE  TimeoutFaithful'
BY DEF TimeoutFaithful

(* Every step preserves the invariant.                                     *)
LEMMA NextIInv == IInv /\ [Next]_vars => IInv'
<1> SUFFICES ASSUME IInv, [Next]_vars PROVE IInv'
  OBVIOUS
<1> USE DEF IInv
<1>1. ASSUME NEW r \in Reqs, New(r) PROVE IInv'
  <2>1. Types'
    BY <1>1 DEF New, Types, Phases
  <2>2. Frozen'
    BY <1>1 DEF New, Types, Frozen, ReplyAddress, Gone
  <2>3. InFlight'
    BY <1>1 DEF New, InFlight
  <2>4. Matched'
    BY <1>1 DEF New, Types, Matched, Gone
  <2> QED
    BY <1>1, <2>1, <2>2, <2>3, <2>4, TimeoutStands DEF New
<1>2. ASSUME NEW r \in Reqs, NewMailbox(r) PROVE IInv'
  <2>1. Types'
    BY <1>2 DEF NewMailbox, Types, Inboxes
  <2>2. Frozen'
    BY <1>2 DEF NewMailbox, Types, Frozen, ReplyAddress, Gone
  <2>3. InFlight'
    BY <1>2 DEF NewMailbox, InFlight
  <2>4. Matched'
    BY <1>2 DEF NewMailbox, Matched
  <2> QED
    BY <1>2, <2>1, <2>2, <2>3, <2>4, TimeoutStands DEF NewMailbox
<1>3. ASSUME NEW r \in Reqs, SetInbox(r) PROVE IInv'
  <2> PICK i \in {<<"name", n>> : n \in Names} \cup boxes :
             inbox' = [inbox EXCEPT ![r] = i]
    BY <1>3 DEF SetInbox
  <2>1. Types'
    BY <1>3 DEF SetInbox, Types, Inboxes
  <2>2. Frozen'
    BY <1>3 DEF SetInbox, Types, Frozen, ReplyAddress, Gone
  <2>3. InFlight'
    BY <1>3 DEF SetInbox, InFlight
  <2>4. Matched'
    BY <1>3 DEF SetInbox, Matched
  <2> QED
    BY <1>3, <2>1, <2>2, <2>3, <2>4, TimeoutStands DEF SetInbox
<1>4. ASSUME NEW r \in Reqs, NEW d \in Durations, SetTimeout(r, d) PROVE IInv'
  <2>1. /\ Millis(d) \in 0 .. Word - 1
        /\ d >= 0 => Millis(d) * PerMs <= d /\ d < (Millis(d) + 1) * PerMs
        /\ d < 0 => Millis(d) = 0 \/ Millis(d) > Word \div 2
    BY MillisRange
  <2>2. Millis(d) \in -1 .. Word - 1 /\ Word \in Nat /\ d \in Int
    BY <2>1, RequestsAssumption DEF Durations
  <2>3. Types'
    BY <1>4, <2>2 DEF SetTimeout, Types
  <2>4. Frozen' /\ InFlight' /\ Matched'
    BY <1>4 DEF SetTimeout, Frozen, ReplyAddress, InFlight, Matched
  <2>5. TimeoutFaithful'
    <3> SUFFICES ASSUME NEW q \in Reqs, timeout'[q] # NoTime
                 PROVE  IF asked'[q] >= 0
                        THEN timeout'[q] * PerMs <= asked'[q] /\ asked'[q] < (timeout'[q] + 1) * PerMs
                        ELSE timeout'[q] = 0 \/ timeout'[q] > Word \div 2
      BY DEF TimeoutFaithful
    <3>1. CASE q = r
      <4>1. timeout'[q] = Millis(d) /\ asked'[q] = d
        BY <1>4, <3>1 DEF SetTimeout, Types
      <4> QED
        BY <2>1, <2>2, <4>1
    <3>2. CASE q # r
      <4>1. timeout'[q] = timeout[q] /\ asked'[q] = asked[q]
        BY <1>4, <3>2 DEF SetTimeout, Types
      <4> QED
        BY <4>1 DEF TimeoutFaithful
    <3> QED
      BY <3>1, <3>2
  <2> QED
    BY <2>3, <2>4, <2>5
<1>5. ASSUME NEW r \in Reqs, Request(r) PROVE IInv'
  <2>1. Types'
    BY <1>5 DEF Request, Types, Phases
  <2>2. Frozen'
    BY <1>5 DEF Request, Types, Frozen, ReplyAddress, Gone
  <2>3. InFlight'
    BY <1>5 DEF Request, InFlight
  <2>4. Matched'
    BY <1>5 DEF Request, Types, Matched, Gone
  <2> QED
    BY <1>5, <2>1, <2>2, <2>3, <2>4, TimeoutStands DEF Request
<1>6. ASSUME NEW r \in Reqs, Send(r) PROVE IInv'
  <2>1. ReplyAddress(r) \in Inboxes \cup {<<"gen", q>> : q \in Reqs}
    BY DEF ReplyAddress, Types
  <2>2. Types'
    BY <1>6, <2>1 DEF Send, Types, Phases
  <2>3. Frozen'
    BY <1>6 DEF Send, Types, Frozen, ReplyAddress, Gone
  <2>4. r \notin answered /\ \A q \in answered : addr'[q] = addr[q]
    BY <1>6 DEF Send, Types, Matched, Gone
  <2>5. InFlight'
    BY <1>6, <2>4 DEF Send, InFlight
  <2>6. Matched'
    BY <1>6, <2>4 DEF Send, Types, Matched, Gone
  <2> QED
    BY <1>6, <2>2, <2>3, <2>5, <2>6, TimeoutStands DEF Send
<1>7. ASSUME NEW r \in Reqs, Reply(r) PROVE IInv'
  <2>1. Types' /\ Frozen' /\ InFlight'
    BY <1>7 DEF Reply, Types, Frozen, ReplyAddress, InFlight
  <2>2. phase[r] \in Gone
    BY <1>7 DEF Reply, Frozen
  <2>3. Matched'
    BY <1>7, <2>2 DEF Reply, Matched
  <2> QED
    BY <1>7, <2>1, <2>3, TimeoutStands DEF Reply
<1>8. ASSUME NEW r \in Reqs, TimeOut(r) PROVE IInv'
  <2>1. Types'
    BY <1>8 DEF TimeOut, Types, Phases
  <2>2. Frozen'
    BY <1>8 DEF TimeOut, Types, Frozen, ReplyAddress, Gone
  <2>3. InFlight'
    BY <1>8 DEF TimeOut, InFlight
  <2>4. Matched'
    BY <1>8 DEF TimeOut, Types, Matched, Gone
  <2> QED
    BY <1>8, <2>1, <2>2, <2>3, <2>4, TimeoutStands DEF TimeOut
<1>9. ASSUME NEW m \in flight, Deliver(m) PROVE IInv'
  <2>1. PICK p \in answered : m = <<addr[p], p>>
    BY DEF InFlight
  <2> DEFINE to == {r \in Reqs : phase[r] = "waiting" /\ addr[r] = addr[p]}
  <2>2. /\ flight' = flight \ {m}
        /\ phase' = [r \in Reqs |-> IF r \in to THEN "done" ELSE phase[r]]
        /\ got' = [r \in Reqs |-> IF r \in to THEN {p} ELSE got[r]]
        /\ UNCHANGED <<inbox, timeout, asked, boxes, addr, answered>>
    BY <1>9, <2>1 DEF Deliver
  <2>3. p \in Reqs /\ phase[p] \in Gone
    BY <2>1 DEF Types, Matched
  <2>4. Types'
    BY <2>2, <2>3 DEF Types, Phases
  <2>5. \A r \in Reqs : (phase'[r] \in Gone) = (phase[r] \in Gone)
    BY <2>2 DEF Types, Gone
  <2>6. Frozen'
    BY <2>2, <2>5 DEF Frozen, ReplyAddress
  <2>7. InFlight'
    BY <2>2 DEF InFlight
  <2>8. Matched'
    <3>1. \A r \in answered' : phase'[r] \in Gone
      BY <2>2, <2>5 DEF Matched, Types
    <3>2. \A r \in Reqs : (got'[r] # {}) = (phase'[r] = "done")
      BY <2>2 DEF Matched
    <3>3. ASSUME NEW r \in Reqs, NEW q \in Reqs, q \in got'[r]
          PROVE  phase'[q] \in Gone /\ addr'[q] = addr'[r]
      <4>1. CASE r \in to
        BY <2>2, <2>3, <2>5, <3>3, <4>1
      <4>2. CASE r \notin to
        BY <2>2, <2>5, <3>3, <4>2 DEF Matched
      <4> QED
        BY <4>1, <4>2
    <3> QED
      BY <3>1, <3>2, <3>3 DEF Matched
  <2> QED
    BY <2>2, <2>4, <2>6, <2>7, <2>8, TimeoutStands
<1>10. CASE UNCHANGED vars
  BY <1>10 DEF vars, Types, Frozen, ReplyAddress, InFlight, Matched, TimeoutFaithful
<1> QED
  BY <1>1, <1>2, <1>3, <1>4, <1>5, <1>6, <1>7, <1>8, <1>9, <1>10 DEF Next

-----------------------------------------------------------------------------
(* Types hold in every reachable state, and so does the strengthening.     *)
THEOREM Invariant == Spec => [](TypeOK /\ IInv)
<1>1. IInv => TypeOK
  BY DEF IInv, TypeOK, Types, InFlight, Matched, Phases
<1> QED
  BY <1>1, InitIInv, NextIInv, PTL DEF Spec

(* A request whose inbox nobody else was given is only completed with the  *)
(* answer to itself, however many others time out and are answered late.   *)
THEOREM OwnAnswers == Spec => []OwnAnswer
<1>1. IInv => OwnAnswer
  <2> SUFFICES ASSUME IInv, NEW r \in Reqs, ~SharesInbox(r), NEW q \in got[r]
               PROVE  q = r
    BY DEF OwnAnswer
  <2>1. q \in Reqs
    BY DEF IInv, Types
  <2>2. got[r] # {} /\ phase[r] = "done"
    BY DEF IInv, Matched
  <2>3. addr[q] = ReplyAddress(q) /\ addr[r] = ReplyAddress(r) /\ addr[q] = addr[r]
    BY <2>1, <2>2 DEF IInv, Matched, Frozen, Gone
  <2>4. q # r => SharesInbox(r)
    BY <2>1, <2>3, Addresses DEF IInv, SharesInbox
  <2> QED
    BY <2>4
<1> QED
  BY <1>1, Invariant, PTL

(* A timeout that is not negative is asked for exactly, to the millisecond *)
(* below; a negative one becomes zero or practically endless.              *)
THEOREM Timeouts == Spec => []TimeoutFaithful
<1>1. IInv => TimeoutFaithful
  BY DEF IInv
<1> QED
  BY <1>1, Invariant, PTL
=============================================================================
