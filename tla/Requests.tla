------------------------------ MODULE Requests ------------------------------
(***************************************************************************)
(* Requests made with a RequestBuilder: its inbox and timeout, what Rust   *)
(* makes of them, and the answers, which come late, in any order or never, *)
(* and race the timeout.  A client may retry with the same inbox.  Buffers *)
(* and contexts are in Connection, ownership of the builder in Handles.    *)
(*                                                                         *)
(* External (async-nats): send_request waits on a subscription of its own  *)
(* to the inbox it was given, or to one it generates; the first message    *)
(* there is the answer.  Without a timeout of its own a request has the    *)
(* client's.                                                               *)
(*                                                                         *)
(* Durations are counted in units of which PerMs make a millisecond; the   *)
(* timeout is an unsigned number of milliseconds below Word.               *)
(***************************************************************************)
EXTENDS Integers

CONSTANTS
  Reqs,       \* requests
  Names,      \* inboxes the client makes up
  MaxDur,     \* bound: timeouts the client asks for, either sign
  PerMs,      \* clock units in a millisecond
  Word,       \* 2^64 in the code
  Default     \* the client's request timeout, in milliseconds

ASSUME RequestsAssumption ==
  /\ PerMs \in Nat \ {0} /\ Word \in Nat \ {0} /\ Default \in Nat
  /\ Default < Word \div 2
  /\ MaxDur \in Nat /\ MaxDur < (Word \div 2) * PerMs

Durations == -MaxDur .. MaxDur

VARIABLES
  phase,    \* "none", "built", "spawned", "waiting", "done" or "timedout"
  inbox,    \* AsyncNatsRequest::inbox, <<>> is None
  timeout,  \* AsyncNatsRequest::timeout in milliseconds, -1 is None
  asked,    \* history: the duration given to RequestBuilder::timeout
  boxes,    \* mailboxes obtained from new_mailbox
  addr,     \* the reply address of a request on its way
  flight,   \* external: answers on their way, as <<address, request>>
  answered, \* external: requests the responder has answered
  got       \* the request whose answer each request was given

vars == <<phase, inbox, timeout, asked, boxes, addr, flight, answered, got>>

NoInbox == <<>>
NoTime  == -1

Init ==
  /\ phase = [r \in Reqs |-> "none"]
  /\ inbox = [r \in Reqs |-> NoInbox]
  /\ timeout = [r \in Reqs |-> NoTime]
  /\ asked = [r \in Reqs |-> 0]
  /\ boxes = {}
  /\ addr = [r \in Reqs |-> NoInbox]
  /\ flight = {}
  /\ answered = {}
  /\ got = [r \in Reqs |-> {}]

-----------------------------------------------------------------------------
(* Mutant: the last millisecond is taken off.                              *)
MillisShort(d) == ((IF d >= 0 THEN d \div PerMs ELSE -((-d) \div PerMs)) - 1) % Word

(* static_cast<uint64_t>(duration_cast<milliseconds>(d).count()): towards  *)
(* zero, then modulo the width.                                            *)
Millis(d) == (IF d >= 0 THEN d \div PerMs ELSE -((-d) \div PerMs)) % Word

New(r) ==
  /\ phase[r] = "none"
  /\ phase' = [phase EXCEPT ![r] = "built"]
  /\ UNCHANGED <<inbox, timeout, asked, boxes, addr, flight, answered, got>>

(* Connection::new_mailbox: a new random string (never one it gave         *)
(* before), here for the inbox of r.                                       *)
NewMailbox(r) ==
  /\ phase[r] = "built" /\ inbox[r] = NoInbox
  /\ boxes' = boxes \cup {<<"box", r>>}
  /\ inbox' = [inbox EXCEPT ![r] = <<"box", r>>]
  /\ UNCHANGED <<phase, timeout, asked, addr, flight, answered, got>>

(* RequestBuilder::inbox, with a made-up name or a mailbox the client has, *)
(* also one it used before.                                                *)
SetInbox(r) ==
  /\ phase[r] = "built"
  /\ \E i \in {<<"name", n>> : n \in Names} \cup boxes :
       inbox' = [inbox EXCEPT ![r] = i]
  /\ UNCHANGED <<phase, timeout, asked, boxes, addr, flight, answered, got>>

(* RequestBuilder::timeout.                                                *)
SetTimeout(r, d) ==
  /\ phase[r] = "built"
  /\ timeout' = [timeout EXCEPT ![r] = Millis(d)]
  /\ asked' = [asked EXCEPT ![r] = d]
  /\ UNCHANGED <<phase, inbox, boxes, addr, flight, answered, got>>

(* Mutant: build forgets that a request without an inbox gets its own.     *)
ReplyAddressShared(r) == IF inbox[r] = NoInbox THEN <<"gen">> ELSE inbox[r]

(* build(): the inbox that was set; external: otherwise a generated one.   *)
ReplyAddress(r) == IF inbox[r] = NoInbox THEN <<"gen", r>> ELSE inbox[r]

(* Connection::request(subject, std::move(builder)), and the spawn.        *)
Request(r) ==
  /\ phase[r] = "built"
  /\ phase' = [phase EXCEPT ![r] = "spawned"]
  /\ UNCHANGED <<inbox, timeout, asked, boxes, addr, flight, answered, got>>

(* The task's first poll: build, subscribe to the reply address, publish.  *)
Send(r) ==
  /\ phase[r] = "spawned"
  /\ phase' = [phase EXCEPT ![r] = "waiting"]
  /\ addr' = [addr EXCEPT ![r] = ReplyAddress(r)]
  /\ UNCHANGED <<inbox, timeout, asked, boxes, flight, answered, got>>

(* External: the responder answers, perhaps after the timeout.             *)
Reply(r) ==
  /\ addr[r] # NoInbox /\ r \notin answered
  /\ answered' = answered \cup {r}
  /\ flight' = flight \cup {<<addr[r], r>>}
  /\ UNCHANGED <<phase, inbox, timeout, asked, boxes, addr, got>>

(* An answer reaches every request that waits at its address, and is       *)
(* dropped if none does.                                                   *)
Deliver(m) ==
  /\ m \in flight
  /\ flight' = flight \ {m}
  /\ LET to == {r \in Reqs : phase[r] = "waiting" /\ addr[r] = m[1]} IN
       /\ phase' = [r \in Reqs |-> IF r \in to THEN "done" ELSE phase[r]]
       /\ got' = [r \in Reqs |-> IF r \in to THEN {m[2]} ELSE got[r]]
  /\ UNCHANGED <<inbox, timeout, asked, boxes, addr, answered>>

(* Mutant: no timeout means no timeout.                                    *)
PatienceEndless(r) == IF timeout[r] = NoTime THEN Word - 1 ELSE timeout[r]

(* How long r waits.                                                       *)
Patience(r) == IF timeout[r] = NoTime THEN Default ELSE timeout[r]

(* The timer fires; a time of half the width (292 million years) never     *)
(* comes.                                                                  *)
TimeOut(r) ==
  /\ phase[r] = "waiting" /\ Patience(r) < Word \div 2
  /\ phase' = [phase EXCEPT ![r] = "timedout"]
  /\ UNCHANGED <<inbox, timeout, asked, boxes, addr, flight, answered, got>>

Next ==
  \/ \E r \in Reqs :
       \/ New(r) \/ NewMailbox(r) \/ SetInbox(r) \/ Request(r) \/ Send(r)
       \/ Reply(r) \/ TimeOut(r)
       \/ \E d \in Durations : SetTimeout(r, d)
  \/ \E m \in flight : Deliver(m)

(* Woken tasks run and timers fire; nothing is assumed of the responder.   *)
Fairness == \A r \in Reqs : WF_vars(Send(r)) /\ WF_vars(TimeOut(r))

Spec     == Init /\ [][Next]_vars
FairSpec == Spec /\ Fairness

-----------------------------------------------------------------------------
TypeOK ==
  /\ phase \in [Reqs -> {"none", "built", "spawned", "waiting", "done", "timedout"}]
  /\ timeout \in [Reqs -> -1 .. Word - 1]
  /\ asked \in [Reqs -> Durations]
  /\ answered \subseteq Reqs
  /\ flight \subseteq {<<addr[r], r>> : r \in answered}
  /\ got \in [Reqs -> {{}} \cup {{r} : r \in Reqs}]
  /\ \A r \in Reqs : (got[r] # {}) = (phase[r] = "done")

(* Two builders were given the same inbox by the client.                   *)
SharesInbox(r) == \E q \in Reqs \ {r} : inbox[q] = inbox[r] /\ inbox[r] # NoInbox

(* A request whose inbox is its own (generated, or from new_mailbox and    *)
(* not reused) is only ever completed with its own answer, however late    *)
(* the answers to earlier requests that timed out arrive.  Retries that    *)
(* share an inbox can be given each other's.                               *)
OwnAnswer ==
  \A r \in Reqs : ~SharesInbox(r) => got[r] \subseteq {r}

(* A timeout that is not negative is never longer than asked and less than *)
(* a millisecond shorter, at any value of the unit; a negative one becomes *)
(* zero or more than half the range.                                       *)
TimeoutFaithful ==
  \A r \in Reqs : timeout[r] # NoTime =>
    IF asked[r] >= 0
    THEN timeout[r] * PerMs <= asked[r] /\ asked[r] < (timeout[r] + 1) * PerMs
    ELSE timeout[r] = 0 \/ timeout[r] > Word \div 2

(* A request that was sent ends though nobody answers, unless its timeout  *)
(* was negative.                                                           *)
RequestEnds ==
  \A r \in Reqs :
    phase[r] = "spawned" /\ asked[r] >= 0 ~> phase[r] \in {"done", "timedout"}
=============================================================================
