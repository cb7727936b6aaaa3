---------------------------- MODULE MessageRefs ----------------------------
(***************************************************************************)
(* The reference count of a message (message.rs; error.rs counts the same  *)
(* way) under the memory model of C++ and Rust.  Threads copy, hand over,  *)
(* read and destroy handles (Message or HeadersView) of one message.  The  *)
(* increment is an Acquire, the decrement a Release; the thread that       *)
(* counts down from one drops the box in its next step.                    *)
(*                                                                         *)
(* seen[t] is the set of threads whose accesses to the message so far all  *)
(* happen before what t does next.  Every write of the counter after the   *)
(* first is a read-modify-write, so an Acquire synchronizes with every     *)
(* Release before it; `released` is what those have published.             *)
(***************************************************************************)
EXTENDS Naturals, FiniteSets

CONSTANTS
  Threads,
  MaxHandles   \* bound: handles one thread owns at a time

ASSUME RefsAssumption == IsFiniteSet(Threads) /\ MaxHandles \in Nat \ {0}

VARIABLES
  held,      \* handles each thread owns
  refs,      \* the counter
  step,      \* "run", or "free" between counting down from one and the drop
  box,       \* "live" or "freed"
  seen,      \* see above
  released,  \* see above
  droppers   \* history: threads that destroyed a handle

refsVars == <<held, refs, step, box, seen, released, droppers>>

(* into(): the task that received the message makes the box, count one.    *)
RefsInit ==
  /\ \E t \in Threads : held = [u \in Threads |-> IF u = t THEN 1 ELSE 0]
  /\ refs = 1
  /\ step = [t \in Threads |-> "run"]
  /\ box = "live"
  /\ seen = [t \in Threads |-> Threads]
  /\ released = Threads
  /\ droppers = {}

(* t touched the message: nobody else is ordered after that access yet.    *)
Touched(t, s)  == [u \in Threads |-> IF u = t THEN s[u] \cup {t} ELSE s[u] \ {t}]

(* async_nats_message_clone: fetch_add(1, Acquire).                        *)
Copy(t) ==
  /\ step[t] = "run" /\ held[t] \in 1 .. MaxHandles - 1
  /\ held' = [held EXCEPT ![t] = @ + 1]
  /\ refs' = refs + 1
  /\ seen' = [seen EXCEPT ![t] = @ \cup released]
  /\ UNCHANGED <<step, box, released, droppers>>

(* A handle is moved to another thread, through something that             *)
(* synchronizes the two (a queue, a completion handler, a join).           *)
HandOver(t, u) ==
  /\ t # u /\ step[t] = "run" /\ held[t] > 0
  /\ step[u] = "run" /\ held[u] < MaxHandles
  /\ held' = [held EXCEPT ![t] = @ - 1, ![u] = @ + 1]
  /\ seen' = [seen EXCEPT ![u] = @ \cup seen[t]]
  /\ UNCHANGED <<refs, step, box, released, droppers>>

(* An accessor: topic, data, reply_to, headers, status, description,       *)
(* length, to_string.                                                      *)
Access(t) ==
  /\ step[t] = "run" /\ held[t] > 0
  /\ seen' = Touched(t, seen)
  /\ released' = released \ {t}
  /\ UNCHANGED <<held, refs, step, box, droppers>>

(* One handle goes; r is what the decrement publishes, `last` whether this *)
(* thread drops the box.                                                   *)
CountDown(t, last, r) ==
  /\ step[t] = "run" /\ held[t] > 0
  /\ held' = [held EXCEPT ![t] = @ - 1]
  /\ refs' = refs - 1
  /\ released' = released \cup r
  /\ step' = [step EXCEPT ![t] = IF last THEN "free" ELSE "run"]
  /\ droppers' = droppers \cup {t}
  /\ UNCHANGED <<box, seen>>

(* Mutant: the box is dropped when the count reaches one.                  *)
DropEarly(t) == CountDown(t, refs \in {1, 2}, seen[t])

(* Mutant: a relaxed decrement.                                            *)
DropRelaxed(t) == CountDown(t, refs = 1, {})

(* async_nats_message_delete: fetch_sub(1, Release), and the comparison.   *)
Drop(t) == CountDown(t, refs = 1, seen[t])

(* drop(Box::from_raw(msg)), with nothing that acquires before it.         *)
Free(t) ==
  /\ step[t] = "free"
  /\ box' = "freed"
  /\ step' = [step EXCEPT ![t] = "run"]
  /\ UNCHANGED <<held, refs, seen, released, droppers>>

RefsNext ==
  \E t \in Threads :
    \/ Copy(t) \/ Access(t) \/ Drop(t) \/ Free(t)
    \/ \E u \in Threads : HandOver(t, u)

RefsSpec == RefsInit /\ [][RefsNext]_refsVars

-----------------------------------------------------------------------------
RefsTypeOK ==
  /\ held \in [Threads -> 0 .. MaxHandles]
  /\ refs \in Nat
  /\ step \in [Threads -> {"run", "free"}]
  /\ box \in {"live", "freed"}
  /\ seen \in [Threads -> SUBSET Threads] /\ released \subseteq Threads
  /\ droppers \subseteq Threads

(* The handles: the i-th one of thread t is <<t, i>>.                      *)
Slots(h) == {p \in Threads \X (1 .. MaxHandles) : p[2] <= h[p[1]]}

(* The counter is the number of handles, in every interleaving of copies,  *)
(* hand-overs and destructors; one thread at most is on its way to drop    *)
(* the box, a live one, when nobody owns a handle any more; so the box is  *)
(* dropped once and never under a handle.                                  *)
CountExact ==
  /\ refs = Cardinality(Slots(held))
  /\ \A t, u \in Threads : step[t] = "free" /\ step[u] = "free" => t = u
  /\ (\E t \in Threads : step[t] = "free") => refs = 0 /\ box = "live"
  /\ box = "freed" => refs = 0

(* How far the drop of the box is ordered after the accesses to the        *)
(* message (message.hpp:309, "this class is thread safe").  The Release    *)
(* decrements have published every access by then, so one Acquire fence    *)
(* before the drop would order it after all of them.  The code has none    *)
(* (message.rs:25): an access can stay unordered, but only when another    *)
(* thread destroyed a handle, never when the handles were passed on.       *)
DropOneFenceShort ==
  \A t \in Threads :
    step[t] = "free" => /\ released = Threads
                        /\ seen[t] = Threads \/ droppers \ {t} # {}
=============================================================================
