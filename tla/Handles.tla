------------------------------ MODULE Handles ------------------------------
(***************************************************************************)
(* The special member functions of the C++ classes that own a Rust box:    *)
(* constructors, copies, moves, assignments, destructors, and the two that *)
(* give the box away (RequestBuilder::release, Subscribtion::release_raw). *)
(* Every class writes the same members by hand around one raw pointer; the *)
(* classes differ in the traits below.  One thread runs them, in any order *)
(* (MessageRefs has the threads).                                          *)
(*                                                                         *)
(* An object is Gone (not constructed or destroyed), Null (empty or moved  *)
(* from) or points to a box.  A box counts its references; 0 is free       *)
(* memory, which a later allocation may reuse.  After a fault (undefined   *)
(* behaviour in Rust) nothing more is said.                                *)
(*                                                                         *)
(* The error classes also cache the text that what() asks Rust for, in the *)
(* optional str_, which their members treat each in its own way.  A text   *)
(* is named by the box of its error; NullStr is an engaged optional whose  *)
(* OwnedString was moved from, so that its char* is nullptr.               *)
(***************************************************************************)
EXTENDS Naturals, FiniteSets

CONSTANTS
  Objs,        \* C++ objects
  Boxes,       \* heap cells that a Rust box can occupy
  Null, Gone,  \* an object without a box; no object
  Empty,       \* a disengaged str_
  NullStr      \* see above

ASSUME HandlesAssumption ==
  /\ IsFiniteSet(Objs)
  /\ {Null, Gone, Empty, NullStr} \cap Boxes = {}
  /\ Null # Gone /\ Empty # NullStr

-----------------------------------------------------------------------------
(* copy:     "deleted", "shares" (the box counts one more) or "clones" (a  *)
(*           new box)                                                      *)
(* checks:   copying looks for null before it calls Rust                   *)
(* clears:   move assignment leaves the source null                        *)
(* empty:    there is a public way to construct it without a box           *)
(* releases: it can give its box to a Rust task                            *)
Class(name, copy, checks, clears, empty, releases) ==
  [name |-> name, copy |-> copy, checks |-> checks, clears |-> clears,
   empty |-> empty, releases |-> releases]

OwnedString        == Class("OwnedString", "deleted", FALSE, TRUE, TRUE, FALSE)
ConnectionOptions  == Class("ConnectionOptions", "deleted", FALSE, TRUE, FALSE, FALSE)
TokioRuntimeConfig == Class("TokioRuntimeConfig", "deleted", FALSE, TRUE, FALSE, FALSE)
TokioRuntime       == Class("TokioRuntime", "deleted", FALSE, TRUE, FALSE, FALSE)
RequestBuilder     == Class("RequestBuilder", "deleted", FALSE, TRUE, FALSE, TRUE)
Subscribtion       == Class("Subscribtion", "deleted", FALSE, TRUE, TRUE, TRUE)
ConnectionError    == Class("ConnectionError", "shares", FALSE, TRUE, TRUE, FALSE)
RequestError       == Class("RequestError", "shares", FALSE, TRUE, TRUE, FALSE)
Connection         == Class("Connection", "clones", FALSE, TRUE, TRUE, FALSE)
Sender             == Class("Sender", "clones", FALSE, TRUE, FALSE, FALSE)
Receiver           == Class("Receiver", "clones", FALSE, TRUE, FALSE, FALSE)
CancellationToken  == Class("CancellationToken", "clones", FALSE, TRUE, TRUE, FALSE)
HeaderIterator     == Class("HeaderIterator", "deleted", FALSE, TRUE, TRUE, FALSE)

HeaderVectorView   == Class("HeaderVectorView", "deleted", FALSE, FALSE, FALSE, FALSE)

Message            == Class("Message", "shares", TRUE, TRUE, TRUE, FALSE)
HeadersView        == Class("HeadersView", "deleted", FALSE, TRUE, FALSE, FALSE)

(* Classes whose objects point to the same boxes.  A HeadersView takes its *)
(* reference from a Message; every other class has boxes of its own.       *)
Families ==
  {{c} : c \in {OwnedString, ConnectionOptions, TokioRuntimeConfig, TokioRuntime,
                RequestBuilder, Subscribtion, ConnectionError, RequestError,
                Connection, Sender, Receiver, CancellationToken, HeaderIterator,
                HeaderVectorView}}
  \cup {{Message, HeadersView}}

-----------------------------------------------------------------------------
VARIABLES
  cls,    \* the class of each object
  ptr,    \* its raw pointer
  refs,   \* references each box counts
  taken,  \* boxes given to a Rust task, which will free them
  str,    \* the cached text of the error classes
  over,   \* history: errors copy-assigned since they were constructed
  fault   \* "none", "null" or "freed": what Rust was made to dereference

vars == <<cls, ptr, refs, taken, str, over, fault>>

Init ==
  /\ \E f \in Families : cls \in [Objs -> f]
  /\ ptr = [o \in Objs |-> Gone]
  /\ refs = [b \in Boxes |-> 0]
  /\ taken = {}
  /\ str = [o \in Objs |-> Empty]
  /\ over = {}
  /\ fault = "none"

Alive(o) == ptr[o] # Gone

(* The counts once the pointer p has been passed to the delete function,   *)
(* unless it is null: "if (p_ != nullptr) async_nats_..._delete(p_)".      *)
Deleted(p) == IF p \in Boxes THEN [refs EXCEPT ![p] = @ - 1] ELSE refs

DeletesFreed(p) == p \in Boxes /\ refs[p] = 0

Crash(kind) ==
  /\ fault' = kind
  /\ UNCHANGED <<cls, ptr, refs, taken, str, over>>

(* p becomes o's pointer, r the counts; o's text stays.                    *)
Set(o, p, r) ==
  /\ ptr' = [ptr EXCEPT ![o] = p]
  /\ refs' = r
  /\ UNCHANGED <<cls, taken, str, fault>>

IsError(o) == cls[o] \in {ConnectionError, RequestError}

-----------------------------------------------------------------------------
(* A constructor that calls async_nats_..._new, or adopts a fresh box that *)
(* Rust returned; a HeadersView is only made from a Message.               *)
Construct(o) ==
  /\ fault = "none" /\ ~Alive(o) /\ cls[o] # HeadersView
  /\ \E b \in Boxes : refs[b] = 0 /\ Set(o, b, [refs EXCEPT ![b] = 1])
  /\ UNCHANGED over

(* The default constructor, or an adopting one given nullptr.              *)
ConstructEmpty(o) ==
  /\ fault = "none" /\ ~Alive(o) /\ cls[o].empty
  /\ Set(o, Null, refs)
  /\ UNCHANGED over

(* What the clone function runs into when it is called on p while the      *)
(* counts are r; a class that checks does not call it on null.             *)
CloneFault(o, p, r) ==
  CASE p = Null -> IF cls[o].checks THEN "none" ELSE "null"
    [] OTHER    -> IF r[p] = 0 THEN "freed" ELSE "none"

(* o takes a copy of what p points to; r are the counts once o's old       *)
(* pointer has been deleted.  str_ is not copied: a new object has none,   *)
(* and an assigned one keeps the text it had.                              *)
CloneInto(o, p, r) ==
  /\ CloneFault(o, p, r) = "none"
  /\ \/ p = Null /\ Set(o, Null, r)
     \/ p # Null /\ cls[o].copy = "shares" /\ Set(o, p, [r EXCEPT ![p] = @ + 1])
     \/ /\ p # Null /\ cls[o].copy = "clones"
        /\ \E b \in Boxes : r[b] = 0 /\ Set(o, b, [r EXCEPT ![b] = 1])

CloneCrash(o, p, r) ==
  CloneFault(o, p, r) # "none" /\ Crash(CloneFault(o, p, r))

CopyConstruct(o, p) ==
  /\ fault = "none" /\ ~Alive(o) /\ Alive(p)
  /\ cls[o] = cls[p] /\ cls[o].copy # "deleted"
  /\ \/ CloneCrash(o, ptr[p], refs)
     \/ CloneInto(o, ptr[p], refs) /\ UNCHANGED over

(* operator= of o deletes what o had, and then clones p's.                 *)
DeleteAndClone(o, p) ==
  /\ cls[o] = cls[p] /\ cls[o].copy # "deleted"
  /\ \/ DeletesFreed(ptr[o]) /\ Crash("freed")
     \/ ~DeletesFreed(ptr[o]) /\ CloneCrash(o, ptr[p], Deleted(ptr[o]))
     \/ /\ ~DeletesFreed(ptr[o])
        /\ CloneInto(o, ptr[p], Deleted(ptr[o]))
        /\ over' = IF IsError(o) THEN over \cup {o} ELSE over

(* Mutant: no test for self-assignment.                                    *)
CopyAssignSelf(o, p) ==
  fault = "none" /\ Alive(o) /\ Alive(p) /\ DeleteAndClone(o, p)

(* operator=(const T&): nothing for itself.                                *)
CopyAssign(o, p) ==
  fault = "none" /\ o # p /\ Alive(o) /\ Alive(p) /\ DeleteAndClone(o, p)

(* The optional after it was moved from: still engaged if it was.          *)
MovedOut(s) == IF s = Empty THEN Empty ELSE NullStr

(* str_ = std::move(o.str_); a class without a text moves Empty.           *)
MoveText(o, p) ==
  /\ str' = [str EXCEPT ![o] = str[p], ![p] = MovedOut(str[p])]
  /\ over' = IF p \in over THEN over \cup {o} ELSE over \ {o}

(* The pointer changes hands; every move constructor clears its source.    *)
MoveConstruct(o, p) ==
  /\ fault = "none" /\ ~Alive(o) /\ Alive(p) /\ cls[o] = cls[p]
  /\ ptr' = [ptr EXCEPT ![o] = ptr[p], ![p] = Null]
  /\ MoveText(o, p)
  /\ UNCHANGED <<cls, refs, taken, fault>>

(* operator=(T&&) past the delete: take over, clear.                       *)
TakeOver(o, p) ==
  /\ ptr' = [ptr EXCEPT ![o] = ptr[p], ![p] = IF cls[o].clears THEN Null ELSE @]
  /\ UNCHANGED <<cls, taken, fault>>

(* Mutant: the old box is overwritten.                                     *)
MoveAssignForgets(o, p) ==
  /\ fault = "none" /\ o # p /\ Alive(o) /\ Alive(p) /\ cls[o] = cls[p]
  /\ TakeOver(o, p) /\ MoveText(o, p)
  /\ UNCHANGED refs

(* Mutant: the target keeps its old text.                                  *)
MoveAssignKeeps(o, p) ==
  /\ fault = "none" /\ o # p /\ Alive(o) /\ Alive(p) /\ cls[o] = cls[p]
  /\ ~DeletesFreed(ptr[o])
  /\ TakeOver(o, p)
  /\ refs' = Deleted(ptr[o])
  /\ UNCHANGED <<str, over>>

(* operator=(T&&): nothing for itself; delete, take over, clear.           *)
MoveAssign(o, p) ==
  /\ fault = "none" /\ o # p /\ Alive(o) /\ Alive(p) /\ cls[o] = cls[p]
  /\ \/ DeletesFreed(ptr[o]) /\ Crash("freed")
     \/ /\ ~DeletesFreed(ptr[o])
        /\ TakeOver(o, p) /\ MoveText(o, p)
        /\ refs' = Deleted(ptr[o])

(* what() of the error classes: the cached text if there is one, otherwise *)
(* Rust's description; the assert asks for an error then.                  *)
What(o) ==
  /\ fault = "none" /\ Alive(o) /\ IsError(o)
  /\ str[o] = Empty => ptr[o] \in Boxes
  /\ str' = [str EXCEPT ![o] = IF @ = Empty THEN ptr[o] ELSE @]
  /\ UNCHANGED <<cls, ptr, refs, taken, over, fault>>

(* Message::headers: the view takes a reference of its own, if there is a  *)
(* message.                                                                *)
View(o, p) ==
  /\ fault = "none" /\ ~Alive(o) /\ Alive(p)
  /\ cls[o] = HeadersView /\ cls[p] = Message
  /\ Set(o, ptr[p],
         IF ptr[p] = Null THEN refs ELSE [refs EXCEPT ![ptr[p]] = @ + 1])
  /\ UNCHANGED over

Destroy(o) ==
  /\ fault = "none" /\ Alive(o)
  /\ \/ DeletesFreed(ptr[o]) /\ Crash("freed")
     \/ /\ ~DeletesFreed(ptr[o])
        /\ ptr' = [ptr EXCEPT ![o] = Gone]
        /\ refs' = Deleted(ptr[o])
        /\ str' = [str EXCEPT ![o] = Empty]
        /\ over' = over \ {o}
        /\ UNCHANGED <<cls, taken, fault>>

(* release / release_raw, and the call that passes the result to Rust,     *)
(* which turns it back into a Box at once.                                 *)
Release(o) ==
  /\ fault = "none" /\ Alive(o) /\ cls[o].releases
  /\ \/ ptr[o] = Null /\ Crash("null")
     \/ /\ ptr[o] # Null
        /\ taken' = taken \cup {ptr[o]}
        /\ ptr' = [ptr EXCEPT ![o] = Null]
        /\ UNCHANGED <<cls, refs, str, over, fault>>

(* The task that took the box has ended.                                   *)
TaskFrees(b) ==
  /\ fault = "none" /\ b \in taken
  /\ taken' = taken \ {b}
  /\ refs' = [refs EXCEPT ![b] = 0]
  /\ UNCHANGED <<cls, ptr, str, over, fault>>

(* An accessor, on an object that was checked for null as the asserts ask. *)
Use(o) ==
  /\ fault = "none" /\ DeletesFreed(ptr[o])
  /\ Crash("freed")

Next ==
  \/ \E o \in Objs :
       \/ Construct(o) \/ ConstructEmpty(o) \/ Destroy(o) \/ Release(o) \/ Use(o)
       \/ What(o)
       \/ \E p \in Objs : \/ CopyConstruct(o, p) \/ CopyAssign(o, p)
                          \/ MoveConstruct(o, p) \/ MoveAssign(o, p)
                          \/ View(o, p)
  \/ \E b \in Boxes : TaskFrees(b)

Spec == Init /\ [][Next]_vars

-----------------------------------------------------------------------------
TypeOK ==
  /\ \E f \in Families : cls \in [Objs -> f]
  /\ ptr \in [Objs -> Boxes \cup {Null, Gone}]
  /\ refs \in [Boxes -> Nat]
  /\ taken \subseteq Boxes
  /\ str \in [Objs -> Boxes \cup {Empty, NullStr}]
  /\ over \subseteq Objs
  /\ fault \in {"none", "null", "freed"}

Owners(b) == {o \in Objs : ptr[o] = b}

TaskRefs(b) == IF b \in taken THEN 1 ELSE 0

(* In every order of copies, moves, assignments and destructors a box      *)
(* counts exactly the objects (and the task) that point to it: none is     *)
(* leaked, none is freed under an object.  A HeaderVectorView's move       *)
(* assignment leaves its source pointing to the same iterator               *)
(* (message.hpp:49), so its boxes may have more owners than they count,    *)
(* but they do not leak either.                                            *)
Ownership ==
  \A b \in Boxes :
    LET owners == Cardinality(Owners(b)) + TaskRefs(b) IN
      \/ refs[b] = owners
      \/ /\ refs[b] < owners
         /\ \A o \in Owners(b) : cls[o] = HeaderVectorView

(* An object that holds an error and that (with the objects it was moved   *)
(* from) was never copy-assigned to has no text or the text of its error,  *)
(* through any order of copies, moves and calls of what().  The copy       *)
(* assignment alone keeps the text of the error it replaces                *)
(* (connection.hpp:99).                                                    *)
TextOfItsError ==
  \A o \in Objs :
    ptr[o] \in Boxes /\ o \notin over => str[o] \in {Empty, ptr[o]}

(* What the special members can do wrong at all.  Only a HeaderVectorView  *)
(* is freed twice or used after it was freed.  Null reaches Rust only by   *)
(* copying an empty or moved-from object of a class whose copies do not    *)
(* look, or by releasing one twice; a Message can be copied in any state.  *)
FaultsKnown ==
  /\ fault = "freed" => \A o \in Objs : cls[o] = HeaderVectorView
  /\ fault = "null" =>
       \A o \in Objs : cls[o] \in {ConnectionError, RequestError, Connection,
                                   Sender, Receiver, CancellationToken,
                                   RequestBuilder, Subscribtion}
=============================================================================
