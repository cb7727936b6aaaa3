---------------------------- MODULE HeaderViews ----------------------------
(***************************************************************************)
(* Reading the headers of one message: HeadersView and its HeaderIterator, *)
(* the HeaderVectorView of one header's values (borrowed from the iterator *)
(* or owning one that get_header made) and that view's Iterator.  C++      *)
(* checks bounds against sizes it cached; Rust holds the cursor and panics *)
(* ("must be checked on C++ side") when C++ asks for too much.             *)
(*                                                                         *)
(* A message may have a list of headers, each with its number of           *)
(* values.  Positions are size_t: numbers below Word, with wrap around.    *)
(* `out` is how the last operation ended; a panic is the end.              *)
(*                                                                         *)
(* Contract: iterators and vector views hold no reference on the message   *)
(* they read, so a client keeps the Message or HeadersView until they are  *)
(* gone (message.rs:107 has it the other way round).  Here the message     *)
(* lives throughout.                                                       *)
(***************************************************************************)
EXTENDS Naturals, Sequences

CONSTANTS
  MaxHeaders, MaxValues,  \* bounds: headers of a message, values of a header
  Word                    \* positions are modulo Word (2^64 in the code)

ASSUME ViewsAssumption ==
  /\ MaxHeaders \in Nat /\ MaxValues \in Nat \ {0}
  /\ Word \in Nat /\ Word > MaxValues

(* The number of values of each header.                                    *)
Maps == UNION {[1 .. n -> 1 .. MaxValues] : n \in 0 .. MaxHeaders}

VARIABLES
  some,     \* msg.0.headers is Some (perhaps of an empty map)
  headers,  \* that map, empty when there is none
  iter,     \* HeaderIterator: 0 is nullptr, k is Rust's cursor on header k
  view,     \* HeaderVectorView: what it reads, its cached size, who owns it
  pos,      \* position of the view's Iterator
  far,      \* history: operator- went back by more than the position
  passed,   \* history: headers the HeaderIterator has been on since begin()
  ended,    \* history: the loop has reached end()
  out       \* "ok", "throw" or "panic"

viewsVars == <<some, headers, iter, view, pos, far, passed, ended, out>>

NoView == [of |-> 0, size |-> 0, owns |-> FALSE]

ViewsInit ==
  /\ some \in BOOLEAN
  /\ headers \in IF some THEN Maps ELSE {<<>>}
  /\ iter = 0
  /\ view = NoView
  /\ pos = 0
  /\ far = FALSE
  /\ passed = <<>>
  /\ ended = FALSE
  /\ out = "ok"

Running == out \in {"ok", "throw"}

-----------------------------------------------------------------------------
(* operator++ calls ..._next: Rust aborts on nullptr, moves the cursor,    *)
(* and at the end C++ frees the iterator and keeps nullptr.                *)
Advance(k) == IF k < Len(headers) THEN k + 1 ELSE 0

(* The iterator arrives on header k, or at end() with 0.                   *)
Arrive(k) ==
  /\ iter' = k
  /\ passed' = IF k = 0 THEN passed ELSE Append(passed, k)

(* Mutant: a constructor that does not advance leaves it to the first ++.  *)
BeginSkips ==
  /\ Running /\ iter = 0 /\ passed = <<>>
  /\ Arrive(IF ~some THEN 0 ELSE Advance(Advance(0)))
  /\ ended' = (iter' = 0)
  /\ out' = "ok"
  /\ UNCHANGED <<some, headers, view, pos, far>>

(* HeadersView::begin: nullptr without headers, otherwise a new iterator   *)
(* which the constructor advances to the first header.                     *)
Begin ==
  /\ Running /\ iter = 0 /\ passed = <<>>
  /\ Arrive(IF ~some THEN 0 ELSE Advance(0))
  /\ ended' = (iter' = 0)
  /\ out' = "ok"
  /\ UNCHANGED <<some, headers, view, pos, far>>

(* HeaderIterator::operator++.  A borrowed view is invalid from here on    *)
(* (message.hpp:194).  The loop's test against end() comes first.          *)
Increment ==
  /\ Running /\ iter # 0
  /\ Arrive(Advance(iter))
  /\ ended' = (iter' = 0)
  /\ out' = "ok"
  /\ view' = IF view.owns THEN view ELSE NoView
  /\ pos' = IF view.owns THEN pos ELSE 0
  /\ far' = (view.owns /\ far)
  /\ UNCHANGED <<some, headers>>

(* HeaderIterator::operator*: the key, and a view that borrows the         *)
(* iterator and caches the number of values.                               *)
Deref ==
  /\ Running /\ iter # 0
  /\ view' = [of |-> iter, size |-> headers[iter], owns |-> FALSE]
  /\ pos' = 0 /\ far' = FALSE
  /\ out' = "ok"
  /\ UNCHANGED <<some, headers, iter, passed, ended>>

(* HeadersView::get_header: a view that owns an iterator of its own, or    *)
(* nullopt (an empty name, no headers, no such header).                    *)
GetHeader(k) ==
  /\ Running
  /\ view' = IF some /\ k \in DOMAIN headers
             THEN [of |-> k, size |-> headers[k], owns |-> TRUE] ELSE NoView
  /\ pos' = 0 /\ far' = FALSE
  /\ out' = "ok"
  /\ UNCHANGED <<some, headers, iter, passed, ended>>

(* ..._value_at of header k: Rust panics past the values it has.           *)
ValueAt(k, i) == IF i < headers[k] THEN "ok" ELSE "panic"

(* Mutant: an off-by-one in the bound.                                     *)
AtOffByOne(i) ==
  /\ Running /\ view # NoView
  /\ out' = IF i > view.size THEN "throw" ELSE ValueAt(view.of, i)
  /\ UNCHANGED <<some, headers, iter, view, pos, far, passed, ended>>

(* HeaderVectorView::at, and Iterator::operator* with the iterator's       *)
(* position.                                                               *)
At(i) ==
  /\ Running /\ view # NoView
  /\ out' = IF i >= view.size THEN "throw" ELSE ValueAt(view.of, i)
  /\ UNCHANGED <<some, headers, iter, view, pos, far, passed, ended>>

-----------------------------------------------------------------------------
(* Iterator's arithmetic on positions p of a view of size s.               *)
Inc(p, s)     == IF p < s THEN p + 1 ELSE p
Dec(p)        == IF p # 0 THEN p - 1 ELSE p

(* Mutant: no bound.                                                       *)
PlusUnchecked(p, n, s) == (p + n) % Word

Plus(p, n, s) == IF (p + n) % Word < s THEN (p + n) % Word ELSE p

(* operator-: subtracts when the position is at most the distance.         *)
Minus(p, n) == IF p <= n THEN (p + Word - n) % Word ELSE p

MoveTo(p, f) ==
  /\ Running /\ view # NoView
  /\ pos' = p
  /\ far' = f
  /\ out' = "ok"
  /\ UNCHANGED <<some, headers, iter, view, passed, ended>>

(* begin() or end(), then any of the four; operator* is At(pos).           *)
Step(n) ==
  \/ MoveTo(0, FALSE)
  \/ MoveTo(view.size, FALSE)
  \/ MoveTo(Inc(pos, view.size), far)
  \/ MoveTo(Dec(pos), far)
  \/ MoveTo(Plus(pos, n, view.size), far)
  \/ MoveTo(Minus(pos, n), far \/ n > pos)

DropView ==
  /\ Running /\ view # NoView
  /\ view' = NoView /\ pos' = 0 /\ far' = FALSE /\ out' = "ok"
  /\ UNCHANGED <<some, headers, iter, passed, ended>>

(* After the loop, or leaving it early.                                    *)
DropIter ==
  /\ Running /\ (iter # 0 \/ ended) /\ (view = NoView \/ view.owns)
  /\ iter' = 0 /\ passed' = <<>> /\ ended' = FALSE /\ out' = "ok"
  /\ UNCHANGED <<some, headers, view, pos, far>>

ViewsNext ==
  \/ Begin \/ Increment \/ Deref \/ DropView \/ DropIter
  \/ \E k \in 1 .. MaxHeaders : GetHeader(k)
  \/ \E n \in 0 .. Word - 1 : Step(n) \/ At(n)

ViewsSpec == ViewsInit /\ [][ViewsNext]_viewsVars

-----------------------------------------------------------------------------
ViewsTypeOK ==
  /\ some \in BOOLEAN /\ headers \in Maps
  /\ iter \in 0 .. MaxHeaders
  /\ view \in [of : 0 .. MaxHeaders, size : 0 .. MaxValues, owns : BOOLEAN]
  /\ pos \in 0 .. Word - 1 /\ far \in BOOLEAN
  /\ passed \in Seq(1 .. MaxHeaders) /\ ended \in BOOLEAN
  /\ out \in {"ok", "throw", "panic"}

(* message.rs:217: an index is checked on the C++ side.  Whatever the      *)
(* arithmetic did to the position, and whichever header the iterator has   *)
(* moved on to, Rust is never asked for a value it does not have.          *)
RustNeverPanics == out \in {"ok", "throw"}

(* A loop over the headers has been on every one of them, in order and     *)
(* once, when it reaches end(): the constructor's own ++ skips none, and a *)
(* message without headers, or with an empty map, ends at once.            *)
LoopSeesAll ==
  ended => passed = [k \in 1 .. Len(headers) |-> k]

(* The position stays between begin() and end() unless operator- was asked *)
(* to go back by more than the position: then it wraps, and only that way. *)
PositionInRange == pos > view.size => far
=============================================================================
