--------------------------- MODULE MessageProofs ---------------------------
(***************************************************************************)
(* Proofs about a message: its reference count (MessageRefs), for any      *)
(* finite set of threads and any number of handles per thread, and the     *)
(* views of its headers (HeaderViews), for any number of headers and       *)
(* values and any word size that can hold a header's number of values.     *)
(***************************************************************************)
EXTENDS MessageRefs, HeaderViews, FiniteSetTheorems, SequenceTheorems, TLAPS

-----------------------------------------------------------------------------
(* MessageRefs                                                             *)
-----------------------------------------------------------------------------
(* What lies between two steps, and is inductive: the count, the one       *)
(* thread that may be about to drop the box, and why its drop is ordered   *)
(* the way it is.  Whatever a thread did to the message is known to a      *)
(* thread that still owns a handle or published by a Release decrement;    *)
(* and as long as one thread at most destroyed handles, it is known to     *)
(* that thread or to an owner.                                             *)
Published ==
  \A w \in Threads :
    w \in released \/ \E t \in Threads : held[t] > 0 /\ w \in seen[t]

KnownToOwners ==
  \A d, w \in Threads :
    droppers \subseteq {d} =>
      \E t \in Threads : (held[t] > 0 \/ t \in droppers) /\ w \in seen[t]

RefsIInv == RefsTypeOK /\ CountExact /\ Published /\ KnownToOwners

-----------------------------------------------------------------------------
(* There are finitely many handles.                                        *)
LEMMA SlotsFinite ==
  ASSUME NEW h
  PROVE  IsFiniteSet(Slots(h))
<1>1. IsFiniteSet(1 .. MaxHandles)
  BY FS_Interval, RefsAssumption
<1>2. IsFiniteSet(Threads \X (1 .. MaxHandles))
  BY <1>1, FS_Product, RefsAssumption
<1> QED
  BY <1>2, FS_Subset DEF Slots

(* No handles at all is a count of zero.                                   *)
LEMMA SlotsEmpty ==
  ASSUME NEW h \in [Threads -> 0 .. MaxHandles]
  PROVE  Cardinality(Slots(h)) = 0 <=> \A t \in Threads : h[t] = 0
<1>1. Cardinality(Slots(h)) = 0 <=> Slots(h) = {}
  BY SlotsFinite, FS_EmptySet
<1>2. ASSUME NEW t \in Threads, h[t] # 0 PROVE Slots(h) # {}
  <2>1. <<t, 1>> \in Slots(h)
    BY <1>2, RefsAssumption DEF Slots
  <2> QED
    BY <2>1
<1>3. ASSUME \A t \in Threads : h[t] = 0 PROVE Slots(h) = {}
  BY <1>3 DEF Slots
<1> QED
  BY <1>1, <1>2, <1>3

(* One handle more for one thread is one more in the count.                *)
LEMMA SlotsUp ==
  ASSUME NEW h \in [Threads -> 0 .. MaxHandles], NEW t \in Threads,
         h[t] < MaxHandles
  PROVE  Cardinality(Slots([h EXCEPT ![t] = @ + 1])) = Cardinality(Slots(h)) + 1
<1> DEFINE g == [h EXCEPT ![t] = @ + 1]
           x == <<t, h[t] + 1>>
<1>1. x \notin Slots(h)
  BY DEF Slots
<1>2. Slots(g) = Slots(h) \cup {x}
  BY RefsAssumption DEF Slots
<1> HIDE DEF g, x
<1>3. Cardinality(Slots(g)) = Cardinality(Slots(h)) + 1
  BY <1>1, <1>2, SlotsFinite, FS_AddElement
<1> QED
  BY <1>3 DEF g

(* One handle less for one thread is one less in the count.                *)
LEMMA SlotsDown ==
  ASSUME NEW h \in [Threads -> 0 .. MaxHandles], NEW t \in Threads, h[t] > 0
  PROVE  /\ Cardinality(Slots([h EXCEPT ![t] = @ - 1])) = Cardinality(Slots(h)) - 1
         /\ Cardinality(Slots(h)) \in Nat \ {0}
<1> DEFINE g == [h EXCEPT ![t] = @ - 1]
<1>1. g \in [Threads -> 0 .. MaxHandles] /\ g[t] < MaxHandles
  BY RefsAssumption
<1>2. [g EXCEPT ![t] = @ + 1] = h
  <2>1. g[t] + 1 = h[t]
    OBVIOUS
  <2>2. [g EXCEPT ![t] = h[t]] = h
    OBVIOUS
  <2> QED
    BY <2>1, <2>2
<1> HIDE DEF g
<1>3. Cardinality(Slots(h)) = Cardinality(Slots(g)) + 1
  BY <1>1, <1>2, SlotsUp
<1>4. Cardinality(Slots(g)) \in Nat
  BY SlotsFinite, FS_CardinalityType
<1>5. /\ Cardinality(Slots(g)) = Cardinality(Slots(h)) - 1
      /\ Cardinality(Slots(h)) \in Nat \ {0}
  BY <1>3, <1>4
<1> QED
  BY <1>5 DEF g

-----------------------------------------------------------------------------
(* At the start one thread owns the one handle.                            *)
LEMMA RefsInitIInv == RefsInit => RefsIInv
<1> SUFFICES ASSUME RefsInit PROVE RefsIInv
  OBVIOUS
<1>1. PICK t \in Threads : held = [u \in Threads |-> IF u = t THEN 1 ELSE 0]
  BY DEF RefsInit
<1>2. RefsTypeOK
  BY <1>1, RefsAssumption DEF RefsInit, RefsTypeOK
<1>3. CountExact
  <2>1. Slots(held) = {<<t, 1>>}
    BY <1>1, RefsAssumption DEF Slots
  <2>2. Cardinality(Slots(held)) = 1
    BY <2>1, FS_Singleton
  <2> QED
    BY <2>2 DEF RefsInit, CountExact
<1>4. Published
  BY DEF RefsInit, Published
<1>5. KnownToOwners
  <2>1. held[t] > 0 /\ seen[t] = Threads
    BY <1>1 DEF RefsInit
  <2> QED
    BY <2>1 DEF KnownToOwners
<1> QED
  BY <1>2, <1>3, <1>4, <1>5 DEF RefsIInv

(* The types are kept by every step, given that a step that gives back a   *)
(* handle finds the counter above zero.                                    *)
LEMMA RefsTypeStep ==
  ASSUME RefsIInv, [RefsNext]_refsVars
  PROVE  RefsTypeOK'
<1> USE RefsAssumption
<1>0. RefsTypeOK
  BY DEF RefsIInv
<1>1. ASSUME NEW t \in Threads, Copy(t) PROVE RefsTypeOK'
  BY <1>0, <1>1 DEF Copy, RefsTypeOK
<1>2. ASSUME NEW t \in Threads, Access(t) PROVE RefsTypeOK'
  BY <1>0, <1>2 DEF Access, Touched, RefsTypeOK
<1>3. ASSUME NEW t \in Threads, Drop(t) PROVE RefsTypeOK'
  <2>1. refs \in Nat \ {0}
    BY <1>0, <1>3, SlotsDown DEF RefsIInv, CountExact, Drop, CountDown, RefsTypeOK
  <2>2. refs' \in Nat
    BY <1>3, <2>1 DEF Drop, CountDown
  <2>3. held' \in [Threads -> 0 .. MaxHandles]
    BY <1>0, <1>3 DEF Drop, CountDown, RefsTypeOK
  <2> QED
    BY <1>0, <1>3, <2>2, <2>3 DEF Drop, CountDown, RefsTypeOK
<1>4. ASSUME NEW t \in Threads, Free(t) PROVE RefsTypeOK'
  BY <1>0, <1>4 DEF Free, RefsTypeOK
<1>5. ASSUME NEW t \in Threads, NEW u \in Threads, HandOver(t, u)
      PROVE  RefsTypeOK'
  <2>1. held' \in [Threads -> 0 .. MaxHandles]
    BY <1>0, <1>5 DEF HandOver, RefsTypeOK
  <2>2. seen' \in [Threads -> SUBSET Threads]
    BY <1>0, <1>5 DEF HandOver, RefsTypeOK
  <2> QED
    BY <1>0, <1>5, <2>1, <2>2 DEF HandOver, RefsTypeOK
<1>6. CASE UNCHANGED refsVars
  BY <1>0, <1>6 DEF refsVars, RefsTypeOK
<1> QED
  BY <1>1, <1>2, <1>3, <1>4, <1>5, <1>6 DEF RefsNext

(* While a thread is on its way to drop the box nobody owns a handle.      *)
LEMMA NobodyOwns ==
  ASSUME RefsTypeOK, CountExact
  PROVE  refs = 0 <=> \A t \in Threads : held[t] = 0
BY SlotsEmpty DEF RefsTypeOK, CountExact

(* The counter stays the number of handles, and the drop of the box stays  *)
(* the last thing that happens.                                            *)
LEMMA CountStep ==
  ASSUME RefsIInv, [RefsNext]_refsVars
  PROVE  CountExact'
<1>0. /\ RefsTypeOK /\ CountExact
      /\ refs = 0 <=> \A t \in Threads : held[t] = 0
  BY NobodyOwns DEF RefsIInv
<1>1. ASSUME NEW t \in Threads, Copy(t) PROVE CountExact'
  <2>1. refs # 0 /\ refs' # 0
    BY <1>0, <1>1 DEF Copy, RefsTypeOK
  <2>2. refs' = Cardinality(Slots(held'))
    <3>1. /\ held \in [Threads -> 0 .. MaxHandles] /\ held[t] < MaxHandles
          /\ held' = [held EXCEPT ![t] = @ + 1] /\ refs' = refs + 1
      BY <1>0, <1>1, RefsAssumption DEF Copy, RefsTypeOK
    <3> QED
      BY <1>0, <3>1, SlotsUp DEF CountExact
  <2> QED
    BY <1>0, <1>1, <2>1, <2>2 DEF Copy, CountExact
<1>2. ASSUME NEW t \in Threads, Access(t) PROVE CountExact'
  BY <1>0, <1>2 DEF Access, CountExact
<1>3. ASSUME NEW t \in Threads, Drop(t) PROVE CountExact'
  <2>1. /\ step[t] = "run" /\ held[t] > 0 /\ refs' = refs - 1
        /\ held' = [held EXCEPT ![t] = @ - 1] /\ box' = box
        /\ step' = [step EXCEPT ![t] = IF refs = 1 THEN "free" ELSE "run"]
    BY <1>3 DEF Drop, CountDown
  <2>2. refs # 0 /\ \A u \in Threads : step[u] = "run"
    BY <1>0, <2>1 DEF CountExact, RefsTypeOK
  <2>3. refs' = Cardinality(Slots(held'))
    BY <1>0, <2>1, SlotsDown DEF RefsTypeOK, CountExact
  <2>4. \A u \in Threads : step'[u] = "free" => u = t /\ refs' = 0
    BY <1>0, <2>1, <2>2 DEF RefsTypeOK
  <2> QED
    BY <1>0, <2>1, <2>2, <2>3, <2>4 DEF CountExact, RefsTypeOK
<1>4. ASSUME NEW t \in Threads, Free(t) PROVE CountExact'
  <2>1. refs = 0 /\ \A u \in Threads : step[u] = "free" => u = t
    BY <1>0, <1>4 DEF Free, CountExact
  <2>2. \A u \in Threads : step'[u] # "free"
    BY <1>0, <1>4, <2>1 DEF Free, RefsTypeOK
  <2> QED
    BY <1>0, <1>4, <2>1, <2>2 DEF Free, CountExact
<1>5. ASSUME NEW t \in Threads, NEW u \in Threads, HandOver(t, u)
      PROVE  CountExact'
  <2> DEFINE h == [held EXCEPT ![t] = @ - 1]
  <2>1. /\ h \in [Threads -> 0 .. MaxHandles] /\ h[u] < MaxHandles
        /\ held' = [h EXCEPT ![u] = @ + 1]
    <3>1. h \in [Threads -> 0 .. MaxHandles] /\ h[u] = held[u]
      BY <1>0, <1>5, RefsAssumption DEF HandOver, RefsTypeOK
    <3>2. held' = [h EXCEPT ![u] = held[u] + 1]
      BY <1>0, <1>5 DEF HandOver, RefsTypeOK
    <3> QED
      BY <1>5, <3>1, <3>2 DEF HandOver
  <2>2. Cardinality(Slots(h)) = refs - 1
    BY <1>0, <1>5, SlotsDown DEF HandOver, RefsTypeOK, CountExact
  <2> HIDE DEF h
  <2>3. Cardinality(Slots(held')) = refs
    <3>1. Cardinality(Slots([h EXCEPT ![u] = @ + 1])) = Cardinality(Slots(h)) + 1
      BY <2>1, SlotsUp
    <3>2. refs - 1 + 1 = refs
      BY <1>0 DEF RefsTypeOK
    <3> QED
      BY <2>1, <2>2, <3>1, <3>2
  <2> QED
    BY <1>0, <1>5, <2>3 DEF HandOver, CountExact
<1>6. CASE UNCHANGED refsVars
  BY <1>0, <1>6 DEF refsVars, CountExact
<1> QED
  BY <1>1, <1>2, <1>3, <1>4, <1>5, <1>6 DEF RefsNext

(* No access is lost sight of: it stays known to an owner of a handle or   *)
(* published by the decrement of a former owner.                           *)
LEMMA PublishedStep ==
  ASSUME RefsIInv, [RefsNext]_refsVars
  PROVE  Published'
<1>0. RefsTypeOK /\ Published
  BY DEF RefsIInv
<1>1. ASSUME NEW t \in Threads, Copy(t) PROVE Published'
  BY <1>0, <1>1 DEF Copy, RefsTypeOK, Published
<1>2. ASSUME NEW t \in Threads, Access(t) PROVE Published'
  BY <1>0, <1>2 DEF Access, Touched, RefsTypeOK, Published
<1>3. ASSUME NEW t \in Threads, Drop(t) PROVE Published'
  BY <1>0, <1>3 DEF Drop, CountDown, RefsTypeOK, Published
<1>4. ASSUME NEW t \in Threads, Free(t) PROVE Published'
  BY <1>0, <1>4 DEF Free, Published
<1>5. ASSUME NEW t \in Threads, NEW u \in Threads, HandOver(t, u)
      PROVE  Published'
  <2> SUFFICES ASSUME NEW w \in Threads, w \notin released
               PROVE  \E v \in Threads : held'[v] > 0 /\ w \in seen'[v]
    BY <1>5 DEF HandOver, Published
  <2>1. PICK v \in Threads : held[v] > 0 /\ w \in seen[v]
    BY <1>0 DEF Published
  <2>2. CASE v = t
    <3>1. held'[u] > 0 /\ w \in seen'[u]
      BY <1>0, <1>5, <2>1, <2>2 DEF HandOver, RefsTypeOK
    <3> QED
      BY <3>1
  <2>3. CASE v # t
    <3>1. held'[v] > 0 /\ w \in seen'[v]
      BY <1>0, <1>5, <2>1, <2>3 DEF HandOver, RefsTypeOK
    <3> QED
      BY <3>1
  <2> QED
    BY <2>2, <2>3
<1>6. CASE UNCHANGED refsVars
  BY <1>0, <1>6 DEF refsVars, Published
<1> QED
  BY <1>1, <1>2, <1>3, <1>4, <1>5, <1>6 DEF RefsNext

(* With one thread at most that destroyed handles, every access stays      *)
(* known to it or to an owner.                                             *)
LEMMA KnownStep ==
  ASSUME RefsIInv, [RefsNext]_refsVars
  PROVE  KnownToOwners'
<1>0. RefsTypeOK /\ KnownToOwners
  BY DEF RefsIInv
<1>1. ASSUME NEW t \in Threads, Copy(t) PROVE KnownToOwners'
  BY <1>0, <1>1 DEF Copy, RefsTypeOK, KnownToOwners
<1>2. ASSUME NEW t \in Threads, Access(t) PROVE KnownToOwners'
  <2> SUFFICES ASSUME NEW d \in Threads, NEW w \in Threads,
                      droppers \subseteq {d}
               PROVE  \E v \in Threads : /\ held[v] > 0 \/ v \in droppers
                                         /\ w \in seen'[v]
    BY <1>2 DEF Access, KnownToOwners
  <2>1. CASE w = t
    <3>1. held[t] > 0 /\ w \in seen'[t]
      BY <1>0, <1>2, <2>1 DEF Access, Touched, RefsTypeOK
    <3> QED
      BY <3>1
  <2>2. CASE w # t
    <3>1. PICK v \in Threads : (held[v] > 0 \/ v \in droppers) /\ w \in seen[v]
      BY <1>0 DEF KnownToOwners
    <3>2. w \in seen'[v]
      BY <1>0, <1>2, <2>2, <3>1 DEF Access, Touched, RefsTypeOK
    <3> QED
      BY <3>1, <3>2
  <2> QED
    BY <2>1, <2>2
<1>3. ASSUME NEW t \in Threads, Drop(t) PROVE KnownToOwners'
  <2> SUFFICES ASSUME NEW d \in Threads, NEW w \in Threads,
                      droppers' \subseteq {d}
               PROVE  \E v \in Threads : /\ held'[v] > 0 \/ v \in droppers'
                                         /\ w \in seen'[v]
    BY DEF KnownToOwners
  <2>1. droppers \subseteq {d} /\ t \in droppers' /\ droppers \subseteq droppers'
    BY <1>3 DEF Drop, CountDown
  <2>2. PICK v \in Threads : (held[v] > 0 \/ v \in droppers) /\ w \in seen[v]
    BY <1>0, <2>1 DEF KnownToOwners
  <2>3. held'[v] > 0 \/ v \in droppers'
    BY <1>0, <1>3, <2>1, <2>2 DEF Drop, CountDown, RefsTypeOK
  <2> QED
    BY <1>3, <2>2, <2>3 DEF Drop, CountDown
<1>4. ASSUME NEW t \in Threads, Free(t) PROVE KnownToOwners'
  BY <1>0, <1>4 DEF Free, KnownToOwners
<1>5. ASSUME NEW t \in Threads, NEW u \in Threads, HandOver(t, u)
      PROVE  KnownToOwners'
  <2> SUFFICES ASSUME NEW d \in Threads, NEW w \in Threads,
                      droppers \subseteq {d}
               PROVE  \E v \in Threads : /\ held'[v] > 0 \/ v \in droppers
                                         /\ w \in seen'[v]
    BY <1>5 DEF HandOver, KnownToOwners
  <2>1. PICK v \in Threads : (held[v] > 0 \/ v \in droppers) /\ w \in seen[v]
    BY <1>0 DEF KnownToOwners
  <2>2. CASE v = t
    <3>1. held'[u] > 0 /\ w \in seen'[u]
      BY <1>0, <1>5, <2>1, <2>2 DEF HandOver, RefsTypeOK
    <3> QED
      BY <3>1
  <2>3. CASE v # t
    <3>1. (held'[v] > 0 \/ v \in droppers) /\ w \in seen'[v]
      BY <1>0, <1>5, <2>1, <2>3 DEF HandOver, RefsTypeOK
    <3> QED
      BY <3>1
  <2> QED
    BY <2>2, <2>3
<1>6. CASE UNCHANGED refsVars
  BY <1>0, <1>6 DEF refsVars, KnownToOwners
<1> QED
  BY <1>1, <1>2, <1>3, <1>4, <1>5, <1>6 DEF RefsNext

(* The inductive invariant holds in every reachable state.                 *)
THEOREM RefsInvariant == RefsSpec => []RefsIInv
<1>1. RefsIInv /\ [RefsNext]_refsVars => RefsIInv'
  BY RefsTypeStep, CountStep, PublishedStep, KnownStep DEF RefsIInv
<1> QED
  BY RefsInitIInv, <1>1, PTL DEF RefsSpec

(* message.rs: for any number of threads and handles the counter of a      *)
(* message is the number of its handles, and the box is dropped once, when *)
(* nobody owns one.                                                        *)
THEOREM Counting == RefsSpec => []CountExact
<1>1. RefsIInv => CountExact
  BY DEF RefsIInv
<1> QED
  BY <1>1, RefsInvariant, PTL

(* message.rs:25: when the box is dropped every access to the message has  *)
(* been published by a Release, and the drop is ordered after all of them  *)
(* unless another thread destroyed a handle.                               *)
THEOREM DropOrder == RefsSpec => []DropOneFenceShort
<1>1. RefsIInv => DropOneFenceShort
  <2> SUFFICES ASSUME RefsIInv, NEW t \in Threads, step[t] = "free"
               PROVE  /\ released = Threads
                      /\ seen[t] = Threads \/ droppers \ {t} # {}
    BY DEF DropOneFenceShort
  <2>1. RefsTypeOK /\ \A u \in Threads : ~(held[u] > 0)
    BY NobodyOwns DEF RefsIInv, CountExact, RefsTypeOK
  <2>2. released = Threads
    BY <2>1 DEF RefsIInv, Published, RefsTypeOK
  <2>3. ASSUME droppers \ {t} = {} PROVE seen[t] = Threads
    BY <2>1, <2>3 DEF RefsIInv, KnownToOwners, RefsTypeOK
  <2> QED
    BY <2>2, <2>3
<1> QED
  BY <1>1, RefsInvariant, PTL

(* What a step may never do: once the counter is at zero no handle is      *)
(* copied, passed on, read through or destroyed, and once the box is       *)
(* dropped nothing happens to the message any more.                        *)
Untouched ==
  [][/\ refs = 0 => UNCHANGED <<held, refs, seen, released, droppers>>
     /\ box = "freed" => UNCHANGED refsVars]_refsVars

(* message.rs:25, between the decrement that finds a one and the drop, and *)
(* after it: the thread that drops the box is alone with it, whatever the  *)
(* other threads still do.                                                 *)
THEOREM NoUseAfterDrop == RefsSpec => Untouched
<1>1. ASSUME RefsIInv, [RefsNext]_refsVars
      PROVE  [/\ refs = 0 => UNCHANGED <<held, refs, seen, released, droppers>>
              /\ box = "freed" => UNCHANGED refsVars]_refsVars
  <2>1. RefsTypeOK /\ CountExact
    BY <1>1 DEF RefsIInv
  <2>2. ASSUME refs = 0, RefsNext
        PROVE  UNCHANGED <<held, refs, seen, released, droppers>>
    <3>1. \A u \in Threads : ~(held[u] > 0) /\ held[u] \notin 1 .. MaxHandles - 1
      BY <2>1, <2>2, NobodyOwns
    <3> QED
      BY <2>2, <3>1
         DEF RefsNext, Copy, Access, Drop, CountDown, Free, HandOver
  <2>3. ASSUME box = "freed", RefsNext PROVE FALSE
    <3>1. refs = 0 /\ \A u \in Threads : step[u] # "free"
      BY <2>1, <2>3 DEF CountExact
    <3>2. \A u \in Threads : ~(held[u] > 0) /\ held[u] \notin 1 .. MaxHandles - 1
      BY <2>1, <3>1, NobodyOwns
    <3> QED
      BY <2>3, <3>1, <3>2
         DEF RefsNext, Copy, Access, Drop, CountDown, Free, HandOver
  <2> QED
    BY <1>1, <2>2, <2>3
<1> QED
  BY <1>1, RefsInvariant, PTL DEF RefsSpec, Untouched

-----------------------------------------------------------------------------
(* HeaderViews                                                             *)
-----------------------------------------------------------------------------
(* The header names 1, ..., n in the order a loop meets them.              *)
UpTo(n) == [k \in 1 .. n |-> k]

(* The cursor is on a header of the map, and a message without headers has *)
(* nothing to be on.                                                       *)
OnHeader == iter \in 0 .. Len(headers) /\ (~some => Len(headers) = 0)

(* A view's cached size is the number of values its header has in Rust.    *)
CachedSize ==
  view = NoView \/ (view.of \in DOMAIN headers /\ view.size = headers[view.of])

(* Where a loop stands: on header k having met 1, ..., k; at end() having  *)
(* met all; or not begun.                                                  *)
LoopStands ==
  /\ iter # 0 => ~ended /\ passed = UpTo(iter)
  /\ iter = 0 /\ ~ended => passed = <<>>
  /\ ended => passed = UpTo(Len(headers))

ViewsIInv ==
  /\ ViewsTypeOK /\ OnHeader /\ CachedSize /\ LoopStands
  /\ RustNeverPanics /\ PositionInRange

-----------------------------------------------------------------------------
(* Arithmetic on positions stays below Word, and a full turn is no turn.   *)
LEMMA ModRange ==
  ASSUME NEW n \in Nat
  PROVE  n % Word \in 0 .. Word - 1
BY ViewsAssumption

(* Going back to where one is, modulo the width, is position zero.         *)
LEMMA FullTurn ==
  ASSUME NEW n \in 0 .. Word - 1
  PROVE  (n + Word - n) % Word = 0
<1>1. n + Word - n = Word
  BY ViewsAssumption
<1>2. Word % Word = 0
  BY ViewsAssumption
<1> QED
  BY <1>1, <1>2

(* What the iterator's operators do to a position p of a view of size s:   *)
(* operator+, ++ and -- never leave the view from inside it and never move *)
(* a position that is past the end any further; operator- leaves it only   *)
(* when it goes back by more than p.                                       *)
LEMMA Positions ==
  ASSUME NEW p \in 0 .. Word - 1, NEW n \in 0 .. Word - 1,
         NEW s \in 0 .. MaxValues
  PROVE  /\ Inc(p, s) \in 0 .. Word - 1 /\ (Inc(p, s) > s => p > s)
         /\ Dec(p) \in 0 .. Word - 1 /\ (Dec(p) > s => p > s)
         /\ Plus(p, n, s) \in 0 .. Word - 1 /\ (Plus(p, n, s) > s => p > s)
         /\ Minus(p, n) \in 0 .. Word - 1
         /\ (Minus(p, n) > s => p > s \/ n > p)
<1> USE ViewsAssumption
<1>1. Inc(p, s) \in 0 .. Word - 1 /\ (Inc(p, s) > s => p > s)
  BY DEF Inc
<1>2. Dec(p) \in 0 .. Word - 1 /\ (Dec(p) > s => p > s)
  BY DEF Dec
<1>3. Plus(p, n, s) \in 0 .. Word - 1 /\ (Plus(p, n, s) > s => p > s)
  <2>1. (p + n) % Word \in 0 .. Word - 1
    BY ModRange
  <2> QED
    BY <2>1 DEF Plus
<1>4. Minus(p, n) \in 0 .. Word - 1 /\ (Minus(p, n) > s => p > s \/ n > p)
  <2>1. p + Word - n \in Nat
    OBVIOUS
  <2>2. (p + Word - n) % Word \in 0 .. Word - 1
    BY <2>1, ModRange
  <2>3. p = n => (p + Word - n) % Word = 0
    BY FullTurn
  <2> QED
    BY <2>2, <2>3 DEF Minus
<1> QED
  BY <1>1, <1>2, <1>3, <1>4

(* A map is a sequence of numbers of values.                               *)
LEMMA MapShape ==
  ASSUME headers \in Maps
  PROVE  /\ Len(headers) \in 0 .. MaxHeaders
         /\ DOMAIN headers = 1 .. Len(headers)
         /\ \A k \in DOMAIN headers : headers[k] \in 1 .. MaxValues
<1>1. PICK n \in 0 .. MaxHeaders : headers \in [1 .. n -> 1 .. MaxValues]
  BY DEF Maps
<1>2. n \in Nat
  BY ViewsAssumption
<1>3. headers \in Seq(1 .. MaxValues) /\ Len(headers) = n
  <2>1. DOMAIN headers = 1 .. n
    BY <1>1
  <2>2. headers \in Seq(1 .. MaxValues)
    BY <1>1, <1>2, SeqDef
  <2> QED
    BY <1>2, <2>1, <2>2, LenProperties
<1> QED
  BY <1>1, <1>3

(* Meeting one header more.                                                *)
LEMMA UpToNext ==
  ASSUME NEW n \in Nat
  PROVE  /\ UpTo(0) = <<>> /\ UpTo(n) \in Seq(1 .. n)
         /\ Append(UpTo(n), n + 1) = UpTo(n + 1)
<1>1. UpTo(0) = <<>>
  BY DEF UpTo
<1>2. UpTo(n) \in Seq(1 .. n) /\ Len(UpTo(n)) = n
  BY DEF UpTo
<1>3. Append(UpTo(n), n + 1) = UpTo(n + 1)
  BY <1>2 DEF UpTo
<1> QED
  BY <1>1, <1>2, <1>3

-----------------------------------------------------------------------------
(* The initial states satisfy the invariant.                               *)
LEMMA ViewsInitIInv == ViewsInit => ViewsIInv
<1> SUFFICES ASSUME ViewsInit PROVE ViewsIInv
  OBVIOUS
<1> USE ViewsAssumption
<1>1. <<>> \in Maps
  <2>1. <<>> \in [1 .. 0 -> 1 .. MaxValues]
    OBVIOUS
  <2> QED
    BY <2>1 DEF Maps
<1>2. headers \in Maps /\ (~some => headers = <<>>)
  BY <1>1 DEF ViewsInit
<1>3. Len(headers) \in 0 .. MaxHeaders
  BY <1>2, MapShape
<1>4. ViewsTypeOK
  <2>1. some \in BOOLEAN /\ far \in BOOLEAN /\ ended \in BOOLEAN
    BY Zenon DEF ViewsInit
  <2>2. view \in [of : 0 .. MaxHeaders, size : 0 .. MaxValues, owns : BOOLEAN]
    BY DEF ViewsInit, NoView
  <2>3. /\ iter \in 0 .. MaxHeaders /\ pos \in 0 .. Word - 1
        /\ passed \in Seq(1 .. MaxHeaders) /\ out \in {"ok", "throw", "panic"}
    BY DEF ViewsInit
  <2> QED
    BY <1>2, <2>1, <2>2, <2>3 DEF ViewsTypeOK
<1>5. OnHeader /\ CachedSize /\ LoopStands
  BY <1>2, <1>3 DEF ViewsInit, OnHeader, CachedSize, LoopStands
<1> QED
  BY <1>4, <1>5 DEF ViewsInit, ViewsIInv, RustNeverPanics, PositionInRange, NoView

(* The iterator moves on from header k, or from before the first with 0:   *)
(* it reaches the next header having met one more, or end() having met all.*)
LEMMA ArriveStep ==
  ASSUME ViewsTypeOK, OnHeader, NEW k \in 0 .. Len(headers), passed = UpTo(k),
         Arrive(Advance(k)), ended' = (iter' = 0),
         UNCHANGED <<some, headers>>
  PROVE  /\ iter' \in 0 .. MaxHeaders /\ passed' \in Seq(1 .. MaxHeaders)
         /\ ended' \in BOOLEAN /\ OnHeader' /\ LoopStands'
<1>1. Len(headers) \in 0 .. MaxHeaders /\ MaxHeaders \in Nat
  BY MapShape, ViewsAssumption DEF ViewsTypeOK
<1>b. ended' \in BOOLEAN /\ (ended' <=> iter' = 0)
  BY Zenon
<1>2. CASE k < Len(headers)
  <2>1. iter' = k + 1 /\ passed' = Append(passed, k + 1) /\ ~ended'
    BY <1>1, <1>2, <1>b DEF Arrive, Advance
  <2>2. passed' = UpTo(k + 1)
    BY <1>1, <2>1, UpToNext DEF UpTo
  <2>3. passed' \in Seq(1 .. MaxHeaders)
    BY <1>1, <1>2, <2>1 DEF ViewsTypeOK
  <2> QED
    BY <1>1, <1>2, <1>b, <2>1, <2>2, <2>3 DEF OnHeader, LoopStands
<1>3. CASE k = Len(headers)
  <2>1. iter' = 0 /\ passed' = passed /\ ended'
    BY <1>1, <1>3, <1>b DEF Arrive, Advance
  <2> QED
    BY <1>1, <1>3, <1>b, <2>1 DEF OnHeader, LoopStands, ViewsTypeOK
<1> QED
  BY <1>1, <1>2, <1>3

(* Each operation keeps the inductive invariant.                           *)
LEMMA ViewsStepIInv ==
  ASSUME ViewsIInv, [ViewsNext]_viewsVars
  PROVE  ViewsIInv'
<1> USE ViewsAssumption
<1>0. /\ ViewsTypeOK /\ OnHeader /\ CachedSize /\ LoopStands
      /\ RustNeverPanics /\ PositionInRange
  BY DEF ViewsIInv
<1>m. /\ Len(headers) \in 0 .. MaxHeaders
      /\ DOMAIN headers = 1 .. Len(headers)
      /\ \A k \in DOMAIN headers : headers[k] \in 1 .. MaxValues
  BY <1>0, MapShape DEF ViewsTypeOK
<1>n. /\ NoView \in [of : 0 .. MaxHeaders, size : 0 .. MaxValues, owns : BOOLEAN]
      /\ NoView.size = 0
  BY DEF NoView
<1>1. CASE Begin
  <2>1. CASE some
    <3>1. passed = UpTo(0) /\ Arrive(Advance(0)) /\ ended' = (iter' = 0)
          /\ UNCHANGED <<some, headers>> /\ 0 \in 0 .. Len(headers)
      BY <1>1, <1>m, <2>1, UpToNext DEF Begin
    <3>2. /\ iter' \in 0 .. MaxHeaders /\ passed' \in Seq(1 .. MaxHeaders)
          /\ ended' \in BOOLEAN /\ OnHeader' /\ LoopStands'
      BY <1>0, <3>1, ArriveStep
    <3> QED
      BY <1>0, <1>1, <3>2
      DEF Begin, ViewsIInv, ViewsTypeOK, CachedSize, RustNeverPanics, PositionInRange
  <2>2. CASE ~some
    <3>1. /\ iter' = 0 /\ passed' = <<>> /\ ended' = TRUE
          /\ UNCHANGED <<some, headers, view, pos, far>> /\ out' = "ok"
      BY <1>1, <2>2 DEF Begin, Arrive
    <3>2. OnHeader' /\ LoopStands'
      BY <1>0, <2>2, <3>1, UpToNext DEF OnHeader, LoopStands
    <3> QED
      BY <1>0, <3>1, <3>2
      DEF ViewsIInv, ViewsTypeOK, CachedSize, RustNeverPanics, PositionInRange
  <2> QED
    BY <1>0, <2>1, <2>2 DEF ViewsTypeOK
<1>2. CASE Increment
  <2>1. passed = UpTo(iter) /\ Arrive(Advance(iter)) /\ ended' = (iter' = 0)
        /\ UNCHANGED <<some, headers>> /\ iter \in 0 .. Len(headers)
    BY <1>0, <1>2 DEF Increment, LoopStands, OnHeader
  <2>2. /\ iter' \in 0 .. MaxHeaders /\ passed' \in Seq(1 .. MaxHeaders)
        /\ ended' \in BOOLEAN /\ OnHeader' /\ LoopStands'
    BY <1>0, <2>1, ArriveStep
  <2>3. CASE view.owns
    BY <1>0, <1>2, <2>2, <2>3
    DEF Increment, ViewsIInv, ViewsTypeOK, CachedSize, RustNeverPanics, PositionInRange
  <2>4. CASE ~view.owns
    <3>1. view' = NoView /\ pos' = 0 /\ far' \in BOOLEAN /\ out' = "ok"
      BY <1>0, <1>2, <2>4 DEF Increment, ViewsTypeOK
    <3> QED
      BY <1>0, <1>n, <2>1, <2>2, <3>1
      DEF ViewsIInv, ViewsTypeOK, CachedSize, RustNeverPanics, PositionInRange
  <2> QED
    BY <2>3, <2>4
<1>3. CASE Deref
  <2>1. /\ iter # 0 /\ view' = [of |-> iter, size |-> headers[iter], owns |-> FALSE]
        /\ pos' = 0 /\ far' \in BOOLEAN /\ out' = "ok"
        /\ UNCHANGED <<some, headers, iter, passed, ended>>
    BY <1>3, Zenon DEF Deref
  <2>2. iter \in DOMAIN headers /\ iter \in 0 .. MaxHeaders
    BY <1>0, <1>m, <2>1 DEF OnHeader
  <2>3. /\ view' \in [of : 0 .. MaxHeaders, size : 0 .. MaxValues, owns : BOOLEAN]
        /\ view'.of = iter /\ view'.size = headers[iter]
    BY <1>m, <2>1, <2>2
  <2>4. CachedSize' /\ PositionInRange'
    BY <1>m, <2>1, <2>2, <2>3 DEF CachedSize, PositionInRange
  <2> QED
    BY <1>0, <2>1, <2>3, <2>4
    DEF ViewsIInv, ViewsTypeOK, OnHeader, LoopStands, RustNeverPanics
<1>4. CASE DropView
  <2>1. /\ view' = NoView /\ pos' = 0 /\ far' \in BOOLEAN /\ out' = "ok"
        /\ UNCHANGED <<some, headers, iter, passed, ended>>
    BY <1>4, Zenon DEF DropView
  <2> QED
    BY <1>0, <1>n, <2>1 DEF ViewsIInv, ViewsTypeOK, OnHeader, CachedSize, LoopStands,
       RustNeverPanics, PositionInRange
<1>5. CASE DropIter
  <2>1. /\ iter' = 0 /\ passed' = <<>> /\ ended' \in BOOLEAN /\ ~ended'
        /\ out' = "ok" /\ UNCHANGED <<some, headers, view, pos, far>>
    BY <1>5, Zenon DEF DropIter
  <2> QED
    BY <1>0, <1>m, <2>1 DEF ViewsIInv, ViewsTypeOK, OnHeader, CachedSize, LoopStands,
       RustNeverPanics, PositionInRange
<1>6. ASSUME NEW k \in 1 .. MaxHeaders, GetHeader(k) PROVE ViewsIInv'
  <2>1. /\ view' = IF some /\ k \in DOMAIN headers
                   THEN [of |-> k, size |-> headers[k], owns |-> TRUE] ELSE NoView
        /\ pos' = 0 /\ far' \in BOOLEAN /\ out' = "ok"
        /\ UNCHANGED <<some, headers, iter, passed, ended>>
    BY <1>6, Zenon DEF GetHeader
  <2>2. /\ view' \in [of : 0 .. MaxHeaders, size : 0 .. MaxValues, owns : BOOLEAN]
        /\ view' = NoView \/ (k \in DOMAIN headers /\ view'.of = k
                              /\ view'.size = headers[k])
    BY <1>m, <1>n, <2>1
  <2>3. CachedSize' /\ PositionInRange'
    BY <1>m, <1>n, <2>1, <2>2 DEF CachedSize, PositionInRange
  <2> QED
    BY <1>0, <2>1, <2>2, <2>3
    DEF ViewsIInv, ViewsTypeOK, OnHeader, LoopStands, RustNeverPanics
<1>7. ASSUME NEW n \in 0 .. Word - 1, Step(n) PROVE ViewsIInv'
  <2>1. ASSUME NEW p \in 0 .. Word - 1, NEW f \in BOOLEAN, MoveTo(p, f),
               p > view.size => f
        PROVE  ViewsIInv'
    BY <1>0, <2>1 DEF MoveTo, ViewsIInv, ViewsTypeOK, OnHeader, CachedSize, LoopStands,
       RustNeverPanics, PositionInRange
  <2>2. /\ pos \in 0 .. Word - 1 /\ view.size \in 0 .. MaxValues
        /\ far \in BOOLEAN /\ (pos > view.size => far)
    BY <1>0 DEF ViewsTypeOK, PositionInRange
  <2>3. CASE MoveTo(0, FALSE)
    <3>1. 0 \in 0 .. Word - 1 /\ ~(0 > view.size)
      BY <2>2
    <3> QED
      BY <2>1, <2>3, <3>1, Zenon
  <2>4. CASE MoveTo(view.size, FALSE)
    <3>1. view.size \in 0 .. Word - 1 /\ ~(view.size > view.size)
      BY <2>2
    <3> QED
      BY <2>1, <2>4, <3>1, Zenon
  <2>5. CASE MoveTo(Inc(pos, view.size), far)
    BY <2>1, <2>2, <2>5, Positions
  <2>6. CASE MoveTo(Dec(pos), far)
    BY <2>1, <2>2, <2>6, Positions
  <2>7. CASE MoveTo(Plus(pos, n, view.size), far)
    BY <2>1, <2>2, <2>7, Positions
  <2>8. CASE MoveTo(Minus(pos, n), far \/ n > pos)
    BY <2>1, <2>2, <2>8, Positions
  <2> QED
    BY <1>7, <2>3, <2>4, <2>5, <2>6, <2>7, <2>8 DEF Step
<1>8. ASSUME NEW n \in 0 .. Word - 1, At(n) PROVE ViewsIInv'
  <2>1. view.of \in DOMAIN headers /\ view.size = headers[view.of]
    BY <1>0, <1>8 DEF At, CachedSize
  <2>2. out' \in {"ok", "throw"}
    BY <1>8, <1>m, <2>1 DEF At, ValueAt
  <2> QED
    BY <1>0, <1>8, <2>2 DEF At, ViewsIInv, ViewsTypeOK, OnHeader, CachedSize, LoopStands,
       RustNeverPanics, PositionInRange
<1>9. CASE UNCHANGED viewsVars
  BY <1>0, <1>9 DEF viewsVars, ViewsIInv, ViewsTypeOK, OnHeader, CachedSize, LoopStands,
     RustNeverPanics, PositionInRange
<1> QED
  BY <1>1, <1>2, <1>3, <1>4, <1>5, <1>6, <1>7, <1>8, <1>9 DEF ViewsNext

(* The inductive invariant holds in every reachable state.                 *)
THEOREM ViewsInvariant == ViewsSpec => []ViewsIInv
<1>1. ViewsIInv /\ [ViewsNext]_viewsVars => ViewsIInv'
  BY ViewsStepIInv
<1> QED
  BY ViewsInitIInv, <1>1, PTL DEF ViewsSpec

(* message.rs:217: for every map and every word size, the bounds that C++  *)
(* checks against its cached sizes keep every index within what Rust has.  *)
THEOREM NoPanic == ViewsSpec => []RustNeverPanics
<1>1. ViewsIInv => RustNeverPanics
  BY DEF ViewsIInv
<1> QED
  BY <1>1, ViewsInvariant, PTL

(* message.hpp: a loop over the headers meets each of them once, in order, *)
(* before it reaches end().                                                *)
THEOREM CompleteLoop == ViewsSpec => []LoopSeesAll
<1>1. ViewsIInv => LoopSeesAll
  BY DEF ViewsIInv, LoopStands, LoopSeesAll, UpTo
<1> QED
  BY <1>1, ViewsInvariant, PTL

(* message.hpp: only an operator- by more than the position takes a view's *)
(* iterator out of the view.                                               *)
THEOREM OnlyMinusWraps == ViewsSpec => []PositionInRange
<1>1. ViewsIInv => PositionInRange
  BY DEF ViewsIInv
<1> QED
  BY <1>1, ViewsInvariant, PTL
=============================================================================
