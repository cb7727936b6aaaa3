--------------------------- MODULE HandlesProofs ---------------------------
(***************************************************************************)
(* Proofs about Handles for any finite number of objects and any boxes.    *)
(***************************************************************************)
EXTENDS Handles, FiniteSetTheorems, TLAPS

(* What a pointer can be.                                                  *)
Ptrs == Boxes \cup {Null, Gone}

(* The objects that point to b when f gives the pointers.                  *)
OwnersIn(f, b) == {o \in Objs : f[o] = b}

(* Every object is a HeaderVectorView, the one class whose move assignment *)
(* does not clear its source.                                              *)
OnlyViews == \A o \in Objs : cls[o] = HeaderVectorView

(* The counts r fit the pointers f: exactly, or (for HeaderVectorView) not *)
(* above them.                                                             *)
Counts(r, f) ==
  \A b \in Boxes :
    LET owners == Cardinality(OwnersIn(f, b)) + TaskRefs(b) IN
      IF OnlyViews THEN r[b] <= owners ELSE r[b] = owners

(* Only a class that can release its box has boxes in tasks, and its boxes *)
(* have one owner.                                                         *)
TasksOwn ==
  /\ (\E o \in Objs : cls[o].releases) => \A b \in Boxes : refs[b] <= 1
  /\ taken # {} => \E o \in Objs : cls[o].releases

(* A text is only cached by an error, and goes with it.                    *)
TextInv ==
  /\ \A o \in Objs : ~Alive(o) \/ ~IsError(o) => str[o] = Empty
  /\ TextOfItsError

IInv == TypeOK /\ Counts(refs, ptr) /\ TasksOwn /\ TextInv /\ FaultsKnown

-----------------------------------------------------------------------------
(* What the objects of one run have in common, from the table of classes.  *)
LEMMA ClassFacts ==
  ASSUME TypeOK, NEW o \in Objs, NEW p \in Objs
  PROVE  /\ cls[o] = HeaderVectorView =>
              /\ cls[p] = HeaderVectorView
              /\ cls[o].copy = "deleted" /\ ~cls[o].releases
         /\ ~cls[o].clears => cls[o] = HeaderVectorView
         /\ cls[o].releases =>
              /\ cls[p] = cls[o] /\ cls[o].copy = "deleted" /\ cls[o].clears
              /\ cls[p] \in {RequestBuilder, Subscribtion}
         /\ IsError(o) => cls[o].clears
         /\ cls[o] \in {Message, HeadersView} =>
              ~cls[p].releases /\ cls[p] # HeaderVectorView
         /\ cls[o].copy # "deleted" /\ ~cls[o].checks =>
              cls[p] \in {ConnectionError, RequestError, Connection, Sender,
                          Receiver, CancellationToken}
<1> USE DEF Class, OwnedString, ConnectionOptions, TokioRuntimeConfig,
            TokioRuntime, RequestBuilder, Subscribtion, ConnectionError,
            RequestError, Connection, Sender, Receiver, CancellationToken,
            HeaderIterator, HeaderVectorView, Message, HeadersView, IsError
<1>1. PICK f \in Families : cls[o] \in f /\ cls[p] \in f
  BY DEF TypeOK
<1>2. CASE f = {Message, HeadersView}
  BY <1>1, <1>2
<1>3. ASSUME NEW c \in {OwnedString, ConnectionOptions, TokioRuntimeConfig,
                        TokioRuntime, RequestBuilder, Subscribtion,
                        ConnectionError, RequestError, Connection, Sender,
                        Receiver, CancellationToken, HeaderIterator,
                        HeaderVectorView},
             f = {c}
      PROVE  cls[o] = c /\ cls[p] = c
  BY <1>1, <1>3
<1> QED
  BY <1>1, <1>2, <1>3 DEF Families

(* Owners are finitely many.                                               *)
LEMMA OwnersFinite ==
  ASSUME NEW f, NEW b
  PROVE  IsFiniteSet(OwnersIn(f, b)) /\ Cardinality(OwnersIn(f, b)) \in Nat
<1>1. IsFiniteSet(OwnersIn(f, b))
  BY FS_Subset, HandlesAssumption DEF OwnersIn
<1> QED
  BY <1>1, FS_CardinalityType

(* A box that nobody points to has no owners, and the other way round.     *)
LEMMA OwnersNone ==
  ASSUME NEW f, NEW b
  PROVE  Cardinality(OwnersIn(f, b)) = 0 <=> \A o \in Objs : f[o] # b
<1>1. Cardinality(OwnersIn(f, b)) = 0 <=> OwnersIn(f, b) = {}
  BY OwnersFinite, FS_EmptySet
<1> QED
  BY <1>1 DEF OwnersIn

(* g gives the pointers after o's was set to q, the others as in f.        *)
Repoint(f, g, o, q) ==
  /\ f \in [Objs -> Ptrs] /\ g \in [Objs -> Ptrs] /\ g[o] = q
  /\ \A x \in Objs \ {o} : g[x] = f[x]

(* Setting one pointer of a function repoints that one only.               *)
LEMMA RepointExcept ==
  ASSUME NEW f \in [Objs -> Ptrs], NEW o \in Objs, NEW q \in Ptrs, NEW g,
         g = [f EXCEPT ![o] = q]
  PROVE  Repoint(f, g, o, q)
BY DEF Repoint

(* What setting one pointer does to the number of owners of a box.         *)
LEMMA RepointOwners ==
  ASSUME NEW f, NEW g, NEW o \in Objs, NEW q, Repoint(f, g, o, q), NEW b
  PROVE  /\ f[o] = b /\ q # b =>
              Cardinality(OwnersIn(g, b)) = Cardinality(OwnersIn(f, b)) - 1
         /\ f[o] # b /\ q = b =>
              Cardinality(OwnersIn(g, b)) = Cardinality(OwnersIn(f, b)) + 1
         /\ (f[o] = b <=> q = b) =>
              Cardinality(OwnersIn(g, b)) = Cardinality(OwnersIn(f, b))
<1>1. ASSUME q # b
      PROVE  OwnersIn(g, b) = OwnersIn(f, b) \ {o}
  BY <1>1 DEF OwnersIn, Repoint
<1>2. ASSUME q = b
      PROVE  OwnersIn(g, b) = OwnersIn(f, b) \cup {o}
  BY <1>2 DEF OwnersIn, Repoint
<1>3. o \in OwnersIn(f, b) <=> f[o] = b
  BY DEF OwnersIn
<1> QED
  BY <1>1, <1>2, <1>3, OwnersFinite, FS_AddElement, FS_RemoveElement

-----------------------------------------------------------------------------
(* A box counts an object that points to it, except among HeaderVectorViews.*)
LEMMA OwnedIsCounted ==
  ASSUME NEW r \in [Boxes -> Nat], NEW f \in [Objs -> Ptrs], Counts(r, f),
         ~OnlyViews, NEW o \in Objs, f[o] \in Boxes
  PROVE  r[f[o]] > 0
<1> DEFINE b == f[o]
<1>1. Cardinality(OwnersIn(f, b)) \in Nat \ {0}
  BY OwnersNone, OwnersFinite
<1>2. r[b] = Cardinality(OwnersIn(f, b)) + TaskRefs(b) /\ TaskRefs(b) \in {0, 1}
  BY DEF Counts, TaskRefs
<1> QED
  BY <1>1, <1>2

(* The counts r are those of g's pointers if they were those of f's.       *)
LEMMA CountsAt ==
  ASSUME NEW r \in [Boxes -> Nat], NEW f, NEW b \in Boxes, Counts(r, f)
  PROVE  /\ r[b] \in Nat /\ TaskRefs(b) \in {0, 1}
         /\ Cardinality(OwnersIn(f, b)) \in Nat
         /\ OnlyViews => r[b] <= Cardinality(OwnersIn(f, b)) + TaskRefs(b)
         /\ ~OnlyViews => r[b] = Cardinality(OwnersIn(f, b)) + TaskRefs(b)
BY OwnersFinite DEF Counts, TaskRefs

(* o's pointer is deleted and forgotten.                                   *)
LEMMA LetGo ==
  ASSUME NEW r \in [Boxes -> Nat], NEW s \in [Boxes -> Nat], NEW f, NEW g,
         NEW o \in Objs, NEW q, Repoint(f, g, o, q), q \notin Boxes, Counts(r, f),
         f[o] \in Boxes => r[f[o]] > 0 /\ s = [r EXCEPT ![f[o]] = @ - 1],
         f[o] \notin Boxes => s = r
  PROVE  Counts(s, g)
<1> SUFFICES ASSUME NEW b \in Boxes
             PROVE  /\ OnlyViews => s[b] <= Cardinality(OwnersIn(g, b)) + TaskRefs(b)
                    /\ ~OnlyViews => s[b] = Cardinality(OwnersIn(g, b)) + TaskRefs(b)
  BY DEF Counts
<1>1. f[o] = b => s[b] = r[b] - 1
  OBVIOUS
<1>2. f[o] # b => s[b] = r[b]
  OBVIOUS
<1>3. f[o] = b => Cardinality(OwnersIn(g, b)) = Cardinality(OwnersIn(f, b)) - 1
  BY RepointOwners
<1>4. f[o] # b => Cardinality(OwnersIn(g, b)) = Cardinality(OwnersIn(f, b))
  BY RepointOwners
<1> QED
  BY <1>1, <1>2, <1>3, <1>4, CountsAt

(* o, without a box so far, gets b, which counts one more.                 *)
LEMMA Attach ==
  ASSUME NEW r \in [Boxes -> Nat], NEW s \in [Boxes -> Nat], NEW f, NEW g,
         NEW o \in Objs, NEW b \in Boxes, Repoint(f, g, o, b), f[o] \notin Boxes,
         Counts(r, f), s = [r EXCEPT ![b] = @ + 1]
  PROVE  Counts(s, g)
<1> SUFFICES ASSUME NEW c \in Boxes
             PROVE  /\ OnlyViews => s[c] <= Cardinality(OwnersIn(g, c)) + TaskRefs(c)
                    /\ ~OnlyViews => s[c] = Cardinality(OwnersIn(g, c)) + TaskRefs(c)
  BY DEF Counts
<1>1. b = c => s[c] = r[c] + 1
  OBVIOUS
<1>2. b # c => s[c] = r[c]
  OBVIOUS
<1>3. b = c => Cardinality(OwnersIn(g, c)) = Cardinality(OwnersIn(f, c)) + 1
  BY RepointOwners
<1>4. b # c => Cardinality(OwnersIn(g, c)) = Cardinality(OwnersIn(f, c))
  BY RepointOwners
<1> QED
  BY <1>1, <1>2, <1>3, <1>4, CountsAt

(* o, without a box so far, takes over p's pointer.                        *)
LEMMA PassOn ==
  ASSUME NEW r \in [Boxes -> Nat], NEW f, NEW g, NEW h, NEW o \in Objs,
         NEW p \in Objs, o # p, Repoint(f, g, o, f[p]), Repoint(g, h, p, Null),
         f[o] \notin Boxes, Counts(r, f)
  PROVE  Counts(r, h)
<1>1. ASSUME NEW c \in Boxes
      PROVE  Cardinality(OwnersIn(h, c)) = Cardinality(OwnersIn(f, c))
  <2>1. Null # c /\ f[o] # c /\ g[p] = f[p]
    BY HandlesAssumption DEF Repoint
  <2>2. CASE f[p] = c
    <3>1. Cardinality(OwnersIn(g, c)) = Cardinality(OwnersIn(f, c)) + 1
      BY <2>1, <2>2, RepointOwners
    <3>2. Cardinality(OwnersIn(h, c)) = Cardinality(OwnersIn(g, c)) - 1
      BY <2>1, <2>2, RepointOwners
    <3> QED
      BY <3>1, <3>2, OwnersFinite
  <2>3. CASE f[p] # c
    <3>1. Cardinality(OwnersIn(g, c)) = Cardinality(OwnersIn(f, c))
      BY <2>1, <2>3, RepointOwners
    <3>2. Cardinality(OwnersIn(h, c)) = Cardinality(OwnersIn(g, c))
      BY <2>1, <2>3, RepointOwners
    <3> QED
      BY <3>1, <3>2
  <2> QED
    BY <2>2, <2>3
<1> QED
  BY <1>1 DEF Counts

(* o takes over a pointer that its source keeps: a HeaderVectorView.       *)
LEMMA ShareSilently ==
  ASSUME NEW r \in [Boxes -> Nat], NEW f, NEW g, NEW o \in Objs, NEW q,
         Repoint(f, g, o, q), f[o] \notin Boxes, Counts(r, f), OnlyViews
  PROVE  Counts(r, g)
<1> SUFFICES ASSUME NEW c \in Boxes
             PROVE  r[c] <= Cardinality(OwnersIn(g, c)) + TaskRefs(c)
  BY DEF Counts
<1>1. Cardinality(OwnersIn(g, c)) \in {Cardinality(OwnersIn(f, c)),
                                       Cardinality(OwnersIn(f, c)) + 1}
  BY RepointOwners
<1> QED
  BY <1>1, CountsAt

-----------------------------------------------------------------------------
(* The counts and pointers after a step, with their types.                 *)
Counted(r, f) ==
  r \in [Boxes -> Nat] /\ f \in [Objs -> Ptrs] /\ Counts(r, f)

(* Counts speaks of the classes and the tasks: when a step leaves those    *)
(* alone it may be read with the new counts and pointers.                  *)
LEMMA CountsPrimed ==
  ASSUME UNCHANGED <<cls, taken>>, Counted(refs', ptr')
  PROVE  Counted(refs, ptr)'
BY DEF Counted, Counts, OnlyViews, OwnersIn, TaskRefs, Ptrs

(* Deleting o's pointer, when what it points to is not free, leaves counts *)
(* that fit the remaining pointers and are no higher.                      *)
LEMMA DeletedCounts ==
  ASSUME Counted(refs, ptr), NEW o \in Objs, ~DeletesFreed(ptr[o]),
         NEW q \in {Null, Gone}
  PROVE  /\ Counted(Deleted(ptr[o]), [ptr EXCEPT ![o] = q])
         /\ \A b \in Boxes : Deleted(ptr[o])[b] <= refs[b]
<1> DEFINE s == Deleted(ptr[o])
           g == [ptr EXCEPT ![o] = q]
<1>0. /\ refs \in [Boxes -> Nat] /\ ptr \in [Objs -> Ptrs] /\ Counts(refs, ptr)
      /\ q \notin Boxes /\ q \in Ptrs
  BY HandlesAssumption DEF Counted, Ptrs
<1>1. ptr[o] \in Boxes => refs[ptr[o]] > 0
  BY <1>0 DEF DeletesFreed
<1>2. s \in [Boxes -> Nat] /\ \A b \in Boxes : s[b] <= refs[b]
  BY <1>0, <1>1 DEF Deleted
<1>3. Repoint(ptr, g, o, q) /\ g \in [Objs -> Ptrs]
  BY <1>0, RepointExcept
<1>4. /\ ptr[o] \in Boxes => s = [refs EXCEPT ![ptr[o]] = @ - 1]
      /\ ptr[o] \notin Boxes => s = refs
  BY DEF Deleted
<1> HIDE DEF s, g
<1>5. Counts(s, g)
  BY <1>0, <1>1, <1>2, <1>3, <1>4, LetGo
<1> QED
  BY <1>2, <1>3, <1>5 DEF Counted, s, g

(* Cloning into o, whose own pointer is already out of the count.          *)
LEMMA CloneCounts ==
  ASSUME NEW o \in Objs, NEW p \in Boxes \cup {Null}, NEW r, CloneInto(o, p, r),
         ptr \in [Objs -> Ptrs], Counted(r, [ptr EXCEPT ![o] = Null])
  PROVE  Counted(refs', ptr')
<1> DEFINE f == [ptr EXCEPT ![o] = Null]
<1>0. /\ r \in [Boxes -> Nat] /\ f \in [Objs -> Ptrs] /\ Counts(r, f)
      /\ f[o] \notin Boxes /\ Null \notin Boxes
  BY HandlesAssumption DEF Counted
<1>1. CASE p = Null
  BY <1>1, <1>0 DEF CloneInto, Set, Counted
<1>2. ASSUME NEW b \in Boxes, ptr' = [ptr EXCEPT ![o] = b],
             refs' = [r EXCEPT ![b] = @ + 1]
      PROVE  Counted(refs', ptr')
  <2>1. b \in Ptrs /\ ptr' = [f EXCEPT ![o] = b]
    BY <1>2 DEF Ptrs
  <2> HIDE DEF f
  <2>2. Repoint(f, ptr', o, b) /\ ptr' \in [Objs -> Ptrs]
    BY <1>0, <2>1, RepointExcept
  <2>3. refs' \in [Boxes -> Nat]
    BY <1>0, <1>2
  <2>4. Counts(refs', ptr')
    BY <1>0, <1>2, <2>2, <2>3, Attach
  <2> QED
    BY <2>2, <2>3, <2>4 DEF Counted
<1>3. CASE p # Null /\ cls[o].copy = "shares" /\ Set(o, p, [r EXCEPT ![p] = @ + 1])
  BY <1>2, <1>3 DEF Set
<1>4. CASE \E b \in Boxes : r[b] = 0 /\ Set(o, b, [r EXCEPT ![b] = 1])
  <2>1. PICK b \in Boxes : r[b] = 0 /\ Set(o, b, [r EXCEPT ![b] = 1])
    BY <1>4
  <2>2. [r EXCEPT ![b] = 1] = [r EXCEPT ![b] = @ + 1]
    BY <1>0, <2>1
  <2> QED
    BY <1>2, <2>1, <2>2 DEF Set
<1> QED
  BY <1>1, <1>3, <1>4 DEF CloneInto

-----------------------------------------------------------------------------
(* What the invariant says of the counts, in the form the lemmas take.     *)
LEMMA CountedNow ==
  ASSUME IInv
  PROVE  /\ TypeOK /\ Counted(refs, ptr) /\ TasksOwn /\ TextInv /\ FaultsKnown
         /\ refs \in [Boxes -> Nat] /\ ptr \in [Objs -> Ptrs] /\ Counts(refs, ptr)
         /\ Null \notin Boxes /\ Gone \notin Boxes /\ Null # Gone
BY HandlesAssumption DEF IInv, TypeOK, Counted, Ptrs

(* A live object's pointer is null or a box.                               *)
LEMMA AlivePtr ==
  ASSUME ptr \in [Objs -> Ptrs], NEW o \in Objs, Alive(o)
  PROVE  ptr[o] \in Boxes \cup {Null}
BY DEF Alive, Ptrs

(* A crash leaves everything but the fault alone.                          *)
LEMMA CrashCounts ==
  ASSUME IInv, NEW k, Crash(k)
  PROVE  Counted(refs, ptr)'
BY CountedNow, CountsPrimed DEF Crash

(* No step of any class makes the counts and the pointers disagree.        *)
LEMMA CountStep ==
  ASSUME IInv, [Next]_vars
  PROVE  Counted(refs, ptr)'
<1>0. /\ TypeOK /\ Counted(refs, ptr) /\ TasksOwn
      /\ refs \in [Boxes -> Nat] /\ ptr \in [Objs -> Ptrs] /\ Counts(refs, ptr)
      /\ Null \notin Boxes /\ Gone \notin Boxes /\ Null # Gone
      /\ Null \in Ptrs /\ Gone \in Ptrs
  BY CountedNow DEF Ptrs
<1>1. ASSUME NEW o \in Objs, Construct(o) PROVE Counted(refs, ptr)'
  <2>1. PICK b \in Boxes : refs[b] = 0 /\ Set(o, b, [refs EXCEPT ![b] = 1])
    BY <1>1 DEF Construct
  <2>2. refs' = [refs EXCEPT ![b] = @ + 1] /\ refs' \in [Boxes -> Nat]
    BY <1>0, <2>1 DEF Set
  <2>3. b \in Ptrs /\ ptr[o] \notin Boxes
    BY <1>0, <1>1 DEF Construct, Alive, Ptrs
  <2>4. Repoint(ptr, ptr', o, b) /\ ptr' \in [Objs -> Ptrs]
    BY <1>0, <2>1, <2>3, RepointExcept DEF Set
  <2>5. Counts(refs', ptr')
    BY <1>0, <2>2, <2>3, <2>4, Attach
  <2> QED
    BY <2>1, <2>2, <2>4, <2>5, CountsPrimed DEF Set, Counted
<1>2. ASSUME NEW o \in Objs, ConstructEmpty(o) PROVE Counted(refs, ptr)'
  <2>1. /\ ~DeletesFreed(ptr[o]) /\ Deleted(ptr[o]) = refs /\ refs' = refs
        /\ ptr' = [ptr EXCEPT ![o] = Null] /\ UNCHANGED <<cls, taken>>
    BY <1>0, <1>2 DEF ConstructEmpty, Set, Alive, DeletesFreed, Deleted
  <2>2. Counted(refs', ptr')
    BY <1>0, <2>1, DeletedCounts
  <2> QED
    BY <2>1, <2>2, CountsPrimed
<1>3. ASSUME NEW o \in Objs, NEW p \in Objs, CopyConstruct(o, p)
      PROVE  Counted(refs, ptr)'
  <2>1. CASE CloneCrash(o, ptr[p], refs)
    BY <2>1, CrashCounts DEF CloneCrash
  <2>2. CASE CloneInto(o, ptr[p], refs)
    <3>1. ~DeletesFreed(ptr[o]) /\ Deleted(ptr[o]) = refs
      BY <1>0, <1>3 DEF CopyConstruct, Alive, DeletesFreed, Deleted
    <3>2. Counted(refs, [ptr EXCEPT ![o] = Null])
      BY <1>0, <3>1, DeletedCounts
    <3>3. ptr[p] \in Boxes \cup {Null}
      BY <1>0, <1>3, AlivePtr DEF CopyConstruct
    <3>4. Counted(refs', ptr') /\ UNCHANGED <<cls, taken>>
      BY <1>0, <2>2, <3>2, <3>3, CloneCounts DEF CloneInto, Set
    <3> QED
      BY <3>4, CountsPrimed
  <2> QED
    BY <1>3, <2>1, <2>2 DEF CopyConstruct
<1>4. ASSUME NEW o \in Objs, NEW p \in Objs, CopyAssign(o, p)
      PROVE  Counted(refs, ptr)'
  <2>1. CASE \E k : Crash(k)
    BY <2>1, CrashCounts
  <2>2. CASE ~DeletesFreed(ptr[o]) /\ CloneInto(o, ptr[p], Deleted(ptr[o]))
    <3>2. Counted(Deleted(ptr[o]), [ptr EXCEPT ![o] = Null])
      BY <1>0, <2>2, DeletedCounts
    <3>3. ptr[p] \in Boxes \cup {Null}
      BY <1>0, <1>4, AlivePtr DEF CopyAssign
    <3>4. Counted(refs', ptr') /\ UNCHANGED <<cls, taken>>
      BY <1>0, <2>2, <3>2, <3>3, CloneCounts DEF CloneInto, Set
    <3> QED
      BY <3>4, CountsPrimed
  <2> QED
    BY <1>4, <2>1, <2>2 DEF CopyAssign, DeleteAndClone, CloneCrash
<1>5. ASSUME NEW o \in Objs, NEW p \in Objs, MoveConstruct(o, p)
      PROVE  Counted(refs, ptr)'
  <2> DEFINE g == [ptr EXCEPT ![o] = ptr[p]]
  <2>1. o # p /\ ptr[o] \notin Boxes /\ ptr[p] \in Ptrs
    BY <1>0, <1>5 DEF MoveConstruct, Alive
  <2>2. ptr' = [g EXCEPT ![p] = Null] /\ UNCHANGED <<cls, taken, refs>>
    BY <1>0, <1>5, <2>1 DEF MoveConstruct
  <2>3. Repoint(ptr, g, o, ptr[p]) /\ g \in [Objs -> Ptrs]
    BY <1>0, <2>1, RepointExcept
  <2> HIDE DEF g
  <2>4. Repoint(g, ptr', p, Null) /\ ptr' \in [Objs -> Ptrs]
    BY <1>0, <2>2, <2>3, RepointExcept
  <2>5. Counts(refs, ptr')
    BY <1>0, <2>1, <2>3, <2>4, PassOn
  <2> QED
    BY <1>0, <2>2, <2>4, <2>5, CountsPrimed DEF Counted
<1>6. ASSUME NEW o \in Objs, NEW p \in Objs, MoveAssign(o, p)
      PROVE  Counted(refs, ptr)'
  <2>1. CASE Crash("freed")
    BY <2>1, CrashCounts
  <2>2. CASE ~DeletesFreed(ptr[o]) /\ TakeOver(o, p) /\ refs' = Deleted(ptr[o])
    <3> DEFINE f == [ptr EXCEPT ![o] = Null]
               g == [f EXCEPT ![o] = ptr[p]]
    <3>1. Counted(refs', f)
      BY <1>0, <2>2, DeletedCounts
    <3>2. /\ o # p /\ f[p] = ptr[p] /\ f[o] \notin Boxes /\ ptr[p] \in Ptrs
          /\ UNCHANGED <<cls, taken>>
      BY <1>0, <1>6, <2>2 DEF MoveAssign, TakeOver
    <3>3. CASE cls[o].clears
      <4>1. ptr' = [g EXCEPT ![p] = Null]
        BY <1>0, <2>2, <3>2, <3>3 DEF TakeOver
      <4>2. Repoint(f, g, o, f[p]) /\ g \in [Objs -> Ptrs]
        BY <3>1, <3>2, RepointExcept DEF Counted
      <4> HIDE DEF f, g
      <4>3. Repoint(g, ptr', p, Null) /\ ptr' \in [Objs -> Ptrs]
        BY <1>0, <4>1, <4>2, RepointExcept
      <4>4. Counts(refs', ptr')
        BY <1>0, <3>1, <3>2, <4>2, <4>3, PassOn DEF Counted
      <4> QED
        BY <3>1, <3>2, <4>3, <4>4, CountsPrimed DEF Counted
    <3>4. CASE ~cls[o].clears
      <4>1. OnlyViews
        BY <1>0, <3>4, ClassFacts DEF OnlyViews
      <4>2. ptr' = [f EXCEPT ![o] = f[p]]
        BY <1>0, <2>2, <3>2, <3>4 DEF TakeOver
      <4> HIDE DEF f
      <4>3. Repoint(f, ptr', o, f[p]) /\ ptr' \in [Objs -> Ptrs]
        BY <3>1, <3>2, <4>2, RepointExcept DEF Counted
      <4>4. Counts(refs', ptr')
        BY <3>1, <3>2, <4>1, <4>3, ShareSilently DEF Counted
      <4> QED
        BY <3>1, <3>2, <4>3, <4>4, CountsPrimed DEF Counted
    <3> QED
      BY <3>3, <3>4
  <2> QED
    BY <1>6, <2>1, <2>2 DEF MoveAssign
<1>7. ASSUME NEW o \in Objs, What(o) PROVE Counted(refs, ptr)'
  BY <1>0, <1>7, CountsPrimed DEF What
<1>8. ASSUME NEW o \in Objs, NEW p \in Objs, View(o, p)
      PROVE  Counted(refs, ptr)'
  <2>1. /\ UNCHANGED <<cls, taken>> /\ ptr' = [ptr EXCEPT ![o] = ptr[p]]
        /\ refs' = IF ptr[p] = Null THEN refs
                   ELSE [refs EXCEPT ![ptr[p]] = @ + 1]
    BY <1>8 DEF View, Set
  <2>2. ptr[o] \notin Boxes /\ ptr[p] \in Boxes \cup {Null} /\ ptr[p] \in Ptrs
    BY <1>0, <1>8, AlivePtr DEF View, Alive
  <2>3. Repoint(ptr, ptr', o, ptr[p]) /\ ptr' \in [Objs -> Ptrs]
    BY <1>0, <2>1, <2>2, RepointExcept
  <2>4. CASE ptr[p] = Null
    <3>1. Counts(refs', ptr')
      BY <1>0, <2>1, <2>2, <2>3, <2>4, LetGo
    <3> QED
      BY <1>0, <2>1, <2>3, <2>4, <3>1, CountsPrimed DEF Counted
  <2>5. CASE ptr[p] \in Boxes
    <3>1. refs' \in [Boxes -> Nat] /\ refs' = [refs EXCEPT ![ptr[p]] = @ + 1]
      BY <1>0, <2>1, <2>5
    <3>2. Counts(refs', ptr')
      BY <1>0, <2>2, <2>3, <2>5, <3>1, Attach
    <3> QED
      BY <2>1, <2>3, <3>1, <3>2, CountsPrimed DEF Counted
  <2> QED
    BY <2>2, <2>4, <2>5
<1>9. ASSUME NEW o \in Objs, Destroy(o) PROVE Counted(refs, ptr)'
  <2>1. CASE Crash("freed")
    BY <2>1, CrashCounts
  <2>2. CASE /\ ~DeletesFreed(ptr[o]) /\ ptr' = [ptr EXCEPT ![o] = Gone]
             /\ refs' = Deleted(ptr[o]) /\ UNCHANGED <<cls, taken>>
    <3>1. Counted(refs', ptr')
      BY <1>0, <2>2, DeletedCounts
    <3> QED
      BY <2>2, <3>1, CountsPrimed
  <2> QED
    BY <1>9, <2>1, <2>2 DEF Destroy
<1>10. ASSUME NEW o \in Objs, Use(o) PROVE Counted(refs, ptr)'
  BY <1>10, CrashCounts DEF Use
<1>11. ASSUME NEW o \in Objs, Release(o) PROVE Counted(refs, ptr)'
  <2>1. CASE Crash("null")
    BY <2>1, CrashCounts
  <2>2. CASE /\ ptr[o] # Null /\ taken' = taken \cup {ptr[o]}
             /\ ptr' = [ptr EXCEPT ![o] = Null] /\ UNCHANGED <<cls, refs>>
    <3>1. cls[o].releases /\ ptr[o] \in Boxes /\ ~OnlyViews /\ ~OnlyViews'
      BY <1>0, <1>11, <2>2, AlivePtr, ClassFacts DEF Release, OnlyViews
    <3>2. Repoint(ptr, ptr', o, Null) /\ ptr' \in [Objs -> Ptrs]
      BY <1>0, <2>2, RepointExcept
    <3>3. ASSUME NEW c \in Boxes
          PROVE  refs[c] = Cardinality(OwnersIn(ptr', c)) + TaskRefs(c)'
      <4>1. /\ refs[c] \in Nat /\ Cardinality(OwnersIn(ptr, c)) \in Nat
            /\ refs[c] = Cardinality(OwnersIn(ptr, c)) + TaskRefs(c)
            /\ TaskRefs(c) \in {0, 1} /\ c # Null
        BY <1>0, <3>1, CountsAt
      <4>2. CASE ptr[o] = c
        <5>1. refs[c] <= 1
          BY <1>0, <3>1 DEF TasksOwn
        <5>2. Cardinality(OwnersIn(ptr, c)) # 0
          BY <4>2, OwnersNone
        <5>3. Cardinality(OwnersIn(ptr', c)) = Cardinality(OwnersIn(ptr, c)) - 1
          BY <3>2, <4>1, <4>2, RepointOwners
        <5>4. TaskRefs(c)' = 1
          BY <2>2, <4>2 DEF TaskRefs
        <5> QED
          BY <4>1, <5>1, <5>2, <5>3, <5>4
      <4>3. CASE ptr[o] # c
        <5>1. Cardinality(OwnersIn(ptr', c)) = Cardinality(OwnersIn(ptr, c))
          BY <3>2, <4>1, <4>3, RepointOwners
        <5>2. TaskRefs(c)' = TaskRefs(c)
          BY <2>2, <4>3 DEF TaskRefs
        <5> QED
          BY <4>1, <5>1, <5>2
      <4> QED
        BY <4>2, <4>3
    <3>4. Counts(refs, ptr)'
      BY <2>2, <3>1, <3>3 DEF Counts, OwnersIn
    <3> QED
      BY <1>0, <2>2, <3>2, <3>4 DEF Counted, Ptrs
  <2> QED
    BY <1>11, <2>1, <2>2 DEF Release
<1>12. ASSUME NEW b \in Boxes, TaskFrees(b) PROVE Counted(refs, ptr)'
  <2>1. /\ b \in taken /\ taken' = taken \ {b} /\ refs' = [refs EXCEPT ![b] = 0]
        /\ UNCHANGED <<cls, ptr>>
    BY <1>12 DEF TaskFrees
  <2>2. refs[b] <= 1 /\ ~OnlyViews /\ ~OnlyViews'
    BY <1>0, <2>1, ClassFacts DEF TasksOwn, OnlyViews
  <2>3. ASSUME NEW c \in Boxes
        PROVE  refs'[c] = Cardinality(OwnersIn(ptr, c)) + TaskRefs(c)'
    <3>1. /\ refs[c] \in Nat /\ Cardinality(OwnersIn(ptr, c)) \in Nat
          /\ refs[c] = Cardinality(OwnersIn(ptr, c)) + TaskRefs(c)
      BY <1>0, <2>2, CountsAt
    <3>2. CASE c = b
      <4>1. TaskRefs(c) = 1 /\ TaskRefs(c)' = 0 /\ refs'[c] = 0
        BY <1>0, <2>1, <3>2 DEF TaskRefs
      <4> QED
        BY <2>2, <3>1, <3>2, <4>1
    <3>3. CASE c # b
      <4>1. TaskRefs(c)' = TaskRefs(c) /\ refs'[c] = refs[c]
        BY <1>0, <2>1, <3>3 DEF TaskRefs
      <4> QED
        BY <3>1, <4>1
    <3> QED
      BY <3>2, <3>3
  <2>4. Counts(refs, ptr)'
    BY <2>1, <2>2, <2>3 DEF Counts, OwnersIn
  <2>5. refs' \in [Boxes -> Nat]
    BY <1>0, <2>1
  <2> QED
    BY <1>0, <2>1, <2>4, <2>5 DEF Counted, Ptrs
<1>13. CASE UNCHANGED vars
  BY <1>0, <1>13, CountsPrimed DEF vars
<1> QED
  BY <1>1, <1>2, <1>3, <1>4, <1>5, <1>6, <1>7, <1>8, <1>9, <1>10, <1>11,
     <1>12, <1>13 DEF Next

-----------------------------------------------------------------------------
(* Only releasable classes have boxes in tasks, one owner each.            *)
LEMMA TaskStep ==
  ASSUME IInv, [Next]_vars
  PROVE  TasksOwn'
<1>0. /\ TypeOK /\ Counted(refs, ptr) /\ TasksOwn
      /\ refs \in [Boxes -> Nat] /\ ptr \in [Objs -> Ptrs]
  BY CountedNow
<1>1. ASSUME cls' = cls, taken' \subseteq taken,
             (\E x \in Objs : cls[x].releases) =>
                \A b \in Boxes : refs'[b] <= 1
      PROVE  TasksOwn'
  BY <1>0, <1>1 DEF TasksOwn
<1>2. ASSUME NEW k, Crash(k) PROVE TasksOwn'
  BY <1>0, <1>2 DEF Crash, TasksOwn
<1>3. ASSUME NEW o \in Objs, ~DeletesFreed(ptr[o])
      PROVE  (\E x \in Objs : cls[x].releases) =>
                \A b \in Boxes : Deleted(ptr[o])[b] <= 1
  <2> SUFFICES ASSUME NEW x \in Objs, cls[x].releases, NEW b \in Boxes
               PROVE  Deleted(ptr[o])[b] <= 1
    OBVIOUS
  <2>1. refs[b] <= 1 /\ refs[b] \in Nat
    BY <1>0 DEF TasksOwn
  <2> QED
    BY <1>0, <1>3, <2>1 DEF Deleted, DeletesFreed
<1>4. ASSUME NEW o \in Objs, Construct(o) PROVE TasksOwn'
  <2>1. PICK b \in Boxes : refs[b] = 0 /\ Set(o, b, [refs EXCEPT ![b] = 1])
    BY <1>4 DEF Construct
  <2> QED
    BY <1>0, <1>1, <2>1 DEF Set, TasksOwn
<1>5. ASSUME NEW o \in Objs, NEW p, NEW r, CloneInto(o, p, r),
             cls[o].copy # "deleted"
      PROVE  TasksOwn'
  <2>1. \A x \in Objs : ~cls[x].releases
    BY <1>0, <1>5, ClassFacts
  <2>2. cls' = cls /\ taken' = taken
    BY <1>5 DEF CloneInto, Set
  <2> QED
    BY <1>1, <2>1, <2>2
<1>6. ASSUME NEW o \in Objs, NEW p \in Objs, CopyConstruct(o, p) PROVE TasksOwn'
  BY <1>2, <1>5, <1>6 DEF CopyConstruct, CloneCrash
<1>7. ASSUME NEW o \in Objs, NEW p \in Objs, CopyAssign(o, p) PROVE TasksOwn'
  BY <1>2, <1>5, <1>7 DEF CopyAssign, DeleteAndClone, CloneCrash
<1>8. ASSUME NEW o \in Objs, NEW p \in Objs, MoveAssign(o, p) PROVE TasksOwn'
  BY <1>1, <1>2, <1>3, <1>8 DEF MoveAssign, TakeOver
<1>9. ASSUME NEW o \in Objs, NEW p \in Objs, View(o, p) PROVE TasksOwn'
  <2>1. \A x \in Objs : ~cls[x].releases
    BY <1>0, <1>9, ClassFacts DEF View
  <2> QED
    BY <1>1, <1>9, <2>1 DEF View, Set
<1>10. ASSUME NEW o \in Objs, Destroy(o) PROVE TasksOwn'
  BY <1>1, <1>2, <1>3, <1>10 DEF Destroy
<1>11. ASSUME NEW o \in Objs, Release(o) PROVE TasksOwn'
  <2>1. CASE Crash("null")
    BY <1>2, <2>1
  <2>2. CASE UNCHANGED <<cls, refs>>
    BY <1>0, <1>11, <2>2 DEF Release, TasksOwn
  <2> QED
    BY <1>11, <2>1, <2>2 DEF Release
<1>12. ASSUME NEW b \in Boxes, TaskFrees(b) PROVE TasksOwn'
  BY <1>0, <1>1, <1>12 DEF TaskFrees, TasksOwn
<1>13. CASE UNCHANGED <<cls, refs, taken>>
  BY <1>0, <1>13 DEF TasksOwn
<1>14. ASSUME NEW o \in Objs, NEW p \in Objs,
              ConstructEmpty(o) \/ MoveConstruct(o, p) \/ What(o) \/ UNCHANGED vars
       PROVE  UNCHANGED <<cls, refs, taken>>
  BY <1>14 DEF ConstructEmpty, Set, MoveConstruct, What, vars
<1>15. ASSUME NEW o \in Objs, Use(o) PROVE TasksOwn'
  BY <1>2, <1>15 DEF Use
<1>16. CASE UNCHANGED vars
  BY <1>0, <1>16 DEF vars, TasksOwn
<1> QED
  BY <1>4, <1>6, <1>7, <1>8, <1>9, <1>10, <1>11, <1>12, <1>13, <1>14, <1>15,
     <1>16 DEF Next

-----------------------------------------------------------------------------
(* The set of classes whose members can pass null to Rust.                 *)
NullClasses == {ConnectionError, RequestError, Connection, Sender, Receiver,
                CancellationToken, RequestBuilder, Subscribtion}

(* A fault is one of the known ones: freed memory is only reached through  *)
(* a HeaderVectorView, null only from the classes that do not look.        *)
LEMMA FaultStep ==
  ASSUME IInv, [Next]_vars
  PROVE  FaultsKnown' /\ fault' \in {"none", "null", "freed"}
<1>0. /\ TypeOK /\ Counted(refs, ptr) /\ FaultsKnown
      /\ refs \in [Boxes -> Nat] /\ ptr \in [Objs -> Ptrs] /\ Counts(refs, ptr)
      /\ Null \notin Boxes /\ Gone \notin Boxes
  BY CountedNow
<1>f. fault \in {"none", "null", "freed"}
  BY <1>0 DEF TypeOK
<1>1. ASSUME UNCHANGED <<cls, fault>>
      PROVE  FaultsKnown' /\ fault' \in {"none", "null", "freed"}
  BY <1>0, <1>1, <1>f DEF FaultsKnown
<1>2. ASSUME Crash("freed"), OnlyViews
      PROVE  FaultsKnown' /\ fault' \in {"none", "null", "freed"}
  BY <1>2 DEF Crash, OnlyViews, FaultsKnown
<1>3. ASSUME Crash("null"), \A o \in Objs : cls[o] \in NullClasses
      PROVE  FaultsKnown' /\ fault' \in {"none", "null", "freed"}
  BY <1>3 DEF Crash, NullClasses, FaultsKnown
<1>4. ASSUME NEW o \in Objs, DeletesFreed(ptr[o]) PROVE OnlyViews
  BY <1>0, <1>4, OwnedIsCounted DEF DeletesFreed
<1>5. ASSUME NEW o \in Objs, NEW p \in Objs, o # p, Alive(p),
             cls[o].copy # "deleted", ~DeletesFreed(ptr[o]),
             CloneCrash(o, ptr[p], Deleted(ptr[o]))
      PROVE  Crash("null") /\ \A x \in Objs : cls[x] \in NullClasses
  <2> DEFINE r == Deleted(ptr[o])
             f == [ptr EXCEPT ![o] = Null]
  <2>1. Counted(r, f) /\ f[p] = ptr[p] /\ ptr[p] \in Boxes \cup {Null}
    BY <1>0, <1>5, DeletedCounts, AlivePtr
  <2>2. ~OnlyViews
    BY <1>0, <1>5, ClassFacts DEF OnlyViews
  <2>3. CASE ptr[p] \in Boxes
    <3> HIDE DEF r, f
    <3>1. r[ptr[p]] > 0
      BY <2>1, <2>2, <2>3, OwnedIsCounted DEF Counted
    <3>2. CloneFault(o, ptr[p], r) = "none"
      BY <1>0, <2>1, <2>3, <3>1 DEF CloneFault, Counted
    <3> QED
      BY <1>5, <3>2 DEF CloneCrash, r
  <2>4. CASE ptr[p] = Null
    <3>1. CloneFault(o, ptr[p], r) = "null" /\ ~cls[o].checks
      BY <1>5, <2>4 DEF CloneFault, CloneCrash
    <3>2. \A x \in Objs : cls[x] \in NullClasses
      BY <1>0, <1>5, <3>1, ClassFacts DEF NullClasses
    <3> QED
      BY <1>5, <3>1, <3>2 DEF CloneCrash
  <2> QED
    BY <2>1, <2>3, <2>4
<1>6. ASSUME NEW o \in Objs, NEW p \in Objs, CopyConstruct(o, p)
      PROVE  FaultsKnown' /\ fault' \in {"none", "null", "freed"}
  <2>1. /\ o # p /\ Alive(p) /\ cls[o].copy # "deleted"
        /\ ~DeletesFreed(ptr[o]) /\ Deleted(ptr[o]) = refs
    BY <1>0, <1>6 DEF CopyConstruct, Alive, DeletesFreed, Deleted
  <2>2. CASE CloneCrash(o, ptr[p], refs)
    BY <1>3, <1>5, <2>1, <2>2
  <2>3. CASE CloneInto(o, ptr[p], refs)
    BY <1>1, <2>3 DEF CloneInto, Set
  <2> QED
    BY <1>6, <2>2, <2>3 DEF CopyConstruct
<1>7. ASSUME NEW o \in Objs, NEW p \in Objs, CopyAssign(o, p)
      PROVE  FaultsKnown' /\ fault' \in {"none", "null", "freed"}
  <2>1. o # p /\ Alive(p) /\ cls[o].copy # "deleted"
    BY <1>7 DEF CopyAssign, DeleteAndClone
  <2>2. CASE DeletesFreed(ptr[o]) /\ Crash("freed")
    BY <1>2, <1>4, <2>2
  <2>3. CASE ~DeletesFreed(ptr[o]) /\ CloneCrash(o, ptr[p], Deleted(ptr[o]))
    BY <1>3, <1>5, <2>1, <2>3
  <2>4. CASE CloneInto(o, ptr[p], Deleted(ptr[o]))
    BY <1>1, <2>4 DEF CloneInto, Set
  <2> QED
    BY <1>7, <2>2, <2>3, <2>4 DEF CopyAssign, DeleteAndClone
<1>8. ASSUME NEW o \in Objs, NEW p \in Objs, MoveAssign(o, p)
      PROVE  FaultsKnown' /\ fault' \in {"none", "null", "freed"}
  BY <1>1, <1>2, <1>4, <1>8 DEF MoveAssign, TakeOver
<1>9. ASSUME NEW o \in Objs, Destroy(o)
      PROVE  FaultsKnown' /\ fault' \in {"none", "null", "freed"}
  BY <1>1, <1>2, <1>4, <1>9 DEF Destroy
<1>10. ASSUME NEW o \in Objs, Use(o)
       PROVE  FaultsKnown' /\ fault' \in {"none", "null", "freed"}
  BY <1>2, <1>4, <1>10 DEF Use
<1>11. ASSUME NEW o \in Objs, Release(o)
       PROVE  FaultsKnown' /\ fault' \in {"none", "null", "freed"}
  <2>1. \A x \in Objs : cls[x] \in NullClasses
    BY <1>0, <1>11, ClassFacts DEF Release, NullClasses
  <2> QED
    BY <1>1, <1>3, <1>11, <2>1 DEF Release
<1>12. ASSUME NEW o \in Objs, NEW p \in Objs,
              \/ Construct(o) \/ ConstructEmpty(o) \/ MoveConstruct(o, p)
              \/ What(o) \/ View(o, p)
       PROVE  UNCHANGED <<cls, fault>>
  BY <1>12 DEF Construct, ConstructEmpty, Set, MoveConstruct, What, View
<1>13. ASSUME NEW b \in Boxes, TaskFrees(b) PROVE UNCHANGED <<cls, fault>>
  BY <1>13 DEF TaskFrees
<1>14. CASE UNCHANGED vars
  BY <1>1, <1>14 DEF vars
<1> QED
  BY <1>1, <1>6, <1>7, <1>8, <1>9, <1>10, <1>11, <1>12, <1>13, <1>14 DEF Next

-----------------------------------------------------------------------------
(* The types of what is left, which no step but a member of the class      *)
(* itself changes.                                                         *)
TextTypes ==
  /\ str \in [Objs -> Boxes \cup {Empty, NullStr}] /\ over \subseteq Objs

(* The texts stay.  Then a pointer may change where there was no object,   *)
(* no error or no more than a copy assignment, or to null.                 *)
LEMMA TextSame ==
  ASSUME IInv, UNCHANGED <<cls, str>>, over \subseteq over', over' \subseteq Objs,
         \A o \in Objs : \/ ptr'[o] = ptr[o]
                         \/ /\ ptr'[o] # Gone
                            /\ \/ ~Alive(o) \/ ~IsError(o)
                               \/ ptr'[o] = Null \/ o \in over'
  PROVE  TextInv' /\ TextTypes'
<1>0. TypeOK /\ TextInv /\ Null \notin Boxes /\ Null # Gone
  BY CountedNow
<1>1. ASSUME NEW o \in Objs PROVE (ptr'[o] = Gone \/ ~IsError(o)) => str[o] = Empty
  BY <1>0 DEF TextInv, Alive
<1>2. ASSUME NEW o \in Objs, ptr'[o] \in Boxes, o \notin over'
      PROVE  str[o] \in {Empty, ptr'[o]}
  BY <1>0, <1>2 DEF TextInv, TextOfItsError
<1> QED
  BY <1>0, <1>1, <1>2 DEF TextInv, TextTypes, TextOfItsError, Alive, IsError, TypeOK

(* A move takes the text along with the pointer.                           *)
LEMMA TextMoves ==
  ASSUME IInv, NEW o \in Objs, NEW p \in Objs, o # p, Alive(p), cls[o] = cls[p],
         cls' = cls, MoveText(o, p), ptr'[o] = ptr[p],
         ptr'[p] = Null \/ (ptr'[p] = ptr[p] /\ ~IsError(p)),
         \A x \in Objs \ {o, p} : ptr'[x] = ptr[x]
  PROVE  TextInv' /\ TextTypes'
<1>0. /\ TypeOK /\ TextInv /\ Null \notin Boxes /\ Null # Gone
      /\ str \in [Objs -> Boxes \cup {Empty, NullStr}] /\ over \subseteq Objs
  BY CountedNow DEF TypeOK
<1>1. /\ str' \in [Objs -> Boxes \cup {Empty, NullStr}] /\ over' \subseteq Objs
      /\ str'[o] = str[p] /\ str'[p] = MovedOut(str[p])
      /\ \A x \in Objs \ {o, p} : str'[x] = str[x]
      /\ o \in over' <=> p \in over
      /\ \A x \in Objs \ {o} : x \in over' <=> x \in over
  BY <1>0 DEF MoveText, MovedOut
<1>2. ASSUME NEW x \in Objs, ptr'[x] = Gone \/ ~IsError(x) PROVE str'[x] = Empty
  <2>1. CASE x = o
    BY <1>0, <1>1, <1>2, <2>1 DEF TextInv, Alive, IsError
  <2>2. CASE x = p
    BY <1>0, <1>1, <1>2, <2>2 DEF TextInv, Alive, MovedOut
  <2>3. CASE x \notin {o, p}
    BY <1>0, <1>1, <1>2, <2>3 DEF TextInv, Alive
  <2> QED
    BY <2>1, <2>2, <2>3
<1>3. ASSUME NEW x \in Objs, ptr'[x] \in Boxes, x \notin over'
      PROVE  str'[x] \in {Empty, ptr'[x]}
  <2>1. CASE x = o
    BY <1>0, <1>1, <1>3, <2>1 DEF TextInv, TextOfItsError
  <2>2. CASE x = p
    <3>1. ~IsError(p)
      BY <1>0, <1>3, <2>2
    <3> QED
      BY <1>2, <2>2, <3>1
  <2>3. CASE x \notin {o, p}
    BY <1>0, <1>1, <1>3, <2>3 DEF TextInv, TextOfItsError
  <2> QED
    BY <2>1, <2>2, <2>3
<1> QED
  BY <1>1, <1>2, <1>3 DEF TextInv, TextTypes, TextOfItsError, Alive, IsError

(* The text stays that of its error.                                       *)
LEMMA TextStep ==
  ASSUME IInv, [Next]_vars
  PROVE  TextInv' /\ TextTypes'
<1>0. /\ TypeOK /\ TextInv /\ ptr \in [Objs -> Ptrs]
      /\ Null \notin Boxes /\ Gone \notin Boxes /\ Null # Gone
      /\ str \in [Objs -> Boxes \cup {Empty, NullStr}] /\ over \subseteq Objs
  BY CountedNow DEF TypeOK
<1>1. ASSUME UNCHANGED <<cls, ptr, str, over>> PROVE TextInv' /\ TextTypes'
  BY <1>0, <1>1, TextSame
<1>2. ASSUME NEW k, Crash(k) PROVE TextInv' /\ TextTypes'
  BY <1>1, <1>2 DEF Crash
<1>3. ASSUME NEW o \in Objs, ~Alive(o), NEW q \in Boxes \cup {Null},
             ptr' = [ptr EXCEPT ![o] = q], UNCHANGED <<cls, str, over>>
      PROVE  TextInv' /\ TextTypes'
  <2>1. ptr'[o] # Gone /\ \A x \in Objs \ {o} : ptr'[x] = ptr[x]
    BY <1>0, <1>3
  <2> QED
    BY <1>0, <1>3, <2>1, TextSame
<1>4. ASSUME NEW o \in Objs, NEW p \in Boxes \cup {Null}, NEW r, CloneInto(o, p, r)
      PROVE  /\ UNCHANGED <<cls, str>>
             /\ \E q \in Boxes \cup {Null} : ptr' = [ptr EXCEPT ![o] = q]
  BY <1>4 DEF CloneInto, Set
<1>5. ASSUME NEW o \in Objs, Construct(o) PROVE TextInv' /\ TextTypes'
  BY <1>3, <1>5 DEF Construct, Set
<1>6. ASSUME NEW o \in Objs, ConstructEmpty(o) PROVE TextInv' /\ TextTypes'
  BY <1>3, <1>6 DEF ConstructEmpty, Set
<1>7. ASSUME NEW o \in Objs, NEW p \in Objs, View(o, p)
      PROVE  TextInv' /\ TextTypes'
  <2>1. ptr[p] \in Boxes \cup {Null}
    BY <1>0, <1>7, AlivePtr DEF View
  <2> QED
    BY <1>3, <1>7, <2>1 DEF View, Set
<1>8. ASSUME NEW o \in Objs, NEW p \in Objs, CopyConstruct(o, p)
      PROVE  TextInv' /\ TextTypes'
  <2>1. ptr[p] \in Boxes \cup {Null} /\ ~Alive(o)
    BY <1>0, <1>8, AlivePtr DEF CopyConstruct
  <2>2. CASE CloneCrash(o, ptr[p], refs)
    BY <1>2, <2>2 DEF CloneCrash
  <2>3. CASE CloneInto(o, ptr[p], refs) /\ UNCHANGED over
    BY <1>3, <1>4, <2>1, <2>3
  <2> QED
    BY <1>8, <2>2, <2>3 DEF CopyConstruct
<1>9. ASSUME NEW o \in Objs, NEW p \in Objs, CopyAssign(o, p)
      PROVE  TextInv' /\ TextTypes'
  <2>1. ptr[p] \in Boxes \cup {Null}
    BY <1>0, <1>9, AlivePtr DEF CopyAssign
  <2>2. CASE \E k : Crash(k)
    BY <1>2, <2>2
  <2>3. CASE /\ CloneInto(o, ptr[p], Deleted(ptr[o]))
             /\ over' = IF IsError(o) THEN over \cup {o} ELSE over
    <3>1. /\ UNCHANGED <<cls, str>> /\ ptr'[o] # Gone
          /\ \A x \in Objs \ {o} : ptr'[x] = ptr[x]
      BY <1>0, <1>4, <2>1, <2>3
    <3>2. over \subseteq over' /\ over' \subseteq Objs /\ (~IsError(o) \/ o \in over')
      BY <1>0, <2>3
    <3> QED
      BY <3>1, <3>2, TextSame
  <2> QED
    BY <1>9, <2>2, <2>3 DEF CopyAssign, DeleteAndClone, CloneCrash
<1>10. ASSUME NEW o \in Objs, NEW p \in Objs, MoveConstruct(o, p)
       PROVE  TextInv' /\ TextTypes'
  <2>1. /\ o # p /\ Alive(p) /\ cls[o] = cls[p] /\ cls' = cls /\ MoveText(o, p)
        /\ ptr'[o] = ptr[p] /\ ptr'[p] = Null
        /\ \A x \in Objs \ {o, p} : ptr'[x] = ptr[x]
    BY <1>0, <1>10 DEF MoveConstruct, Alive
  <2> QED
    BY <2>1, TextMoves
<1>11. ASSUME NEW o \in Objs, NEW p \in Objs, MoveAssign(o, p)
       PROVE  TextInv' /\ TextTypes'
  <2>1. CASE Crash("freed")
    BY <1>2, <2>1
  <2>2. CASE TakeOver(o, p) /\ MoveText(o, p)
    <3>1. /\ o # p /\ Alive(p) /\ cls[o] = cls[p] /\ cls' = cls
          /\ ptr'[o] = ptr[p]
          /\ ptr'[p] = IF cls[o].clears THEN Null ELSE ptr[p]
          /\ \A x \in Objs \ {o, p} : ptr'[x] = ptr[x]
      BY <1>0, <1>11, <2>2 DEF MoveAssign, TakeOver
    <3>2. ~cls[o].clears => ~IsError(p)
      BY <1>0, <3>1, ClassFacts
    <3> QED
      BY <2>2, <3>1, <3>2, TextMoves
  <2> QED
    BY <1>11, <2>1, <2>2 DEF MoveAssign
<1>12. ASSUME NEW o \in Objs, What(o) PROVE TextInv' /\ TextTypes'
  <2>1. /\ Alive(o) /\ IsError(o) /\ (str[o] = Empty => ptr[o] \in Boxes)
        /\ str' = [str EXCEPT ![o] = IF str[o] = Empty THEN ptr[o] ELSE str[o]]
        /\ UNCHANGED <<cls, ptr, over>>
    BY <1>12 DEF What
  <2>2. /\ str' \in [Objs -> Boxes \cup {Empty, NullStr}]
        /\ \A x \in Objs \ {o} : str'[x] = str[x]
        /\ str'[o] \in {str[o], ptr[o]}
    BY <1>0, <2>1
  <2> QED
    BY <1>0, <2>1, <2>2
    DEF TextInv, TextTypes, TextOfItsError, Alive, IsError
<1>13. ASSUME NEW o \in Objs, Destroy(o) PROVE TextInv' /\ TextTypes'
  <2>1. CASE Crash("freed")
    BY <1>2, <2>1
  <2>2. CASE /\ ptr' = [ptr EXCEPT ![o] = Gone] /\ cls' = cls
             /\ str' = [str EXCEPT ![o] = Empty] /\ over' = over \ {o}
    BY <1>0, <2>2 DEF TextInv, TextTypes, TextOfItsError, Alive, IsError
  <2> QED
    BY <1>13, <2>1, <2>2 DEF Destroy
<1>14. ASSUME NEW o \in Objs, Release(o) PROVE TextInv' /\ TextTypes'
  <2>1. CASE Crash("null")
    BY <1>2, <2>1
  <2>2. CASE ptr' = [ptr EXCEPT ![o] = Null] /\ UNCHANGED <<cls, str, over>>
    <3>1. ptr'[o] = Null /\ \A x \in Objs \ {o} : ptr'[x] = ptr[x]
      BY <1>0, <2>2
    <3> QED
      BY <1>0, <2>2, <3>1, TextSame
  <2> QED
    BY <1>14, <2>1, <2>2 DEF Release
<1>15. ASSUME NEW b \in Boxes, TaskFrees(b) PROVE TextInv' /\ TextTypes'
  BY <1>1, <1>15 DEF TaskFrees
<1>16. ASSUME NEW o \in Objs, Use(o) PROVE TextInv' /\ TextTypes'
  BY <1>2, <1>16 DEF Use
<1>17. CASE UNCHANGED vars
  BY <1>1, <1>17 DEF vars
<1> QED
  BY <1>5, <1>6, <1>7, <1>8, <1>9, <1>10, <1>11, <1>12, <1>13, <1>14, <1>15,
     <1>16, <1>17 DEF Next

-----------------------------------------------------------------------------
(* The classes never change, and only the release moves a box to a task.   *)
LEMMA RestStep ==
  ASSUME IInv, [Next]_vars
  PROVE  cls' = cls /\ taken' \subseteq Boxes
<1>0. TypeOK /\ taken \subseteq Boxes /\ ptr \in [Objs -> Ptrs]
  BY CountedNow DEF TypeOK
<1>1. ASSUME NEW o \in Objs, Release(o) PROVE cls' = cls /\ taken' \subseteq Boxes
  BY <1>0, <1>1, AlivePtr DEF Release, Crash
<1>2. ASSUME NEW b \in Boxes, TaskFrees(b) PROVE cls' = cls /\ taken' \subseteq Boxes
  BY <1>0, <1>2 DEF TaskFrees
<1>3. ASSUME NEW o \in Objs, NEW p \in Objs,
             \/ Construct(o) \/ ConstructEmpty(o) \/ What(o) \/ View(o, p)
             \/ CopyConstruct(o, p) \/ CopyAssign(o, p)
      PROVE  cls' = cls /\ taken' = taken
  BY <1>3 DEF Construct, ConstructEmpty, What, View, CopyConstruct, CopyAssign,
     DeleteAndClone, CloneInto, CloneCrash, Crash, Set
<1>4. ASSUME NEW o \in Objs, NEW p \in Objs,
             Destroy(o) \/ Use(o) \/ MoveConstruct(o, p) \/ MoveAssign(o, p)
      PROVE  cls' = cls /\ taken' = taken
  BY <1>4 DEF Destroy, Use, MoveConstruct, MoveAssign, TakeOver, Crash
<1>5. CASE UNCHANGED vars
  BY <1>0, <1>5 DEF vars
<1> QED
  BY <1>0, <1>1, <1>2, <1>3, <1>4, <1>5 DEF Next

(* Nothing is constructed at the start.                                    *)
LEMMA InitIInv == Init => IInv
<1> SUFFICES ASSUME Init PROVE IInv
  OBVIOUS
<1>1. TypeOK
  BY DEF Init, TypeOK
<1>2. Counts(refs, ptr)
  <2> SUFFICES ASSUME NEW b \in Boxes
               PROVE  refs[b] = 0 /\ Cardinality(OwnersIn(ptr, b)) + TaskRefs(b) = 0
    BY DEF Counts
  <2>1. Cardinality(OwnersIn(ptr, b)) = 0
    BY OwnersNone, HandlesAssumption DEF Init
  <2> QED
    BY <2>1 DEF Init, TaskRefs
<1>3. TasksOwn /\ TextInv /\ FaultsKnown
  BY HandlesAssumption
  DEF Init, TasksOwn, TextInv, TextOfItsError, Alive, FaultsKnown
<1> QED
  BY <1>1, <1>2, <1>3 DEF IInv

(* The inductive invariant holds in every reachable state.                 *)
THEOREM Invariant == Spec => []IInv
<1>1. IInv /\ [Next]_vars => IInv'
  <2> SUFFICES ASSUME IInv, [Next]_vars PROVE IInv'
    OBVIOUS
  <2>1. TypeOK'
    BY CountedNow, CountStep, FaultStep, TextStep, RestStep
    DEF TypeOK, Counted, Ptrs, TextTypes
  <2> QED
    BY <2>1, CountStep, TaskStep, FaultStep, TextStep DEF IInv, Counted
<1> QED
  BY InitIInv, <1>1, PTL DEF Spec

(* The hand-written special members of all the C++ classes: for any number *)
(* of objects, in any order of copies, moves, assignments and destructors  *)
(* a box counts exactly its owners, HeaderVectorView excepted.             *)
THEOREM OwnersCounted == Spec => []Ownership
<1>1. IInv => Ownership
  <2> SUFFICES ASSUME IInv, NEW b \in Boxes
               PROVE  LET owners == Cardinality(Owners(b)) + TaskRefs(b) IN
                        \/ refs[b] = owners
                        \/ /\ refs[b] < owners
                           /\ \A o \in Owners(b) : cls[o] = HeaderVectorView
    BY DEF Ownership
  <2>1. Owners(b) = OwnersIn(ptr, b)
    BY DEF Owners, OwnersIn
  <2>2. /\ refs[b] \in Nat /\ TaskRefs(b) \in {0, 1}
        /\ Cardinality(Owners(b)) \in Nat
        /\ OnlyViews => refs[b] <= Cardinality(Owners(b)) + TaskRefs(b)
        /\ ~OnlyViews => refs[b] = Cardinality(Owners(b)) + TaskRefs(b)
    BY <2>1, CountedNow, CountsAt
  <2>3. OnlyViews => \A o \in Owners(b) : cls[o] = HeaderVectorView
    BY DEF OnlyViews, Owners
  <2> QED
    BY <2>2, <2>3
<1> QED
  BY <1>1, Invariant, PTL

(* What Rust can be made to dereference at all: memory that was freed only *)
(* through a HeaderVectorView, null only from the classes that do not look.*)
THEOREM Faults == Spec => []FaultsKnown
<1>1. IInv => FaultsKnown
  BY DEF IInv
<1> QED
  BY <1>1, Invariant, PTL

(* connection.hpp, request.hpp: the text an error object has cached is the *)
(* text of its error, unless the object was copy-assigned to.              *)
THEOREM Texts == Spec => []TextOfItsError
<1>1. IInv => TextOfItsError
  BY DEF IInv, TextInv
<1> QED
  BY <1>1, Invariant, PTL
=============================================================================
