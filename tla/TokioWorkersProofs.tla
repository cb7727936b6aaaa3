------------------------- MODULE TokioWorkersProofs -------------------------
(***************************************************************************)
(* Proofs about TokioWorkers for any finite set of handlers, any number of *)
(* threads, and any capacities and budget.                                 *)
(***************************************************************************)
EXTENDS TokioWorkers, FiniteSetTheorems, TLAPS

(* Before TokioRuntime(cfg) no task is being polled, so the client may     *)
(* still choose any number of threads.                                     *)
Before ==
  rt = "config" =>
    ~Polled /\ ~shut /\ \A h \in Handlers : handler[h] = "idle"

(* No wake-up is lost: the pump sleeps only with an empty buffer and no    *)
(* cancel to look at.                                                      *)
Sleeps == pump = "asleep" => buffer = 0 /\ signal # "sent"

(* The shutdown leaves no task behind that nobody will poll or drop.       *)
Left ==
  shut => /\ pump \notin {"asleep", "woken"}
          /\ \A h \in Handlers : handler[h] # "queued"

(* Once ~TokioRuntime has returned no completion handler runs, waits in    *)
(* receive or is still to come, and the pump is gone.                      *)
Quiet ==
  rt = "down" => /\ shut /\ pump \in {"none", "ended", "dropped"}
                 /\ \A h \in Handlers : handler[h] \in {"idle", "done", "dropped"}

(* A LIFO slot belongs to a worker inside a handler; what is in it waits   *)
(* to be polled, and waits there only.                                     *)
Slots ==
  \A h \in Handlers : slot[h] # NoTask =>
    /\ handler[h] \in {"running", "blocked"}
    /\ slot[h] = ThePump => pump = "woken"
    /\ slot[h] \in Handlers => handler[slot[h]] = "queued"
    /\ \A g \in Handlers : slot[g] = slot[h] => g = h

(* A handler is blocked in receive only after a Receiver was constructed.  *)
Receives == pump = "none" => \A h \in Handlers : handler[h] # "blocked"

Core == TypeOK /\ Before /\ Sleeps /\ Left /\ Quiet
IInv == Core /\ Slots /\ Receives

(* Workers inside a completion handler, running or blocked.                *)
Inside == Cardinality(On({"running", "blocked"}))

-----------------------------------------------------------------------------
(* There are finitely many handlers in any kind of place.                  *)
LEMMA OnFinite ==
  ASSUME NEW s
  PROVE  IsFiniteSet(On(s)) /\ Cardinality(On(s)) \in Nat
<1>1. IsFiniteSet(On(s))
  BY FS_Subset, WorkersAssumption DEF On
<1> QED
  BY <1>1, FS_CardinalityType

(* A handler that comes to one of the places in p, leaves them or moves    *)
(* between them changes their number by one, minus one or nothing.         *)
LEMMA OnStep ==
  ASSUME TypeOK, NEW p, NEW h \in Handlers, NEW s,
         handler' = [handler EXCEPT ![h] = s]
  PROVE  /\ handler[h] \notin p /\ s \in p
              => Cardinality(On(p))' = Cardinality(On(p)) + 1
         /\ handler[h] \in p /\ s \notin p
              => Cardinality(On(p))' = Cardinality(On(p)) - 1
         /\ (handler[h] \in p <=> s \in p) => On(p)' = On(p)
<1>0. handler \in [Handlers -> {"idle", "queued", "running", "blocked", "done",
                                "dropped"}]
  BY DEF TypeOK
<1>1. On(p)' = {g \in Handlers : handler'[g] \in p}
  BY DEF On
<1>2. \A g \in Handlers : handler'[g] = IF g = h THEN s ELSE handler[g]
  BY <1>0
<1>3. IsFiniteSet(On(p)) /\ Cardinality(On(p)) \in Nat
  BY OnFinite
<1>4. ASSUME handler[h] \notin p, s \in p
      PROVE  Cardinality(On(p))' = Cardinality(On(p)) + 1
  <2>1. On(p)' = On(p) \cup {h} /\ h \notin On(p)
    BY <1>1, <1>2, <1>4 DEF On
  <2> QED
    BY <1>3, <2>1, FS_AddElement
<1>5. ASSUME handler[h] \in p, s \notin p
      PROVE  Cardinality(On(p))' = Cardinality(On(p)) - 1
  <2>1. On(p)' = On(p) \ {h} /\ h \in On(p)
    BY <1>1, <1>2, <1>5 DEF On
  <2> QED
    BY <1>3, <2>1, FS_RemoveElement
<1>6. ASSUME handler[h] \in p <=> s \in p PROVE On(p)' = On(p)
  BY <1>1, <1>2, <1>6 DEF On
<1> QED
  BY <1>4, <1>5, <1>6

(* A handler that enters a worker, leaves it or goes on inside it.         *)
LEMMA InsideStep ==
  ASSUME TypeOK, NEW h \in Handlers, NEW s,
         handler' = [handler EXCEPT ![h] = s]
  PROVE  /\ handler[h] \notin {"running", "blocked"} /\ s \in {"running", "blocked"}
              => Inside' = Inside + 1
         /\ handler[h] \in {"running", "blocked"} /\ s \notin {"running", "blocked"}
              => Inside' = Inside - 1
         /\ handler[h] \in {"running", "blocked"} /\ s \in {"running", "blocked"}
              => Inside' = Inside
BY OnStep DEF Inside

(* What Busy is made of.                                                   *)
LEMMA BusyIs ==
  /\ Inside \in Nat
  /\ Polled => Busy = Inside + 1
  /\ ~Polled => Busy = Inside
<1>1. Inside \in Nat
  BY OnFinite DEF Inside
<1> QED
  BY <1>1 DEF Busy, Inside

-----------------------------------------------------------------------------
(* At the start nothing runs.                                              *)
LEMMA InitCore == Init => Core
<1> SUFFICES ASSUME Init PROVE Core
  OBVIOUS
<1>1. On({"running", "blocked"}) = {}
  BY DEF Init, On
<1>2. Inside = 0
  BY <1>1, FS_EmptySet DEF Inside
<1>3. Busy = 0
  BY <1>2, BusyIs DEF Init, Polled
<1>4. TypeOK
  <2>1. shut \in BOOLEAN /\ closed \in BOOLEAN /\ ~shut /\ ~closed
    BY Zenon DEF Init
  <2>2. /\ rt = "config" /\ count \in 1 .. MaxThreads
        /\ handler = [h \in Handlers |-> "idle"] /\ pump = "none"
        /\ slot = [h \in Handlers |-> NoTask]
        /\ budget = 0 /\ buffer = 0 /\ chan = 0 /\ signal = "none" /\ asked = {}
    BY Zenon DEF Init
  <2> QED
    BY <1>3, <2>1, <2>2, WorkersAssumption DEF TypeOK
<1>5. Before /\ Sleeps /\ Left /\ Quiet
  BY DEF Init, Before, Sleeps, Left, Quiet, Polled
<1> QED
  BY <1>4, <1>5 DEF Core

(* The configuration, the constructor and the destructor's call.           *)
LEMMA ConfigStep ==
  ASSUME Core,
         (\E n \in 0 .. MaxThreads : ThreadCount(n)) \/ New \/ Destroy
  PROVE  Core'
<1>0. TypeOK /\ Before /\ Sleeps /\ Left /\ Quiet
  BY DEF Core
<1>1. /\ UNCHANGED <<shut, handler, slot, pump, budget, buffer, chan, signal,
                     closed, asked>>
      /\ \/ /\ rt = "config" /\ rt' = rt
            /\ count' \in 0 .. MaxThreads
         \/ /\ rt' \in {"aborted", "up", "stopping"}
            /\ count' = count
  BY DEF ThreadCount, New, Destroy, pumpVars
<1>2. Inside' = Inside /\ Polled' = Polled /\ Busy' = Busy
  BY <1>1 DEF Inside, On, Polled, Busy
<1>3. Busy' <= count'
  <2>1. CASE rt = "config"
    <3>1. On({"running", "blocked"}) = {} /\ ~Polled
      BY <1>0, <2>1 DEF On, Before
    <3>2. Busy = 0
      BY <3>1, FS_EmptySet, BusyIs DEF Inside
    <3> QED
      BY <1>0, <1>1, <1>2, <3>2 DEF TypeOK
  <2>2. CASE rt # "config"
    BY <1>0, <1>1, <1>2, <2>2 DEF TypeOK
  <2> QED
    BY <2>1, <2>2
<1>4. TypeOK'
  BY <1>0, <1>1, <1>3 DEF TypeOK
<1>5. Before' /\ Sleeps' /\ Left' /\ Quiet'
  BY <1>0, <1>1, <1>2 DEF Before, Sleeps, Left, Quiet
<1> QED
  BY <1>4, <1>5 DEF Core

(* What a caller schedules keeps the slots' type.                          *)
LEMMA SlotType ==
  ASSUME TypeOK, NEW c \in Callers, NEW t \in Handlers \cup {ThePump},
         Schedule(c, t)
  PROVE  slot' \in [Handlers -> Handlers \cup {ThePump, NoTask}]
BY DEF TypeOK, Schedule, Callers

(* A message, a cancel or the constructor of a Receiver wakes the pump.    *)
LEMMA WakeUpStep ==
  ASSUME Core, Arrive \/ \E c \in Callers : Cancel(c) \/ NewReceiver(c)
  PROVE  Core'
<1>0. TypeOK /\ Before /\ Sleeps /\ Left /\ Quiet
  BY DEF Core
<1> DEFINE Effect ==
      /\ UNCHANGED <<rt, shut, count, handler, budget, chan, closed, asked>>
      /\ Running
      /\ \/ pump' = pump /\ pump # "asleep"
         \/ pump \in {"none", "asleep"} /\ ~shut /\ pump' = "woken"
         \/ pump = "none" /\ pump' = "dropped"
      /\ buffer' \in 0 .. BufCap /\ signal' \in {signal, "sent"}
<1>1. Effect
  <2>1. CASE Arrive
    BY <1>0, <2>1, WorkersAssumption DEF Arrive, TypeOK
  <2>2. ASSUME NEW c \in Callers, Cancel(c) PROVE Effect
    BY <1>0, <2>2 DEF Cancel, MayCall, TypeOK, Left
  <2>3. ASSUME NEW c \in Callers, NewReceiver(c) PROVE Effect
    BY <1>0, <2>3 DEF NewReceiver, MayCall, TypeOK
  <2> QED
    BY <2>1, <2>2, <2>3
<1>2. slot' \in [Handlers -> Handlers \cup {ThePump, NoTask}]
  <2>1. CASE slot' = slot
    BY <1>0, <2>1 DEF TypeOK
  <2> QED
    BY <1>0, <2>1, SlotType, Zenon DEF Arrive, Cancel, NewReceiver
<1>3. Inside' = Inside /\ Polled' = Polled
  BY <1>0, <1>1 DEF Inside, On, Polled
<1>4. Busy' = Busy
  BY <1>3 DEF Busy, Inside
<1>5. TypeOK'
  BY <1>0, <1>1, <1>2, <1>4 DEF TypeOK
<1>6. Before' /\ Sleeps' /\ Left' /\ Quiet'
  BY <1>0, <1>1, <1>3 DEF Before, Sleeps, Left, Quiet, Running
<1> QED
  BY <1>5, <1>6 DEF Core

(* A call with a completion handler occupies no worker yet.                *)
LEMMA StartStep ==
  ASSUME Core, NEW c \in Callers, NEW h \in Handlers, Start(c, h)
  PROVE  Core'
<1>0. TypeOK /\ Before /\ Sleeps /\ Left /\ Quiet
  BY DEF Core
<1>1. /\ UNCHANGED <<rt, shut, count, pump, budget, buffer, chan, signal, closed, asked>>
      /\ Running /\ handler[h] = "idle"
  BY DEF Start, MayCall, pumpVars
<1>2. PICK s \in {"queued", "dropped"} :
        handler' = [handler EXCEPT ![h] = s] /\ (s = "queued" => ~shut)
  BY Zenon DEF Start
<1>3. slot' \in [Handlers -> Handlers \cup {ThePump, NoTask}]
  <2>1. CASE slot' = slot
    BY <1>0, <2>1 DEF TypeOK
  <2> QED
    BY <1>0, <2>1, SlotType, Zenon DEF Start
<1>4. Inside' = Inside
  <2>1. handler[h] \in {"running", "blocked"} <=> s \in {"running", "blocked"}
    BY <1>1
  <2> QED
    BY <1>0, <1>2, <2>1, OnStep DEF Inside
<1>5. Busy' = Busy /\ Polled' = Polled
  BY <1>1, <1>4 DEF Busy, Inside, Polled
<1>6. TypeOK'
  BY <1>0, <1>1, <1>2, <1>3, <1>5 DEF TypeOK
<1>7. Before' /\ Sleeps' /\ Quiet'
  BY <1>0, <1>1 DEF Before, Sleeps, Quiet, Running
<1>8. Left'
  BY <1>0, <1>1, <1>2 DEF Left, TypeOK
<1> QED
  BY <1>6, <1>7, <1>8 DEF Core

-----------------------------------------------------------------------------
(* A worker starts to poll the pump: one more worker is occupied.          *)
LEMMA PollPumpStep ==
  ASSUME Core, PollPump
  PROVE  Core'
<1>0. TypeOK /\ Before /\ Sleeps /\ Left /\ Quiet
  BY DEF Core
<1>1. /\ UNCHANGED <<rt, shut, count, handler, slot, buffer, chan, signal, closed,
                     asked>>
      /\ Running /\ pump = "woken" /\ pump' = "next" /\ budget' = Budget
      /\ Busy < count
  BY DEF PollPump, PumpStep, CanPollPump, WorkerFree
<1>2. Inside' = Inside /\ ~Polled /\ Polled'
  BY <1>1 DEF Inside, On, Polled
<1>3. Busy' <= count'
  <2>1. Busy = Inside /\ Inside \in Nat
    BY <1>2, BusyIs
  <2>2. Busy' = Inside + 1
    BY <1>2 DEF Busy, Inside
  <2> QED
    BY <1>0, <1>1, <2>1, <2>2 DEF TypeOK
<1>4. TypeOK'
  BY <1>0, <1>1, <1>3, WorkersAssumption DEF TypeOK
<1>5. Before' /\ Sleeps' /\ Left' /\ Quiet'
  BY <1>0, <1>1 DEF Before, Sleeps, Left, Quiet, Running
<1> QED
  BY <1>4, <1>5 DEF Core

(* What the steps of a poll of the pump have in common: the poll goes on,  *)
(* or ends and leaves the pump asleep with nothing to look at, woken, or,  *)
(* after the shutdown, dropped.                                            *)
InPoll ==
  /\ rt # "aborted" /\ Polled
  /\ UNCHANGED <<shut, count, handler, slot, asked>>
  /\ rt' = rt \/ (shut /\ rt' = "aborted")
  /\ \/ pump' \in {"next", "sd", "unsub", "ended", "dropped"}
     \/ ~shut /\ pump' = "woken"
     \/ ~shut /\ pump' = "asleep" /\ buffer' = 0 /\ signal' # "sent"
  /\ budget' \in 0 .. Budget /\ buffer' \in 0 .. BufCap /\ chan' \in 0 .. Cap
  /\ signal' \in {signal, "taken"} /\ closed' \in BOOLEAN

(* Every step of a poll is of that kind.                                   *)
LEMMA PollSteps ==
  ASSUME TypeOK, Pump, ~PollPump
  PROVE  InPoll
<1>0. /\ budget \in 0 .. Budget /\ buffer \in 0 .. BufCap /\ chan \in 0 .. Cap
      /\ signal \in {"none", "sent", "taken"} /\ closed \in BOOLEAN
      /\ shut \in BOOLEAN
      /\ Budget \in Nat /\ BufCap \in Nat /\ Cap \in Nat
  BY WorkersAssumption DEF TypeOK
<1>1. rt # "aborted"
  BY DEF Pump
<1>2. CASE PumpMessage
  BY <1>0, <1>1, <1>2 DEF PumpMessage, PumpStep, InPoll, Polled
<1>3. CASE PumpSpent
  BY <1>0, <1>1, <1>3 DEF PumpSpent, Yield, PumpStep, InPoll, Polled
<1>4. CASE PumpEnd
  BY <1>0, <1>1, <1>4 DEF PumpEnd, PumpStep, InPoll, Polled
<1>5. CASE PumpPending
  BY <1>0, <1>1, <1>5 DEF PumpPending, PumpStep, InPoll, Polled
<1>6. CASE PumpShutdown
  BY <1>0, <1>1, <1>6 DEF PumpShutdown, Yield, PumpStep, InPoll, Polled
<1>7. CASE PumpUnsubscribe
  <2>1. /\ pump = "unsub" /\ UNCHANGED <<budget, buffer, chan, signal>>
        /\ UNCHANGED <<shut, count, handler, slot, asked>>
        /\ rt' = rt \/ (shut /\ rt' = "aborted")
        /\ pump' \in {"next", "dropped", "unsub"}
    BY <1>7 DEF PumpUnsubscribe, PumpStep
  <2>2. closed' \in BOOLEAN
    BY <1>0, <1>7, Zenon DEF PumpUnsubscribe
  <2> QED
    BY <1>0, <1>1, <2>1, <2>2 DEF InPoll, Polled
<1> QED
  BY <1>2, <1>3, <1>4, <1>5, <1>6, <1>7 DEF Pump

(* A poll of the pump occupies no more workers as it goes on.              *)
LEMMA InPollStep ==
  ASSUME Core, InPoll
  PROVE  Core'
<1>0. TypeOK /\ Before /\ Sleeps /\ Left /\ Quiet
  BY DEF Core
<1>1. Inside' = Inside /\ Inside \in Nat
  BY BusyIs DEF InPoll, Inside, On
<1>2. Busy' <= count'
  <2>1. Busy = Inside + 1
    BY BusyIs DEF InPoll
  <2>2. Busy' \in {Inside, Inside + 1}
    BY <1>1 DEF Busy, Inside
  <2> QED
    BY <1>0, <1>1, <2>1, <2>2 DEF TypeOK, InPoll
<1>3. TypeOK'
  <2>1. rt' \in {"config", "up", "stopping", "down", "aborted"}
    BY <1>0 DEF TypeOK, InPoll
  <2>2. pump' \in {"none", "asleep", "woken", "next", "sd", "unsub", "ended", "dropped"}
    BY DEF InPoll
  <2> QED
    BY <1>0, <1>2, <2>1, <2>2 DEF TypeOK, InPoll
<1>4. Before'
  BY <1>0 DEF Before, InPoll
<1>5. Sleeps'
  BY DEF Sleeps, InPoll
<1>6. Left'
  BY <1>0 DEF Left, InPoll
<1>7. Quiet'
  BY <1>0 DEF Quiet, InPoll, Polled
<1> QED
  BY <1>3, <1>4, <1>5, <1>6, <1>7 DEF Core

-----------------------------------------------------------------------------
(* A handler enters a worker only when one is free, and what happens to it *)
(* there leaves the pump's wake-ups alone.                                 *)
LEMMA HandlersStep ==
  ASSUME Core, NEW h \in Handlers, HandlerNext(h) \/ Block(h)
  PROVE  Core'
<1>0. TypeOK /\ Before /\ Sleeps /\ Left /\ Quiet
  BY DEF Core
<1>1. PICK s \in {"running", "blocked", "done"} :
        /\ HandlerStep(h, s)
        /\ \/ handler[h] = "queued" /\ s = "running" /\ WorkerFree
           \/ handler[h] \in {"running", "blocked"}
        /\ chan' \in 0 .. Cap /\ asked' \subseteq Handlers
        /\ slot' \in {slot, [slot EXCEPT ![h] = NoTask]}
  <2>0. chan \in 0 .. Cap /\ asked \subseteq Handlers /\ Cap \in Nat
    BY <1>0, WorkersAssumption DEF TypeOK
  <2>1. CASE PollHandler(h)
    BY <2>0, <2>1 DEF PollHandler, CanPollHandler
  <2>2. CASE Block(h)
    BY <2>0, <2>2 DEF Block
  <2>3. CASE Wake(h)
    BY <2>0, <2>3 DEF Wake, CanWake
  <2>4. CASE Return(h)
    BY <2>0, <2>4 DEF Return
  <2> QED
    BY <2>1, <2>2, <2>3, <2>4 DEF HandlerNext
<1>2. /\ UNCHANGED <<rt, shut, count, pump, budget, buffer, signal, closed>>
      /\ Running /\ handler' = [handler EXCEPT ![h] = s]
  BY <1>1 DEF HandlerStep
<1>3. Busy' <= count'
  <2>1. Inside \in Nat /\ Busy <= count /\ count \in Nat /\ count' = count
    BY <1>0, <1>2, BusyIs, WorkersAssumption DEF TypeOK
  <2>2. PICK p \in {0, 1} : Busy = Inside + p /\ Busy' = Inside' + p
    BY <1>2 DEF Busy, Inside, Polled
  <2>3. CASE handler[h] = "queued" /\ s = "running" /\ WorkerFree
    <3>1. Inside' = Inside + 1
      BY <1>0, <1>2, <2>3, InsideStep
    <3> QED
      BY <2>1, <2>2, <2>3, <3>1 DEF WorkerFree
  <2>4. CASE handler[h] \in {"running", "blocked"}
    <3>1. Inside' = Inside \/ Inside' = Inside - 1
      BY <1>0, <1>1, <1>2, <2>4, InsideStep
    <3>2. CASE Inside' = Inside
      BY <2>1, <2>2, <3>2
    <3>3. CASE Inside' = Inside - 1
      BY <2>1, <2>2, <3>3
    <3> QED
      BY <3>1, <3>2, <3>3
  <2> QED
    BY <1>1, <2>3, <2>4
<1>4. TypeOK'
  BY <1>0, <1>1, <1>2, <1>3 DEF TypeOK
<1>5. Before' /\ Sleeps' /\ Quiet'
  BY <1>0, <1>2 DEF Before, Sleeps, Quiet, Running
<1>6. Left'
  BY <1>0, <1>1, <1>2 DEF Left, TypeOK
<1> QED
  BY <1>4, <1>5, <1>6 DEF Core

(* The shutdown drops what no worker is inside of, and occupies none.      *)
LEMMA ShutdownStep ==
  ASSUME Core, Shutdown
  PROVE  Core'
<1>0. TypeOK /\ Before /\ Sleeps /\ Left /\ Quiet
  BY DEF Core
<1>1. shut' \in BOOLEAN /\ shut'
  BY Zenon DEF Shutdown
<1>2. /\ UNCHANGED <<rt, count, budget, buffer, chan, signal, closed, asked>>
      /\ rt = "stopping"
      /\ pump' = IF pump \in {"asleep", "woken"} THEN "dropped" ELSE pump
      /\ handler' = [h \in Handlers |->
                       IF handler[h] = "queued" THEN "dropped" ELSE handler[h]]
      /\ slot' = [h \in Handlers |-> NoTask]
  BY Zenon DEF Shutdown, CanShutdown
<1>3. Busy' = Busy
  <2>1. On({"running", "blocked"})' = On({"running", "blocked"})
    BY <1>0, <1>2 DEF On, TypeOK
  <2>2. Polled' = Polled
    BY <1>2 DEF Polled
  <2> QED
    BY <2>1, <2>2 DEF Busy
<1>4. TypeOK'
  BY <1>0, <1>1, <1>2, <1>3 DEF TypeOK
<1>5. Before' /\ Sleeps' /\ Left' /\ Quiet'
  BY <1>0, <1>2 DEF Before, Sleeps, Left, Quiet, TypeOK
<1> QED
  BY <1>4, <1>5 DEF Core

(* The destructor returns when nothing is left.                            *)
LEMMA JoinStep ==
  ASSUME Core, Join
  PROVE  Core'
<1>0. TypeOK /\ Before /\ Sleeps /\ Left /\ Quiet
  BY DEF Core
<1>1. /\ UNCHANGED <<shut, count, handler, slot, pump, budget, buffer, chan, signal,
                     closed, asked>>
      /\ rt' = "down" /\ shut /\ ~Polled /\ On({"running", "blocked"}) = {}
  BY DEF Join, CanJoin, pumpVars
<1>2. Busy' = Busy
  BY <1>1 DEF Busy, On, Polled
<1>3. TypeOK'
  BY <1>0, <1>1, <1>2 DEF TypeOK
<1>4. Before' /\ Sleeps' /\ Left'
  BY <1>0, <1>1 DEF Before, Sleeps, Left
<1>5. Quiet'
  <2>1. pump \in {"none", "ended", "dropped"}
    BY <1>0, <1>1 DEF Left, TypeOK, Polled
  <2>2. \A h \in Handlers : handler[h] \in {"idle", "done", "dropped"}
    BY <1>0, <1>1 DEF Left, TypeOK, On
  <2> QED
    BY <1>1, <2>1, <2>2 DEF Quiet
<1> QED
  BY <1>3, <1>4, <1>5 DEF Core

(* Every step preserves the core of the invariant.                         *)
LEMMA CoreStep ==
  ASSUME Core, [Next]_vars
  PROVE  Core'
<1>1. CASE UNCHANGED vars
  <2>1. UNCHANGED <<rt, shut, count, handler, slot, pump, budget, buffer, chan,
                    signal, closed, asked>>
    BY <1>1 DEF vars, pumpVars
  <2>2. Busy' = Busy /\ Polled' = Polled
    BY <2>1 DEF Busy, On, Polled
  <2> QED
    BY <2>1, <2>2 DEF Core, TypeOK, Before, Sleeps, Left, Quiet
<1>2. CASE Next
  BY <1>2, ConfigStep, WakeUpStep, StartStep, PollPumpStep, PollSteps, InPollStep,
     HandlersStep, ShutdownStep, JoinStep DEF Next, Call, Core
<1> QED
  BY <1>1, <1>2

-----------------------------------------------------------------------------
(* Putting a task that is in no slot into one's own.                       *)
LEMMA SlotsPush ==
  ASSUME TypeOK, Slots, NEW c \in Callers, NEW t \in Handlers \cup {ThePump},
         MayCall(c), Schedule(c, t), Shared(t),
         \A h \in Handlers : handler[h] \in {"running", "blocked"}
                               => handler'[h] = handler[h],
         t = ThePump => pump' = "woken" /\ handler' = handler,
         t \in Handlers => handler' = [handler EXCEPT ![t] = "queued"] /\ pump' = pump
  PROVE  Slots'
<1>0. /\ handler \in [Handlers -> {"idle", "queued", "running", "blocked", "done",
                                    "dropped"}]
      /\ slot \in [Handlers -> Handlers \cup {ThePump, NoTask}]
      /\ ThePump \notin Handlers /\ NoTask \notin Handlers /\ Client \notin Handlers
      /\ ThePump # NoTask
  BY WorkersAssumption DEF TypeOK
<1>1. \A h \in Handlers : slot'[h] = slot[h] \/ (h = c /\ slot'[h] = t)
  BY <1>0 DEF Schedule, Callers
<1>2. \A h \in Handlers : slot[h] # t
  BY DEF Shared
<1>3. c \in Handlers => handler[c] = "running"
  BY <1>0 DEF MayCall, On
<1>4. ASSUME NEW h \in Handlers, slot'[h] # NoTask
      PROVE  /\ handler'[h] \in {"running", "blocked"}
             /\ slot'[h] = ThePump => pump' = "woken"
             /\ slot'[h] \in Handlers => handler'[slot'[h]] = "queued"
             /\ \A g \in Handlers : slot'[g] = slot'[h] => g = h
  <2>1. CASE slot'[h] = slot[h]
    <3>1. /\ handler[h] \in {"running", "blocked"}
          /\ slot[h] = ThePump => pump = "woken"
          /\ slot[h] \in Handlers => handler[slot[h]] = "queued"
          /\ \A g \in Handlers : slot[g] = slot[h] => g = h
          /\ slot[h] # t
      BY <1>2, <1>4, <2>1 DEF Slots
    <3>2. \A g \in Handlers : slot'[g] = slot'[h] => g = h
      BY <1>1, <2>1, <3>1
    <3>3. slot'[h] = ThePump => pump' = "woken"
      BY <2>1, <3>1
    <3>4. slot'[h] \in Handlers => handler'[slot'[h]] = "queued"
      BY <1>0, <2>1, <3>1
    <3> QED
      BY <3>1, <3>2, <3>3, <3>4
  <2>2. CASE h = c /\ slot'[h] = t
    <3>1. handler'[h] \in {"running", "blocked"}
      BY <1>3, <2>2
    <3>2. \A g \in Handlers : slot'[g] = slot'[h] => g = h
      BY <1>1, <1>2, <2>2
    <3>3. slot'[h] = ThePump => pump' = "woken"
      BY <2>2
    <3>4. slot'[h] \in Handlers => handler'[slot'[h]] = "queued"
      BY <1>0, <2>2
    <3> QED
      BY <3>1, <3>2, <3>3, <3>4
  <2> QED
    BY <1>1, <1>4, <2>1, <2>2
<1> QED
  BY <1>4 DEF Slots

(* Every step keeps the slots in order.                                    *)
LEMMA SlotsStep ==
  ASSUME TypeOK, Slots, [Next]_vars
  PROVE  Slots'
<1>0. /\ handler \in [Handlers -> {"idle", "queued", "running", "blocked", "done",
                                    "dropped"}]
      /\ slot \in [Handlers -> Handlers \cup {ThePump, NoTask}]
      /\ ThePump \notin Handlers /\ NoTask \notin Handlers /\ Client \notin Handlers
      /\ ThePump # NoTask
  BY WorkersAssumption DEF TypeOK
<1>1. ASSUME UNCHANGED <<handler, slot>>, pump = "woken" => pump' = "woken" \/ Shared(ThePump)
      PROVE  Slots'
  BY <1>1 DEF Slots, Shared
<1>2. CASE UNCHANGED vars
  BY <1>1, <1>2 DEF vars, pumpVars
<1>3. CASE \/ \E n \in 0 .. MaxThreads : ThreadCount(n)
           \/ New \/ Destroy \/ Join
  BY <1>1, <1>3 DEF ThreadCount, New, Destroy, Join, pumpVars
<1>4. CASE Arrive
  BY <1>1, <1>4 DEF Arrive
<1>5. CASE Pump
  <2>1. CASE PollPump
    BY <1>1, <2>1 DEF PollPump, CanPollPump, PumpStep
  <2>2. CASE ~PollPump
    BY <1>1, <1>5, <2>2, PollSteps DEF InPoll, Polled
  <2> QED
    BY <2>1, <2>2
<1>6. ASSUME NEW c \in Callers, Cancel(c) PROVE Slots'
  <2>1. CASE pump # "asleep"
    BY <1>1, <1>6, <2>1 DEF Cancel
  <2>2. CASE pump = "asleep"
    <3>1. MayCall(c) /\ Schedule(c, ThePump) /\ pump' = "woken" /\ handler' = handler
      BY <1>6, <2>2, Zenon DEF Cancel
    <3>2. Shared(ThePump)
      BY <1>0, <2>2 DEF Slots, Shared
    <3> QED
      BY <1>0, <3>1, <3>2, SlotsPush
  <2> QED
    BY <2>1, <2>2
<1>7. ASSUME NEW c \in Callers, NewReceiver(c) PROVE Slots'
  <2>0. pump = "none" /\ MayCall(c) /\ handler' = handler
    BY <1>7, Zenon DEF NewReceiver
  <2>1. CASE slot' = slot
    BY <1>1, <2>0, <2>1
  <2>2. CASE pump' = "woken" /\ Schedule(c, ThePump)
    <3>1. Shared(ThePump)
      BY <1>0, <2>0 DEF Slots, Shared
    <3> QED
      BY <1>0, <2>0, <2>2, <3>1, SlotsPush
  <2> QED
    BY <1>7, <2>1, <2>2, Zenon DEF NewReceiver
<1>8. ASSUME NEW c \in Callers, NEW h \in Handlers, Start(c, h) PROVE Slots'
  <2>0. handler[h] = "idle" /\ MayCall(c) /\ pump' = pump
    BY <1>8, Zenon DEF Start, pumpVars
  <2>1. CASE handler' = [handler EXCEPT ![h] = "dropped"] /\ slot' = slot
    BY <1>0, <2>0, <2>1 DEF Slots
  <2>2. CASE handler' = [handler EXCEPT ![h] = "queued"] /\ Schedule(c, h)
    <3>1. Shared(h)
      BY <1>0, <2>0 DEF Slots, Shared
    <3>2. \A g \in Handlers : handler[g] \in {"running", "blocked"}
                               => handler'[g] = handler[g]
      BY <1>0, <2>0, <2>2
    <3> QED
      BY <1>0, <2>0, <2>2, <3>1, <3>2, SlotsPush
  <2> QED
    BY <1>8, <2>1, <2>2, Zenon DEF Start
<1>9. ASSUME NEW h \in Handlers, PollHandler(h) PROVE Slots'
  <2>1. /\ handler[h] = "queued" /\ Shared(h) /\ handler' = [handler EXCEPT ![h] = "running"]
        /\ UNCHANGED <<slot, pump>>
    BY <1>9 DEF PollHandler, CanPollHandler, HandlerStep
  <2> QED
    BY <1>0, <2>1 DEF Slots, Shared
<1>10. ASSUME NEW h \in Handlers, Block(h) \/ Wake(h) PROVE Slots'
  <2>1. /\ handler[h] \in {"running", "blocked"}
        /\ \E s \in {"running", "blocked"} : handler' = [handler EXCEPT ![h] = s]
        /\ UNCHANGED <<slot, pump>>
    BY <1>10 DEF Block, Wake, CanWake, HandlerStep
  <2> QED
    BY <1>0, <2>1 DEF Slots
<1>11. ASSUME NEW h \in Handlers, Return(h) PROVE Slots'
  <2>1. /\ handler[h] = "running" /\ handler' = [handler EXCEPT ![h] = "done"]
        /\ slot' = [slot EXCEPT ![h] = NoTask] /\ pump' = pump
    BY <1>11 DEF Return, HandlerStep
  <2> QED
    BY <1>0, <2>1 DEF Slots
<1>12. CASE Shutdown
  BY <1>12 DEF Shutdown, Slots
<1> QED
  BY <1>2, <1>3, <1>4, <1>5, <1>6, <1>7, <1>8, <1>9, <1>10, <1>11, <1>12
     DEF Next, Call, HandlerNext

(* A handler blocks only on a Receiver that is there, and no Receiver's    *)
(* pump is unmade.                                                         *)
LEMMA ReceivesStep ==
  ASSUME Core, Receives, [Next]_vars
  PROVE  Receives'
<1>0. TypeOK /\ handler \in [Handlers -> {"idle", "queued", "running", "blocked",
                                          "done", "dropped"}]
  BY DEF Core, TypeOK
<1>1. pump' = "none" => pump = "none"
  <2>1. CASE Pump
    <3>1. CASE PollPump
      BY <3>1 DEF PollPump, PumpStep
    <3>2. CASE ~PollPump
      BY <1>0, <2>1, <3>2, PollSteps DEF InPoll
    <3> QED
      BY <3>1, <3>2
  <2>2. CASE Arrive \/ Call
    BY <2>2 DEF Arrive, Call, Cancel, NewReceiver, Start, pumpVars
  <2>3. CASE \E h \in Handlers : HandlerNext(h) \/ Block(h)
    BY <2>3 DEF HandlerNext, PollHandler, Wake, Return, Block, HandlerStep
  <2>4. CASE \/ \E n \in 0 .. MaxThreads : ThreadCount(n)
             \/ New \/ Destroy \/ Join \/ Shutdown \/ UNCHANGED vars
    BY <2>4 DEF ThreadCount, New, Destroy, Join, Shutdown, vars, pumpVars
  <2> QED
    BY <2>1, <2>2, <2>3, <2>4 DEF Next
<1> SUFFICES ASSUME pump = "none", NEW h \in Handlers PROVE handler'[h] # "blocked"
  BY <1>1 DEF Receives
<1>2. handler[h] # "blocked"
  BY DEF Receives
<1>3. CASE Pump
  <2>1. CASE PollPump
    BY <1>2, <2>1 DEF PollPump, PumpStep
  <2>2. CASE ~PollPump
    BY <1>0, <1>2, <1>3, <2>2, PollSteps DEF InPoll
  <2> QED
    BY <2>1, <2>2
<1>4. CASE Arrive \/ \E c \in Callers : Cancel(c) \/ NewReceiver(c)
  BY <1>2, <1>4 DEF Arrive, Cancel, NewReceiver
<1>5. ASSUME NEW c \in Callers, NEW g \in Handlers, Start(c, g)
      PROVE  handler'[h] # "blocked"
  BY <1>0, <1>2, <1>5 DEF Start
<1>6. ASSUME NEW g \in Handlers, HandlerNext(g) \/ Block(g)
      PROVE  handler'[h] # "blocked"
  BY <1>0, <1>2, <1>6 DEF HandlerNext, PollHandler, Wake, Return, Block, HandlerStep
<1>7. CASE \/ \E n \in 0 .. MaxThreads : ThreadCount(n)
           \/ New \/ Destroy \/ Join \/ UNCHANGED vars
  BY <1>2, <1>7 DEF ThreadCount, New, Destroy, Join, vars
<1>8. CASE Shutdown
  BY <1>0, <1>2, <1>8 DEF Shutdown
<1> QED
  BY <1>3, <1>4, <1>5, <1>6, <1>7, <1>8 DEF Next, Call

(* The inductive invariant holds in every reachable state.                 *)
THEOREM Invariant == Spec => []IInv
<1>1. Init => IInv
  <2>1. Init => Slots /\ Receives
    BY DEF Init, Slots, Receives
  <2> QED
    BY <2>1, InitCore DEF IInv
<1>2. IInv /\ [Next]_vars => IInv'
  BY CoreStep, SlotsStep, ReceivesStep DEF IInv, Core
<1> QED
  BY <1>1, <1>2, PTL DEF Spec

(* tokio_runtime.rs: no more tasks are inside the workers than there are   *)
(* workers, and the budget, the buffer and the channels stay within their  *)
(* limits, whatever order tasks, clients and the shutdown act in.          *)
THEOREM TypeCorrect == Spec => []TypeOK
<1>1. IInv => TypeOK
  BY DEF IInv, Core
<1> QED
  BY <1>1, Invariant, PTL

(* Once the tasks are dropped a worker can always go on: the pump's poll   *)
(* ends, the handlers it leaves blocked wake, the others return, and then  *)
(* the destructor does.                                                    *)
LEMMA ShutGoesOn ==
  ASSUME TypeOK, Left, Receives, rt = "stopping", shut
  PROVE  CanGoOn
<1> SUFFICES ASSUME ~Polled, \A h \in Handlers : handler[h] # "running"
             PROVE  CanGoOn
  BY DEF CanGoOn
<1>1. pump \in {"none", "ended", "dropped"}
  BY DEF Left, TypeOK, Polled
<1>2. CASE \E h \in Handlers : handler[h] = "blocked"
  BY <1>1, <1>2 DEF CanGoOn, CanWake, Receives
<1>3. CASE \A h \in Handlers : handler[h] # "blocked"
  <2>1. On({"running", "blocked"}) = {}
    BY <1>3 DEF On
  <2> QED
    BY <2>1 DEF CanGoOn, CanJoin
<1> QED
  BY <1>2, <1>3

(* With fewer workers blocked than there are, one of them can go on or all *)
(* there is to do is in the slots of the blocked ones.                     *)
LEMMA NotAllBlocked ==
  ASSUME IInv, Awaited, Cardinality(On({"blocked"})) # count
  PROVE  CanGoOn \/ (rt = "up" /\ Due \subseteq Stranded)
<1>0. TypeOK /\ Sleeps /\ Left /\ Slots /\ Receives
  BY DEF IInv, Core
<1> SUFFICES ASSUME ~CanGoOn PROVE rt = "up" /\ Due \subseteq Stranded
  OBVIOUS
<1>1. ~Polled /\ \A h \in Handlers : handler[h] # "running"
  BY DEF CanGoOn
<1>2. On({"running", "blocked"}) = On({"blocked"})
  BY <1>1 DEF On
<1>3. WorkerFree
  <2>1. Busy = Cardinality(On({"blocked"})) /\ Busy \in Nat
    BY <1>1, <1>2, BusyIs DEF Inside
  <2> QED
    BY <1>0, <2>1, WorkersAssumption DEF TypeOK, WorkerFree
<1>4. rt = "up"
  <2>1. CASE rt = "stopping" /\ ~shut
    BY <1>3, <2>1 DEF CanGoOn, CanShutdown
  <2>2. CASE rt = "stopping" /\ shut
    BY <1>0, <2>2, ShutGoesOn
  <2> QED
    BY <2>1, <2>2 DEF Awaited, Running
<1>5. ASSUME NEW t \in Due PROVE t \in Stranded
  <2>1. t \in Handlers \cup {ThePump}
    BY <1>5 DEF Due, On
  <2>2. ~Shared(t)
    <3>1. CASE t \in On({"queued"})
      <4>1. t \in Handlers /\ handler[t] = "queued"
        BY <3>1 DEF On
      <4> QED
        BY <1>3, <4>1 DEF CanGoOn, CanPollHandler
    <3>2. CASE t = ThePump /\ pump = "woken"
      BY <1>3, <1>4, <3>2 DEF CanGoOn, CanPollPump, Running
    <3>3. CASE pump = "asleep" /\ (buffer > 0 \/ signal = "sent")
      BY <1>0, <3>3 DEF Sleeps
    <3> QED
      BY <1>5, <3>1, <3>2, <3>3 DEF Due
  <2>3. PICK h \in Handlers : slot[h] = t
    BY <2>2 DEF Shared
  <2>4. slot[h] # NoTask
    BY <2>1, <2>3, WorkersAssumption
  <2>5. h \in On({"blocked"})
    BY <1>0, <1>1, <2>4 DEF Slots, On
  <2> QED
    BY <2>3, <2>5 DEF Stranded
<1> QED
  BY <1>4, <1>5

(* The workers of a runtime get stuck only when every one of them is       *)
(* blocked in Receiver::receive (named_receiver.rs:66), or when the tasks  *)
(* that could go on are those that blocked handlers themselves woke or     *)
(* spawned last: no wake-up of the pump is lost (subscribtion.rs:13-22)    *)
(* and no task is left behind by the destructor.                           *)
THEOREM OnlyBlockedStuck == Spec => []StuckMeansBlocked
<1>1. IInv => StuckMeansBlocked
  BY NotAllBlocked DEF StuckMeansBlocked
<1> QED
  BY <1>1, Invariant, PTL

(* subscribtion.rs:13-22: a message or a cancel that comes between the two *)
(* polls of select_biased!, or after them, does not find the pump asleep.  *)
THEOREM NoLostWakeUp == Spec => []Sleeps
<1>1. IInv => Sleeps
  BY DEF IInv, Core
<1> QED
  BY <1>1, Invariant, PTL

(* With a spare worker, one more than handlers that may block in receive,  *)
(* the workers are never stuck.                                            *)
NeverStuck == Awaited /\ Spare => CanGoOn

(* What a handler has to keep to for that: it calls receive only while its *)
(* worker's slot is empty, that is, not after it has constructed the       *)
(* Receiver, cancelled or started an operation, until it returns.          *)
Tidy == \A h \in Handlers : Block(h) => slot[h] = NoTask

(* Then nothing is ever in the slot of a blocked worker.                   *)
Clear == \A h \in Handlers : handler[h] = "blocked" => slot[h] = NoTask

(* Only its own handler fills a slot, and not while it is blocked.         *)
LEMMA ClearStep ==
  ASSUME TypeOK, Clear, [Next /\ Tidy]_vars
  PROVE  Clear'
<1>0. /\ handler \in [Handlers -> {"idle", "queued", "running", "blocked", "done",
                                    "dropped"}]
      /\ slot \in [Handlers -> Handlers \cup {ThePump, NoTask}]
      /\ Client \notin Handlers
  BY WorkersAssumption DEF TypeOK
<1>1. CASE UNCHANGED <<handler, slot>>
  BY <1>1 DEF Clear
<1>2. CASE \/ \E n \in 0 .. MaxThreads : ThreadCount(n)
           \/ New \/ Arrive \/ Destroy \/ Join \/ UNCHANGED vars
  BY <1>1, <1>2 DEF ThreadCount, New, Arrive, Destroy, Join, vars
<1>3. CASE Pump
  <2>1. CASE PollPump
    BY <1>1, <2>1 DEF PollPump, PumpStep
  <2>2. CASE ~PollPump
    BY <1>1, <1>3, <2>2, PollSteps DEF InPoll
  <2> QED
    BY <2>1, <2>2
<1>4. ASSUME NEW c \in Callers, MayCall(c), NEW h \in Handlers,
             handler[h] = "blocked"
      PROVE  h # c
  BY <1>0, <1>4 DEF MayCall, On
<1>5. ASSUME NEW c \in Callers, Cancel(c) \/ NewReceiver(c) PROVE Clear'
  <2>1. /\ MayCall(c) /\ handler' = handler
        /\ slot' = slot \/ Schedule(c, ThePump)
    BY <1>5, Zenon DEF Cancel, NewReceiver
  <2> QED
    BY <1>0, <1>4, <2>1 DEF Clear, Schedule, Callers
<1>6. ASSUME NEW c \in Callers, NEW g \in Handlers, Start(c, g) PROVE Clear'
  <2>1. /\ MayCall(c)
        /\ slot' = slot \/ Schedule(c, g)
        /\ \E s \in {"queued", "dropped"} : handler' = [handler EXCEPT ![g] = s]
    BY <1>6, Zenon DEF Start
  <2>2. \A h \in Handlers : handler'[h] = "blocked" => handler[h] = "blocked"
    BY <1>0, <2>1
  <2> QED
    BY <1>0, <1>4, <2>1, <2>2 DEF Clear, Schedule, Callers
<1>7. ASSUME NEW g \in Handlers, Block(g), Tidy PROVE Clear'
  <2>1. slot[g] = NoTask /\ slot' = slot /\ handler' = [handler EXCEPT ![g] = "blocked"]
    BY <1>7 DEF Block, HandlerStep, Tidy
  <2> QED
    BY <1>0, <2>1 DEF Clear
<1>8. ASSUME NEW g \in Handlers, HandlerNext(g) PROVE Clear'
  <2>1. /\ \E s \in {"running", "done"} : handler' = [handler EXCEPT ![g] = s]
        /\ slot' \in {slot, [slot EXCEPT ![g] = NoTask]}
    BY <1>8 DEF HandlerNext, PollHandler, Wake, Return, HandlerStep
  <2> QED
    BY <1>0, <2>1 DEF Clear
<1>9. CASE Shutdown
  BY <1>9 DEF Shutdown, Clear
<1> QED
  BY <1>2, <1>3, <1>5, <1>6, <1>7, <1>8, <1>9 DEF Next, Call

(* The sizing rule for the thread count of TokioRuntimeConfig              *)
(* (tokio_runtime.hpp:56), for any number of handlers that keep to Tidy: a *)
(* spare worker is enough.  Without Tidy it is not (StuckMeansBlocked).    *)
THEOREM SpareSuffices == Spec /\ [][Tidy]_vars => []NeverStuck
<1>1. Init => Clear
  BY DEF Init, Clear
<1>2. IInv /\ Clear /\ [Next]_vars /\ [Tidy]_vars => Clear'
  BY ClearStep DEF IInv, Core
<1>3. IInv /\ Clear => NeverStuck
  <2> SUFFICES ASSUME IInv, Clear, Awaited, Spare PROVE CanGoOn
    BY DEF NeverStuck
  <2>1. On({"blocked"}) \subseteq Handlers
    BY DEF On
  <2>2. /\ Cardinality(On({"blocked"})) <= Cardinality(Handlers)
        /\ Cardinality(On({"blocked"})) \in Nat /\ Cardinality(Handlers) \in Nat
    BY <2>1, FS_Subset, FS_CardinalityType, OnFinite, WorkersAssumption
  <2>3. Cardinality(On({"blocked"})) # count
    BY <2>2 DEF Spare
  <2>4. CASE rt = "up" /\ Due \subseteq Stranded
    <3>1. PICK t : t \in Due
      BY <2>4 DEF Awaited
    <3>2. t \in Handlers \cup {ThePump}
      BY <3>1 DEF Due, On
    <3>3. t = NoTask
      BY <2>4, <3>1 DEF Stranded, Clear, On
    <3> QED
      BY <3>2, <3>3, WorkersAssumption
  <2> QED
    BY <2>3, <2>4, NotAllBlocked
<1> QED
  BY <1>1, <1>2, <1>3, Invariant, PTL DEF Spec

(* ~TokioRuntime (tokio_runtime.hpp:86) returns only after the last        *)
(* completion handler: nothing of the client's is called or waited for     *)
(* once the runtime is gone.                                               *)
THEOREM QuietAfterReturn == Spec => []Quiet
<1>1. IInv => Quiet
  BY DEF IInv, Core
<1> QED
  BY <1>1, Invariant, PTL

-----------------------------------------------------------------------------
(* What is left to do once the tasks have been dropped: for the poll of    *)
(* the pump, a message each and the end; for the handlers, at most one     *)
(* call of receive each, its return, and the handler's own.                *)
PumpLeft ==
  IF pump = "next" THEN buffer + 1
  ELSE IF pump = "sd" THEN 2 ELSE IF pump = "unsub" THEN 1 ELSE 0

HandlersLeft ==
  Inside + Cardinality(On({"blocked"})) + 2 * Cardinality(Handlers \ asked)

Remaining == HandlersLeft + PumpLeft

(* The destructor makes headway: once the tasks have been dropped a worker *)
(* can go on until it returns, ...                                         *)
ShutProgress == rt = "stopping" /\ shut => CanGoOn

(* ... every step of theirs leaves less to do (or ends the wait), and what *)
(* clients and handlers still call adds nothing.                           *)
WindsDown ==
  [][shut => \/ Remaining' < Remaining \/ rt' # rt
             \/ Call /\ Remaining' = Remaining]_vars

(* What is left is a natural number.                                       *)
LEMMA RemainingNat ==
  ASSUME TypeOK
  PROVE  HandlersLeft \in Nat /\ PumpLeft \in Nat
<1>1. Inside \in Nat /\ Cardinality(On({"blocked"})) \in Nat
  BY OnFinite, BusyIs
<1>2. Cardinality(Handlers \ asked) \in Nat
  BY FS_Subset, FS_CardinalityType, WorkersAssumption
<1>3. PumpLeft \in Nat
  BY WorkersAssumption DEF TypeOK, PumpLeft
<1> QED
  BY <1>1, <1>2, <1>3 DEF HandlersLeft

(* Less of one kind and no more of the other is less.                      *)
LEMMA SumLess ==
  ASSUME NEW a \in Nat, NEW b \in Nat, NEW c \in Nat, NEW d \in Nat,
         (a < c /\ b = d) \/ (a = c /\ b < d)
  PROVE  a + b < c + d
OBVIOUS

(* A step of the pump's poll after the shutdown.                           *)
LEMMA PumpWinds ==
  ASSUME IInv, shut, Pump, rt' = rt
  PROVE  PumpLeft' < PumpLeft /\ HandlersLeft' = HandlersLeft
<1>0. TypeOK /\ Left /\ buffer \in Nat
  BY WorkersAssumption DEF IInv, Core, TypeOK
<1>1. ~PollPump
  BY <1>0 DEF PollPump, CanPollPump, Left
<1>2. HandlersLeft' = HandlersLeft
  BY <1>0, <1>1, PollSteps DEF InPoll, HandlersLeft, Inside, On
<1>3. PumpLeft' < PumpLeft
  <2>1. CASE PumpMessage
    BY <1>0, <2>1 DEF PumpMessage, PumpStep, PumpLeft
  <2>2. CASE PumpSpent
    BY <1>0, <2>2 DEF PumpSpent, Yield, PumpStep, PumpLeft
  <2>3. CASE PumpEnd
    BY <1>0, <2>3 DEF PumpEnd, PumpStep, PumpLeft
  <2>4. CASE PumpPending
    BY <2>4 DEF PumpPending
  <2>5. CASE PumpShutdown
    <3>1. pump = "sd" /\ pump' \in {"unsub", "dropped"}
      BY <2>5 DEF PumpShutdown, Yield, PumpStep
    <3> QED
      BY <3>1 DEF PumpLeft
  <2>6. CASE PumpUnsubscribe
    <3>1. pump = "unsub" /\ pump' = "dropped"
      BY <2>6, Zenon DEF PumpUnsubscribe, PumpStep, Pump
    <3> QED
      BY <3>1 DEF PumpLeft
  <2> QED
    BY <1>1, <2>1, <2>2, <2>3, <2>4, <2>5, <2>6 DEF Pump
<1> QED
  BY <1>2, <1>3

(* A step of a handler after the shutdown.                                 *)
LEMMA HandlerWinds ==
  ASSUME IInv, shut, NEW h \in Handlers, HandlerNext(h) \/ Block(h)
  PROVE  HandlersLeft' < HandlersLeft /\ PumpLeft' = PumpLeft
<1>0. TypeOK /\ Left
  BY DEF IInv, Core
<1>1. PumpLeft' = PumpLeft
  BY DEF HandlerNext, PollHandler, Wake, Return, Block, HandlerStep, PumpLeft
<1> DEFINE B == Cardinality(On({"blocked"}))
           N == Cardinality(Handlers \ asked)
<1>2. Inside \in Nat /\ B \in Nat /\ N \in Nat
  <2>1. IsFiniteSet(Handlers \ asked)
    BY FS_Subset, WorkersAssumption
  <2> QED
    BY <2>1, OnFinite, BusyIs, FS_CardinalityType
<1>3. HandlersLeft = Inside + B + 2 * N /\ HandlersLeft' = Inside' + B' + 2 * N'
  BY DEF HandlersLeft
<1>4. ~PollHandler(h)
  BY <1>0 DEF PollHandler, CanPollHandler, Left
<1>5. CASE Block(h)
  <2>1. /\ handler[h] = "running" /\ handler' = [handler EXCEPT ![h] = "blocked"]
        /\ asked' = asked \cup {h} /\ h \notin asked
    BY <1>5 DEF Block, HandlerStep
  <2>2. Inside' = Inside
    BY <1>0, <2>1, InsideStep
  <2>3. B' = B + 1
    BY <1>0, <2>1, OnStep
  <2>4. N' = N - 1
    <3>1. IsFiniteSet(Handlers \ asked)
      BY FS_Subset, WorkersAssumption
    <3>2. Handlers \ asked' = (Handlers \ asked) \ {h} /\ h \in Handlers \ asked
      BY <2>1
    <3> QED
      BY <3>1, <3>2, FS_RemoveElement
  <2> HIDE DEF B, N
  <2> QED
    BY <1>2, <1>3, <2>2, <2>3, <2>4, <1>1
<1>6. CASE Wake(h)
  <2>1. /\ handler[h] = "blocked" /\ handler' = [handler EXCEPT ![h] = "running"]
        /\ asked' = asked
    BY <1>6 DEF Wake, CanWake, HandlerStep
  <2>2. Inside' = Inside
    BY <1>0, <2>1, InsideStep
  <2>3. B' = B - 1
    <3>1. handler[h] \in {"blocked"} /\ "running" \notin {"blocked"}
      BY <2>1
    <3> QED
      BY <1>0, <2>1, <3>1, OnStep
  <2>4. N' = N
    BY <2>1
  <2> HIDE DEF B, N
  <2> QED
    BY <1>2, <1>3, <2>2, <2>3, <2>4, <1>1
<1>7. CASE Return(h)
  <2>1. /\ handler[h] = "running" /\ handler' = [handler EXCEPT ![h] = "done"]
        /\ asked' = asked
    BY <1>7 DEF Return, HandlerStep
  <2>2. Inside' = Inside - 1
    <3>1. /\ handler[h] \in {"running", "blocked"}
          /\ "done" \notin {"running", "blocked"}
      BY <2>1
    <3> QED
      BY <1>0, <2>1, <3>1, InsideStep
  <2>3. B' = B
    <3>1. handler[h] \in {"blocked"} <=> "done" \in {"blocked"}
      BY <2>1
    <3> QED
      BY <1>0, <2>1, <3>1, OnStep
  <2>4. N' = N
    BY <2>1
  <2> HIDE DEF B, N
  <2> QED
    BY <1>2, <1>3, <2>2, <2>3, <2>4, <1>1
<1> QED
  BY <1>4, <1>5, <1>6, <1>7 DEF HandlerNext

(* A call after the shutdown wakes nothing and spawns nothing.             *)
LEMMA CallWinds ==
  ASSUME IInv, shut, Call
  PROVE  /\ PumpLeft' = PumpLeft /\ Inside' = Inside
         /\ On({"blocked"})' = On({"blocked"}) /\ asked' = asked
<1>0. TypeOK /\ Left
  BY DEF IInv, Core
<1>1. ASSUME NEW c \in Callers, Cancel(c) \/ NewReceiver(c)
      PROVE  /\ PumpLeft' = PumpLeft /\ Inside' = Inside
             /\ On({"blocked"})' = On({"blocked"}) /\ asked' = asked
  <2>1. UNCHANGED <<handler, buffer, asked>>
        /\ (pump' = pump \/ (pump = "none" /\ pump' = "dropped"))
    BY <1>0, <1>1 DEF Cancel, NewReceiver, Left
  <2> QED
    BY <2>1 DEF PumpLeft, Inside, On
<1>2. ASSUME NEW c \in Callers, NEW h \in Handlers, Start(c, h)
      PROVE  /\ PumpLeft' = PumpLeft /\ Inside' = Inside
             /\ On({"blocked"})' = On({"blocked"}) /\ asked' = asked
  <2>1. /\ UNCHANGED <<pump, buffer, asked>> /\ handler[h] = "idle"
        /\ handler' = [handler EXCEPT ![h] = "dropped"]
    BY <1>2 DEF Start, pumpVars
  <2>2. /\ handler[h] \in {"blocked"} <=> "dropped" \in {"blocked"}
        /\ handler[h] \in {"running", "blocked"} <=> "dropped" \in {"running", "blocked"}
    BY <2>1
  <2>3. /\ On({"blocked"})' = On({"blocked"})
        /\ On({"running", "blocked"})' = On({"running", "blocked"})
    BY <1>0, <2>1, <2>2, OnStep
  <2> QED
    BY <2>1, <2>3 DEF PumpLeft, Inside
<1> QED
  BY <1>1, <1>2 DEF Call

(* tokio_runtime.hpp:86: once a worker has dropped the tasks, nothing can  *)
(* keep ~TokioRuntime waiting, with or without a spare worker: the workers *)
(* can always go on ...                                                    *)
THEOREM ShutdownProgresses == Spec => []ShutProgress
<1>1. IInv => ShutProgress
  BY ShutGoesOn DEF IInv, Core, ShutProgress
<1> QED
  BY <1>1, Invariant, PTL

(* ... and have only Remaining steps to do: no traffic, cancel or call of  *)
(* receive can put the end off.  With the fairness of the workers (which   *)
(* is TLC's to check) that is the half of DestructorReturns that comes     *)
(* after the drop of the tasks, for any number of threads and handlers.    *)
THEOREM ShutdownWindsDown == Spec => WindsDown
<1>1. ASSUME IInv, [Next]_vars
      PROVE  [shut => \/ Remaining' < Remaining \/ rt' # rt
                      \/ Call /\ Remaining' = Remaining]_vars
  <2> SUFFICES ASSUME Next, shut, rt' = rt
               PROVE  \/ Remaining' < Remaining
                      \/ Call /\ Remaining' = Remaining
    BY <1>1
  <2>0. TypeOK /\ Left /\ HandlersLeft \in Nat /\ PumpLeft \in Nat
    BY <1>1, RemainingNat DEF IInv, Core
  <2>1. TypeOK' /\ HandlersLeft' \in Nat /\ PumpLeft' \in Nat
    <3>1. Core'
      BY <1>1, CoreStep DEF IInv
    <3>2. (TypeOK => HandlersLeft \in Nat /\ PumpLeft \in Nat)'
      BY RemainingNat, PTL
    <3> QED
      BY <3>1, <3>2 DEF Core
  <2>2. CASE Pump
    <3>1. PumpLeft' < PumpLeft /\ HandlersLeft' = HandlersLeft
      BY <1>1, <2>2, PumpWinds
    <3> QED
      BY <2>0, <2>1, <3>1, SumLess DEF Remaining
  <2>3. CASE \E h \in Handlers : HandlerNext(h) \/ Block(h)
    <3>1. HandlersLeft' < HandlersLeft /\ PumpLeft' = PumpLeft
      BY <1>1, <2>3, HandlerWinds
    <3> QED
      BY <2>0, <2>1, <3>1, SumLess DEF Remaining
  <2>4. CASE Call
    <3>1. PumpLeft' = PumpLeft /\ Inside' = Inside /\ On({"blocked"})' = On({"blocked"})
          /\ asked' = asked
      BY <1>1, <2>0, <2>4, CallWinds
    <3>2. HandlersLeft' = HandlersLeft
      BY <3>1 DEF HandlersLeft
    <3> QED
      BY <2>4, <3>1, <3>2 DEF Remaining
  <2>5. ~New /\ \A n \in 0 .. MaxThreads : ~ThreadCount(n)
    BY <1>1 DEF IInv, Core, Before, New, ThreadCount
  <2>6. ~Arrive /\ ~Shutdown /\ ~Destroy /\ ~Join
    BY DEF Arrive, Shutdown, CanShutdown, Destroy, Join, CanJoin
  <2> QED
    BY <2>2, <2>3, <2>4, <2>5, <2>6 DEF Next
<1> QED
  BY <1>1, Invariant, PTL DEF Spec, WindsDown
=============================================================================
