---------------------------- MODULE TokioWorkers ----------------------------
(***************************************************************************)
(* The worker threads of a TokioRuntime, under traffic that may never      *)
(* stop.  Completion functions run on the workers (the task calls cb.0     *)
(* itself), so a handler that calls nonblocking::Receiver::receive keeps   *)
(* its worker while it waits for a message that only the Receiver's pump,  *)
(* a task of the same runtime, can bring.  The pump runs the loop `pop` of *)
(* Subscribtion, here with wake-ups; it looks for a cancel only when it    *)
(* finds no message.  Destroying the runtime waits for the workers.        *)
(*                                                                         *)
(* External (tokio 1.29): a pool of `count` workers polls woken tasks.  A  *)
(* task that is woken or spawned inside a worker goes to the LIFO slot of  *)
(* that worker, which no other worker looks into; the worker comes to it   *)
(* after its current poll.  What it displaces goes to the run queue, as    *)
(* does a task that a client thread wakes, and every worker is free to     *)
(* take it from there.  So does a task woken by the connection handler,    *)
(* which never blocks: its slot is as good as the queue.  A worker that    *)
(* blocks may take the polling of sockets with it, which no idle worker    *)
(* takes over: nothing is assumed of Arrive.  A task's channels report     *)
(* pending once a poll has taken Budget messages.  On shutdown a worker    *)
(* that is not inside a task drops the sleeping and waiting tasks, the     *)
(* connection handler too and those in slots, and the destructor returns   *)
(* once every worker has ended.  The connection's command channel has room *)
(* here; Connection has it full.                                           *)
(***************************************************************************)
EXTENDS Naturals, FiniteSets

CONSTANTS
  Handlers,    \* tasks whose completion handler may call receive once
  ThePump,     \* the Receiver's task
  NoTask,      \* an empty LIFO slot
  Client,      \* a thread that is no worker
  MaxThreads,  \* bound: thread counts the client configures
  Cap,         \* capacity of the Receiver's channel
  BufCap,      \* capacity of the Subscriber's buffer
  Budget       \* messages that one poll of a task may take

ASSUME WorkersAssumption ==
  /\ IsFiniteSet(Handlers) /\ MaxThreads \in Nat
  /\ {Cap, BufCap, Budget} \subseteq Nat \ {0}
  /\ {ThePump, NoTask, Client} \cap Handlers = {} /\ ThePump # NoTask

VARIABLES
  rt,       \* "config", "up", "stopping", "down" or "aborted"
  shut,     \* a worker has dropped the tasks
  count,    \* TokioRuntimeConfig::thread_count
  handler,  \* "idle", "queued", "running", "blocked", "done" or "dropped"
  slot,     \* the LIFO slot of the worker that is inside a handler
  pump,     \* "none"; "asleep" or "woken"; being polled, at "next", "sd" or
            \* "unsub"; or "ended" or "dropped"
  budget,   \* messages the pump's poll may still take
  buffer,   \* messages in the Subscriber's channel
  chan,     \* messages in the Receiver's channel
  signal,   \* of the shutdown channel: "none", "sent" or "taken"
  closed,   \* `pop` has unsubscribed
  asked     \* handlers that have called receive

pumpVars == <<pump, budget, buffer, chan, signal, closed>>
vars     == <<rt, shut, count, handler, slot, pumpVars, asked>>

(* The default is available_parallelism, or 1.                             *)
Init ==
  /\ rt = "config"
  /\ shut = FALSE
  /\ count \in 1 .. MaxThreads
  /\ handler = [h \in Handlers |-> "idle"]
  /\ slot = [h \in Handlers |-> NoTask]
  /\ pump = "none"
  /\ budget = 0 /\ buffer = 0 /\ chan = 0
  /\ signal = "none" /\ closed = FALSE
  /\ asked = {}

On(s) == {h \in Handlers : handler[h] \in s}

Polled == pump \in {"next", "sd", "unsub"}

(* Workers that are inside a task; one that is not.                        *)
Busy       == Cardinality(On({"running", "blocked"})) + (IF Polled THEN 1 ELSE 0)
WorkerFree == Busy < count

(* In no slot: any worker may take it.                                     *)
Shared(t) == \A h \in Handlers : slot[h] # t

Running == rt \in {"up", "stopping"}

-----------------------------------------------------------------------------
(* TokioRuntimeConfig::thread_count, any uint32_t.                         *)
ThreadCount(n) ==
  /\ rt = "config"
  /\ count' = n
  /\ UNCHANGED <<rt, shut, handler, slot, pumpVars, asked>>

(* TokioRuntime(cfg): tokio's builder panics on zero threads, and a panic  *)
(* does not cross extern "C".                                              *)
New ==
  /\ rt = "config"
  /\ rt' = IF count = 0 THEN "aborted" ELSE "up"
  /\ UNCHANGED <<shut, count, handler, slot, pumpVars, asked>>

(* External: a message comes from the server and wakes the pump.           *)
Arrive ==
  /\ Running /\ ~shut /\ ~closed /\ buffer < BufCap
  /\ buffer' = buffer + 1
  /\ pump' = IF pump = "asleep" THEN "woken" ELSE pump
  /\ UNCHANGED <<rt, shut, count, handler, slot, budget, chan, signal, closed, asked>>

-----------------------------------------------------------------------------
(* What client threads, and handlers while they run, may call.             *)
Callers    == Handlers \cup {Client}
MayCall(c) == Running /\ (c = Client \/ c \in On({"running"}))

(* Where a task goes that c wakes or spawns.                               *)
Schedule(c, t) ==
  slot' = IF c = Client THEN slot ELSE [slot EXCEPT ![c] = t]

(* Mutant: the pump is not woken.                                          *)
CancelSilent(c) ==
  /\ MayCall(c)
  /\ signal' = "sent"
  /\ UNCHANGED <<rt, shut, count, handler, slot, pump, budget, buffer, chan, closed, asked>>

(* A token's cancel: try_send into the channel of one, which wakes the     *)
(* pump if it sleeps.                                                      *)
Cancel(c) ==
  /\ MayCall(c)
  /\ signal' = "sent"
  /\ \/ pump = "asleep" /\ pump' = "woken" /\ Schedule(c, ThePump)
     \/ pump # "asleep" /\ UNCHANGED <<pump, slot>>
  /\ UNCHANGED <<rt, shut, count, handler, budget, buffer, chan, closed, asked>>

(* Receiver(Subscribtion&&) spawns the pump; once the tasks were dropped   *)
(* spawn drops it.                                                         *)
NewReceiver(c) ==
  /\ MayCall(c) /\ pump = "none"
  /\ \/ ~shut /\ pump' = "woken" /\ Schedule(c, ThePump)
     \/ shut /\ pump' = "dropped" /\ UNCHANGED slot
  /\ UNCHANGED <<rt, shut, count, handler, budget, buffer, chan, signal, closed, asked>>

(* Subscribtion::receive, or any call with a completion handler, spawns    *)
(* the task that will run it.                                              *)
Start(c, h) ==
  /\ MayCall(c) /\ handler[h] = "idle"
  /\ \/ ~shut /\ handler' = [handler EXCEPT ![h] = "queued"] /\ Schedule(c, h)
     \/ shut /\ handler' = [handler EXCEPT ![h] = "dropped"] /\ UNCHANGED slot
  /\ UNCHANGED <<rt, shut, count, pumpVars, asked>>

Call == \E c \in Callers :
          Cancel(c) \/ NewReceiver(c) \/ \E h \in Handlers : Start(c, h)

-----------------------------------------------------------------------------
PumpStep(p) ==
  /\ pump' = p
  /\ UNCHANGED <<rt, shut, count, handler, slot, asked>>

CanPollPump == Running /\ pump = "woken" /\ Shared(ThePump) /\ WorkerFree

(* A worker starts to poll the pump.                                       *)
PollPump ==
  /\ CanPollPump
  /\ PumpStep("next")
  /\ budget' = Budget
  /\ UNCHANGED <<buffer, chan, signal, closed>>

(* The poll returns pending: to sleep, to the run queue, or dropped.       *)
Yield(p) == PumpStep(IF shut THEN "dropped" ELSE p)

(* First arm of select_biased!: a message, try_send to the channel, and    *)
(* the loop again ...                                                      *)
PumpMessage ==
  /\ pump = "next" /\ buffer > 0 /\ budget > 0
  /\ PumpStep("next")
  /\ budget' = budget - 1
  /\ buffer' = buffer - 1
  /\ chan' = IF chan < Cap THEN chan + 1 ELSE chan
  /\ UNCHANGED <<signal, closed>>

(* ... or, with the budget spent, both arms pending and the task woken ... *)
PumpSpent ==
  /\ pump = "next" /\ budget = 0
  /\ Yield("woken")
  /\ UNCHANGED <<budget, buffer, chan, signal, closed>>

(* ... or None: the task returns and drops the channel's sender ...        *)
PumpEnd ==
  /\ pump = "next" /\ buffer = 0 /\ budget > 0 /\ (closed \/ shut)
  /\ PumpStep("ended")
  /\ UNCHANGED <<budget, buffer, chan, signal, closed>>

(* ... or pending, and the second arm is polled.                           *)
PumpPending ==
  /\ pump = "next" /\ buffer = 0 /\ budget > 0 /\ ~closed /\ ~shut
  /\ PumpStep("sd")
  /\ UNCHANGED <<budget, buffer, chan, signal, closed>>

(* Mutant: a message between the two polls does not wake the task.         *)
PumpShutdownSleeps ==
  /\ pump = "sd"
  /\ \/ signal = "sent" /\ PumpStep("unsub") /\ signal' = "taken"
     \/ signal # "sent" /\ Yield("asleep") /\ UNCHANGED signal
  /\ UNCHANGED <<budget, buffer, chan, closed>>

(* Second arm; a message that came after the first was polled has woken    *)
(* the task again.                                                         *)
PumpShutdown ==
  /\ pump = "sd"
  /\ \/ signal = "sent" /\ PumpStep("unsub") /\ signal' = "taken"
     \/ /\ signal # "sent"
        /\ Yield(IF buffer > 0 THEN "woken" ELSE "asleep")
        /\ UNCHANGED signal
  /\ UNCHANGED <<budget, buffer, chan, closed>>

(* unsubscribe().await.expect(..): the command to the connection handler   *)
(* and close; without a handler a panic, which aborts the process or       *)
(* (without the release profile) unwinds the task.                         *)
PumpUnsubscribe ==
  /\ pump = "unsub"
  /\ \/ ~shut /\ closed' = TRUE /\ PumpStep("next")
     \/ shut /\ PumpStep("dropped") /\ UNCHANGED closed
     \/ /\ shut /\ rt' = "aborted"
        /\ UNCHANGED <<shut, count, handler, slot, pump, closed, asked>>
  /\ UNCHANGED <<budget, buffer, chan, signal>>

(* What the workers do with the pump.                                      *)
Pump ==
  /\ rt # "aborted"
  /\ \/ PollPump \/ PumpMessage \/ PumpSpent \/ PumpEnd \/ PumpPending
     \/ PumpShutdown \/ PumpUnsubscribe

-----------------------------------------------------------------------------
HandlerStep(h, s) ==
  /\ Running
  /\ handler' = [handler EXCEPT ![h] = s]
  /\ UNCHANGED <<rt, shut, count, pump, budget, buffer, signal, closed>>

CanPollHandler(h) == handler[h] = "queued" /\ Shared(h) /\ WorkerFree

(* A worker polls the task to its completion function.                     *)
PollHandler(h) ==
  /\ CanPollHandler(h)
  /\ HandlerStep(h, "running")
  /\ UNCHANGED <<slot, chan, asked>>

(* The handler calls receive, which blocks the worker, and with it what is *)
(* in its slot ...                                                         *)
Block(h) ==
  /\ handler[h] = "running" /\ h \notin asked /\ pump # "none"
  /\ asked' = asked \cup {h}
  /\ HandlerStep(h, "blocked")
  /\ UNCHANGED <<slot, chan>>

(* Mutant: the channel's end does not wake the thread.                     *)
WakeByMessageOnly(h) ==
  /\ handler[h] = "blocked" /\ chan > 0
  /\ chan' = chan - 1
  /\ HandlerStep(h, "running")
  /\ UNCHANGED <<slot, asked>>

CanWake(h) ==
  handler[h] = "blocked" /\ (chan > 0 \/ pump \in {"ended", "dropped"})

(* ... until there is a message, or the pump is gone.                      *)
Wake(h) ==
  /\ CanWake(h)
  /\ chan' = IF chan > 0 THEN chan - 1 ELSE chan
  /\ HandlerStep(h, "running")
  /\ UNCHANGED <<slot, asked>>

(* The poll is over; the worker is free for what is in its slot.           *)
Return(h) ==
  /\ handler[h] = "running"
  /\ HandlerStep(h, "done")
  /\ slot' = [slot EXCEPT ![h] = NoTask]
  /\ UNCHANGED <<chan, asked>>

HandlerNext(h) == PollHandler(h) \/ Wake(h) \/ Return(h)

-----------------------------------------------------------------------------
(* ~TokioRuntime, on a thread of the client.                               *)
Destroy ==
  /\ rt = "up"
  /\ rt' = "stopping"
  /\ UNCHANGED <<shut, count, handler, slot, pumpVars, asked>>

CanShutdown == rt = "stopping" /\ ~shut /\ WorkerFree

(* External: the first worker that sees the shutdown drops the tasks; one  *)
(* that is being polled is dropped when its poll returns.                  *)
Shutdown ==
  /\ CanShutdown
  /\ shut' = TRUE
  /\ pump' = IF pump \in {"asleep", "woken"} THEN "dropped" ELSE pump
  /\ handler' = [h \in Handlers |->
                   IF handler[h] = "queued" THEN "dropped" ELSE handler[h]]
  /\ slot' = [h \in Handlers |-> NoTask]
  /\ UNCHANGED <<rt, count, budget, buffer, chan, signal, closed, asked>>

CanJoin ==
  rt = "stopping" /\ shut /\ ~Polled /\ On({"running", "blocked"}) = {}

(* Every worker has ended; the destructor returns.                         *)
Join ==
  /\ CanJoin
  /\ rt' = "down"
  /\ UNCHANGED <<shut, count, handler, slot, pumpVars, asked>>

Next ==
  \/ \E n \in 0 .. MaxThreads : ThreadCount(n)
  \/ New \/ Arrive \/ Call \/ Pump \/ Destroy \/ Shutdown \/ Join
  \/ \E h \in Handlers : HandlerNext(h) \/ Block(h)

(* Workers poll, threads that can go on do, handlers return; a worker      *)
(* looks for the shutdown between two polls, so not only when it idles.    *)
(* Nothing is assumed of the server or of the client.                      *)
Fairness ==
  /\ WF_vars(Pump) /\ SF_vars(Shutdown) /\ WF_vars(Join)
  /\ \A h \in Handlers : WF_vars(HandlerNext(h))

Spec     == Init /\ [][Next]_vars
FairSpec == Spec /\ Fairness

-----------------------------------------------------------------------------
TypeOK ==
  /\ rt \in {"config", "up", "stopping", "down", "aborted"}
  /\ shut \in BOOLEAN
  /\ count \in 0 .. MaxThreads
  /\ handler \in [Handlers -> {"idle", "queued", "running", "blocked", "done",
                               "dropped"}]
  /\ slot \in [Handlers -> Handlers \cup {ThePump, NoTask}]
  /\ pump \in {"none", "asleep", "woken", "next", "sd", "unsub", "ended", "dropped"}
  /\ budget \in 0 .. Budget /\ buffer \in 0 .. BufCap /\ chan \in 0 .. Cap
  /\ signal \in {"none", "sent", "taken"} /\ closed \in BOOLEAN
  /\ asked \subseteq Handlers
  /\ Busy <= count

(* One worker more than handlers that may block.                           *)
Spare == Cardinality(Handlers) < count

(* The tasks that have something to do: the pump also when it sleeps with  *)
(* messages in its buffer or a cancel to look at.                          *)
Due ==
  On({"queued"}) \cup
  {t \in {ThePump} : \/ pump = "woken"
                     \/ pump = "asleep" /\ (buffer > 0 \/ signal = "sent")}

(* Somebody is waiting for the workers: a task, or ~TokioRuntime.          *)
Awaited == Running /\ (Due # {} \/ rt = "stopping")

(* In the slot of a worker that is blocked.                                *)
Stranded == {slot[h] : h \in On({"blocked"})}

(* A worker has something to do, by the guards of the actions above: the   *)
(* poll of the pump goes on, a handler that runs returns, and the rest.    *)
(* It is ENABLED (Pump \/ Shutdown \/ Join \/ \E h : HandlerNext(h)), in  *)
(* the states where Running holds.                                         *)
CanGoOn ==
  \/ Polled \/ CanPollPump \/ CanShutdown \/ CanJoin
  \/ \E h \in Handlers :
       CanPollHandler(h) \/ CanWake(h) \/ handler[h] = "running"

(* The workers get stuck, with tasks that have something to do or a        *)
(* destructor waiting, in two ways only: every one of them is blocked in a *)
(* handler, or all those tasks are in the slots of blocked workers, put    *)
(* there by the handlers that block.  A pump that is asleep with messages  *)
(* in its buffer, a cancel it was not woken for, or a task left behind by  *)
(* the shutdown would be another way.                                      *)
StuckMeansBlocked ==
  Awaited => \/ CanGoOn
             \/ Cardinality(On({"blocked"})) = count
             \/ rt = "up" /\ Due \subseteq Stranded

(* With a spare worker ~TokioRuntime returns although handlers are blocked *)
(* in receive and messages keep coming: dropping the pump wakes them.      *)
(* Only a cancel whose unsubscribe meets the shutdown can abort instead.   *)
DestructorReturns ==
  (rt = "stopping" /\ Spare)
    ~> (rt = "down" \/ (rt = "aborted" /\ signal # "none"))

(* With a spare worker a cancel closes a Receiver's subscription (or the   *)
(* runtime is destroyed first) unless messages keep coming for ever, or a  *)
(* handler blocks for ever on the worker whose slot holds the pump: no     *)
(* lost wake-up, spent budget or other blocked handler defeats it.         *)
CancelWhenPaused ==
  \/ []<><<Arrive>>_vars
  \/ <>[](ThePump \in Stranded)
  \/ (rt = "up" /\ signal = "sent" /\ pump # "none" /\ Spare)
       ~> (closed \/ rt # "up")
=============================================================================
