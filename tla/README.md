# TLA+ models of async_nats.cpp

async_nats.cpp is a C++ client library for NATS. Header-only C++ classes
(`src/include/async_nats`) wrap a C interface that a Rust crate (`src/rust`)
implements on top of Tokio and the `async-nats` client. All concurrency lives on
that boundary: C++ threads call in, Tokio tasks run on the worker threads of a
`TokioRuntime`, and results come back through completion functions or through
channels. This project models that boundary in TLA+, checks small instances with
TLC, and proves every safety property of its nine state machines, the refinement of
two abstract specifications included, for every instance with TLAPS.

Contents: [inventory](#inventory), [modules](#modules), [runs](#runs),
[bounds](#bounds), [fairness](#fairness), [proofs](#proofs),
[findings](#findings), [contracts and
abstractions](#contracts-and-abstractions), [not modelled](#not-modelled),
[plan](#plan).

## Inventory

| Component | State | Operations | Talks to |
|---|---|---|---|
| `nonblocking::Sender` (`named_sender.rs`, `nonblocking/sender.hpp`) | an `Arc` with a semaphore of `capacity` permits, an unbounded channel and a default topic; one pump task | construct, copy, destroy, `try_send`, `send`; the pump's `recv` and `publish` | `Client::publish`; the runtime owns the pump |
| `Subscribtion` and cancellation tokens (`subscribtion.rs`, `subscribtion.hpp`) | the `Subscriber` (bounded buffer), a one-place shutdown channel, tokens that hold its sending half | `receive`, `get_cancellation_token`, copy / destroy / `cancel` a token, destructor | the connection handler (Unsubscribe, incoming messages) |
| `nonblocking::Receiver` (`named_receiver.rs`, `nonblocking/receiver.hpp`) | a bounded crossbeam channel; one pump task that owns the subscription | construct from a `Subscribtion`, copy, destroy, `receive` (blocks), `try_receive` | `pop` of the subscription |
| `Connection` operations (`connection.rs`, `connection.hpp`, `detail/helpers.hpp`) | the shared client; per call a heap-allocated completion context and a task | `connect`, `publish`, `subcribe`, `request`, `send_request`, copy, destroy, `new_mailbox` | command channel of the client; the caller's completion handler |
| Requests (`request.rs`, `request.hpp`) | the builder's topic, payload, inbox, timeout | setters; `request` / `send_request` tasks | the client's request/reply; retries with the same inbox |
| `TokioRuntime` (`tokio_runtime.rs`, `tokio_runtime.hpp`) | the worker threads and every task; the configured thread count | configure, construct, destroy (drops all tasks where they await) | everything; completion handlers run on its workers |
| `Message`, headers (`message.rs`, `message.hpp`) | a reference-counted message; header views and iterators | clone, destroy, accessors, iteration | results of receive and request |
| Errors (`error.rs`, `errors.hpp`) | shared error objects with a cached text | clone, destroy, `what`, `code` | results of connect and request |
| Strings and slices (`api.rs`, `owned_string.h`) | borrowed slices, owned C strings | conversions, delete | every call |
| Configuration (`config.rs`), generated `capi.h` | - | - | - |

The behaviours that are hard here:

* **Interleaving.** `try_send` acquires a permit and then pushes; `pop` polls two
  channels one after the other; several threads block on one crossbeam channel;
  every `publish` is a task of its own on a multi-thread runtime.
* **Failure half way.** The pump panics on a failed publish, the connection's
  handler ends between a cancel and the unsubscribe it causes, the runtime is
  destroyed with tasks that have not called their completion.
* **Ordering and liveness.** FIFO through the pump, order of awaited calls, a
  cancel that must end a pending receive, blocked threads that must wake.
* **Lifetimes across the boundary.** Buffers copied in the call or read later in
  the task, contexts freed by the completion, results nobody takes, sixteen classes
  with hand-written copies and moves around a raw pointer, a reference count under
  the C++ memory model.
* **Everyone waits for everyone.** A completion handler that blocks in
  `Receiver::receive` holds a worker of the runtime that must run the pump it waits
  for, and with it the task that is in the worker's LIFO slot, perhaps that pump; the
  runtime's destructor waits for that worker.
* **Widths and edges.** A capacity of 0, a negative or tiny timeout, positions that
  wrap, a header map that is absent or empty.

`PROJECT.json` lists each hazard at its line with the properties that would catch
it, or the reason why no property covers it yet. What makes each component correct:

* *Sender*: permits are conserved on every path; capacity is respected and
  refusals are never spurious; publications are the accepted messages in order,
  none lost or repeated while the pump lives; the order of one thread is kept;
  accepted messages are published though every `Sender` is destroyed.
* *Subscription*: no message that reached the buffer is lost or reordered by a
  cancel; a null message is the end; only a cancel or the destructor
  unsubscribes; a cancel ends a pending receive.
* *Receiver*: each message goes to one thread; loss only through a full channel;
  nothing after a null; no thread waits for a pump that is gone.
* *Connection*: payloads intact, awaited order kept, sent once, completed once,
  context freed exactly then; the box a task borrows lives as long as the task;
  nothing is lost silently while the connection is up.
* *Objects that own a Rust box*: one free per box in every order of the special
  members; a copied or moved error never answers with a foreign text.
* *Message*: the count is the number of handles; the free comes last.
* *Headers*: Rust is never asked for what is not there; a loop sees every header.
* *Requests*: the timeout is what was asked for, an answer reaches the request it
  belongs to, every request ends.
* *TokioRuntime*: it is stuck only by handlers that block, all its workers or the ones
  whose LIFO slots hold what is due; its destructor returns; a cancel is not lost
  between wake-ups.

## Modules

| Module | Models | Extended by |
|---|---|---|
| `NamedSender` | the `Sender`, its pump, panic, runtime end | `NamedSenderProofs` |
| `SendQueue` | abstract: a FIFO queue that may close once | instantiated by `NamedSender` |
| `...Proofs` | the theorems about the module (for `MessageProofs`, the two modules) they extend | - |
| `Subscribtion` | `pop`, tokens, destructor, the handler as `subscribtion.rs` uses it | `ReceiveAsync`, `NamedReceiver` |
| `MessageStream` | abstract: a FIFO stream that ends once | instantiated by `ReceiveAsync` and `NamedReceiver` |
| `ReceiveAsync` | `Subscribtion::receive`: one `pop` per call, then the callback | `ReceiveAsyncProofs` |
| `NamedReceiver` | the `Receiver`: `pop` in a loop, a bounded channel, reader threads | `NamedReceiverProofs` |
| `Connection` | the asynchronous operations of a connection and its copies | `ConnectionProofs` |
| `Requests` | `RequestBuilder`, mailboxes, timeouts, late answers, retries | `RequestsProofs` |
| `Handles` | the special members of every class that owns a Rust box; `what()` | `MCHandles`, `HandlesProofs` |
| `MessageRefs` | the reference count of a message (or error) under weak memory | `MessageProofs` |
| `HeaderViews` | header views, their iterators and the cursor in Rust | `MessageProofs` |
| `TokioWorkers` | worker threads and their LIFO slots, blocking handlers, the pump with wake-ups, shutdown | `TokioWorkersProofs` |

Every definition's source lines are in the `map` of `PROJECT.json`. The operators
commented `Mutant:` are plausible bugs of the definition after them; each is used
to see that a property fails when the code is wrong in that way. No specification
refers to them.

**NamedSender.** A call of `try_send` or `send` is two steps, as in the code:
`TrySend`/`Send` takes (or fails to take) a permit, `Enqueue` pushes into the
channel; between them any other thread, the pump, the panic or the end of the
runtime may run. `free` is the semaphore; `queue` the channel; `inflight` the
message the pump is publishing. A message carries its permit, and dropping the
message (after the publish, on a refused push, with the pump's future) gives it
back. `SenderAlive` says who holds the sending half: the task's own `Arc` is one
of them, which makes the pump's `break` unreachable (`PumpNeverEnds`). The
semaphore only counts permits; the model names them so that losing one and
returning another twice cannot cancel out.

**Subscribtion.** `pop` is the loop over `select_biased!`: `PopNext` polls the
stream, `PopShutdown` the shutdown channel, `PopUnsubscribe` awaits the
unsubscribe. Another thread may act between any two. Waking and polling again
after both arms were pending is the step back to `next`. A message is its number
in the server's order. `ReceiveAsync` runs one `pop` per `receive`;
`NamedReceiver` runs it again after each push.

**NamedReceiver.** The constructor's argument is the channel's capacity; 0 is
crossbeam's rendezvous channel: `Room` then needs a thread that waits and has not
been served. A thread blocked in `receive` is in `waiting` and leaves by `RecvEnd`.

**MessageStream.** What both ways of reading promise: messages come out once and in
the order they went in, the end is told only when nothing is left, nothing comes
after it, and only destroying the object throws messages away. For `ReceiveAsync` a
message goes in when it enters the `Subscriber`'s buffer, for `NamedReceiver` when it
enters the channel; what is lost before that is the subject of `LossMeansFull`.

**Connection.** Each element of `Ops` is one call of any kind. `Call` allocates
the context and spawns, `Begin` is the task's first poll (where `request` and
`connect` read what the caller passed, while `publish`, `subcribe` and the
`RequestBuilder` copied it in the call), `Send` waits for room in the command channel, `Answer`
is reply, timeout or end of the connection, `Complete` calls the completion
function. `ReuseSource` is the caller reusing its buffer as early as the
documentation allows; copies of the `Connection` are made and destroyed as early as
the tasks that borrow their box allow.

**Handles.** All owning classes have the same hand-written members; `Class` records
the traits in which they differ (can it be copied and how, is null looked for, is
the source of a move assignment cleared, can it give its box away), read off each
class. Objects of one class (or of `Message` and `HeadersView`, which share boxes)
go through any order of operations. The two error classes also carry `str`, the
optional text. `over` remembers copy assignments, the one operation that keeps the
old text.

**MessageRefs.** `seen[t]` is the set of threads whose accesses happen before what
`t` does next; an Acquire on the counter adds what Releases have published, a
hand-over adds what the giver has seen. Counting down and dropping are two steps.

**HeaderViews.** Rust's cursor is the index of a header, C++ holds it or `nullptr`.
Positions of the vector view's iterator are modulo `Word`, as `size_t` is. Each
initial state is one header map, absent and empty ones included.

**Requests.** `timeout` is modelled with its conversion: truncated to milliseconds
towards zero, then modulo the width. Answers are in flight for any time and reach
whoever waits at their address.

**TokioWorkers.** The steps of `pop` of a `Receiver`'s pump again, without
histories (so that traffic may be endless) and with what `Subscribtion` leaves out:
the wake-ups, the worker the poll occupies, and Tokio's budget that ends a poll
which has taken many messages. A budget that is spent makes the shutdown channel
pending too, so it does not help a cancel.

Where a woken or spawned task waits matters, because handlers block. Tokio 1.29 puts a
task that is woken or spawned inside a worker into that worker's LIFO slot, which no
other worker may take from and whose filling wakes none; the worker comes to it after
its current poll. So a handler that constructs a `Receiver`, cancels a token whose pump
sleeps, or starts an operation, and then blocks in `receive`, keeps that task from all
workers, idle ones too. `slot[h]` is the slot of the worker that is inside handler `h`;
`Schedule` fills it when the caller is a handler and leaves the task to everyone when it
is a client thread; a task that is displaced goes to the run queue, which idle workers
steal from; `Return` frees the worker for its slot. `Shared` is the condition in
`CanPollPump` and `CanPollHandler`. The connection handler wakes tasks too, inside a
worker, but its poll returns at once, so its slot needs no variable. A blocked worker
may also have been the one that polls the sockets, and idle workers do not take that
over: messages may then stop, which the model allows at any time (`Arrive` has no
fairness).

The guards of what workers do have names
of their own (`CanPollPump`, `CanPollHandler`, `CanWake`, `CanShutdown`, `CanJoin`):
the actions begin with them and `CanGoOn`, which `StuckMeansBlocked` is stated with, is their disjunction with the two that have no condition of their own, a poll
and a handler that are under way. It stands for `ENABLED` of those actions, which the
prover does not know: each of them gives every variable a next value once its guard
holds, and in a poll of the pump one of the steps is always possible.

## Runs

| Run | Distinct states | Shows |
|---|---|---|
| `sender` | 76,639 | permit ledger, capacity, FIFO, per-thread order, no spurious refusal, the pump never ends, refinement of `SendQueue`; permits come back and accepted messages are published unless the pump is lost |
| `receive` | 6,927 | refinement of `MessageStream`, null is the end, unsubscribe and panic only after a cancel or the destructor, a cancel ends a pending receive, destroying unregisters |
| `receiver` | 395,154 | one thread per message in order, loss only when full, refinement of `MessageStream`, the pump outlives its receivers, blocked threads wake |
| `connection` | 591,467 | payload intact, borrowed box alive, awaited order, sent once, context lifetime, every operation completes or the runtime is gone |
| `handles` | 16,764 | one owner per count, the special members fault in the known ways only, the text belongs to the error |
| `message_refs` | 47,632 | exact count, one free after the last handle, every access published by then |
| `header_views` | 2,293 | no panic in Rust, loops see every header, positions wrap only through `operator-` |
| `requests` | 134,754 | own answer, faithful timeout, every request ends |
| `workers` | 55,003 | stuck only with all workers blocked or what is due in the slots of blocked ones, the destructor returns, only endless traffic or a pump left in such a slot defeats a cancel |
| `sender_promise`, `receive_cancel`, `connection_results` | - | counterexamples, see [findings](#findings) |

Deadlock is not an error in any run: clients may stop calling, calls are
bounded, and after the end of the runtime nothing is left to do. That nobody
waits for ever is stated as liveness instead (`PermitsReturn`, `BlockedWakes`,
`CancelEndsReceive`, `OperationCompletes`, `RequestEnds`, `DestructorReturns`), and
for the workers, which really can wait for each other, as `StuckMeansBlocked`.

## Bounds

* `sender`: two threads, two permits, two calls each. Four messages against two
  permits: the semaphore runs dry, `send` goes on without a permit, and a full
  queue meets panic and shutdown. For the safety properties the bounds do not
  matter: they are proved, for messages with a topic of their own too.
* `receive`: three messages into a buffer of two (so one can be lost to a slow
  consumer before the buffer), two tokens (clone, drop one, cancel with the
  other), four receives (three messages and the null).
* `receiver`: two reader threads, capacities 0 and 1, more messages than fit;
  `MaxNulls` bounds the null results a thread asks for, because polling an empty
  channel could go on for ever.
* `connection`: three operations of any kind against a command channel of one:
  one in the channel, one waiting for room, one to be ordered after either. One
  operation must be the `connect`, so two can compete for the channel. Two boxes:
  a `Connection` and a copy, destroyed in either order.
* `handles`: four objects and four boxes, enough for an assignment between two
  objects with two more that share with either.
* `message_refs`: three threads with two handles each: the thread that frees, one
  that only accessed, and one that passed the handle on.
* `header_views`: two headers of up to three values, positions modulo 8, every
  distance below that: at, one past and far past every bound, and a wrap.
* `requests`: two requests (the one that timed out and its retry), timeouts of
  either sign up to four half-milliseconds, a width of 8.
* `workers`: two handlers on up to three workers: too few, just enough to get stuck,
  and one to spare; a handler can put the pump, the other handler, or first one and
  then the other into its slot, before or after it has blocked. A budget, a buffer and a channel of at most two: a message
  arrives in each gap, the budget runs out with messages left.

Symmetry is used in `handles` only, over objects and boxes; no definition orders or
names any of them.

## Fairness

Weak fairness, on:

* the pump tasks, the `receive` tasks and the tasks of operations: they are woken
  Tokio tasks of a multi-thread runtime, which polls every woken task;
* the connection handler's processing of its commands while it is up;
* a thread that is past the semaphore, or that is blocked in `receive` on a
  channel that has a message or has lost its sender;
* a request's timer (and, in `Connection`, its answer-or-timeout): async-nats gives
  each request a timeout; a timeout of half the width or more never fires;
* in `TokioWorkers`, the polls of the pump, blocked threads that can go on, and
  handlers that run (they return).

Strong fairness only on `Shutdown` in `TokioWorkers`: a worker looks for the shutdown
between two polls, so it sees it although no worker is ever idle for long.

Nothing is assumed of the clients (they may never call, copy or destroy), of the
server (it may never send, or for ever) or of failures. `CancelWhenPaused` is stated
without fairness of the traffic's end: either messages arrive for ever or the cancel
takes effect, or the pump is for ever in the slot of a blocked worker. Fairness of `Pump`
asks nothing of a pump that is in a slot: it is not enabled there until the handler
whose worker it is has returned.

## Proofs

Eight modules hold theorems. Each proves its results for every value of the
constants, from the named assumptions of the module it extends (evaluated by TLC in
every run of it), and each inductive invariant `IInv` was first checked with TLC on
the constants of the run.

| Module | Theorem | Statement |
|---|---|---|
| `NamedSenderProofs` | `TypeCorrect` | `Spec => []TypeOK` |
| | `PumpImmortal` | `Spec => []PumpNeverEnds` |
| | `PermitsConserved` | `Spec => []PermitLedger` |
| | `Capacity` | `Spec => []CapacityRespected` |
| | `NoSpuriousRefusal` | `Spec => RefusalMeansFull` |
| | `Fifo` | `Spec => []FifoIntegrity` |
| | `ThreadOrder` | `Spec => []PerThreadOrder` |
| | `Refinement` | `Spec => ImplementsSendQueue` |
| `ReceiveAsyncProofs` | `NullEnds` | `Spec => []NullIsTheEnd` |
| | `Unsubscribes` | `Spec => []UnsubscribeIsAsked` |
| | `Refinement` | `Spec => ImplementsStream` |
| | `CancelNotLost` | `Spec => [](CancelKept /\ OpenPolls)` |
| | `NothingAfterClose` | `Spec => ClosedForGood` |
| | `CancelEndsSoon` | `Spec => CancelBounded` |
| `NamedReceiverProofs` | `TakenOnce` | `Spec => []EachTakenOnce` |
| | `PumpOutlives` | `Spec => []PumpOutlivesReceivers` |
| | `LossOnlyWhenFull` | `Spec => LossMeansFull` |
| | `Refinement` | `Spec => ImplementsStream` |
| | `CancelNotLost` | `Spec => []CancelKept` |
| | `NothingAfterClose` | `Spec => ClosedForGood` |
| `ConnectionProofs` | `Payloads` | `Spec => []PayloadIntact` |
| | `Borrows` | `Spec => []BorrowValid` |
| | `Awaited` | `Spec => []AwaitedOrder` |
| | `Sent` | `Spec => []SentOnce` |
| | `Contexts` | `Spec => []ContextLifetime` |
| `RequestsProofs` | `OwnAnswers` | `Spec => []OwnAnswer` |
| | `Timeouts` | `Spec => []TimeoutFaithful` |
| `HandlesProofs` | `OwnersCounted` | `Spec => []Ownership` |
| | `Faults` | `Spec => []FaultsKnown` |
| | `Texts` | `Spec => []TextOfItsError` |
| `MessageProofs` | `Counting` | `RefsSpec => []CountExact` |
| | `DropOrder` | `RefsSpec => []DropOneFenceShort` |
| | `NoUseAfterDrop` | `RefsSpec => Untouched` |
| | `NoPanic` | `ViewsSpec => []RustNeverPanics` |
| | `CompleteLoop` | `ViewsSpec => []LoopSeesAll` |
| | `OnlyMinusWraps` | `ViewsSpec => []PositionInRange` |
| `TokioWorkersProofs` | `TypeCorrect` | `Spec => []TypeOK` |
| | `OnlyBlockedStuck` | `Spec => []StuckMeansBlocked` |
| | `NoLostWakeUp` | `Spec => []Sleeps` |
| | `SpareSuffices` | `Spec /\ [][Tidy]_vars => []NeverStuck` |
| | `QuietAfterReturn` | `Spec => []Quiet` |
| | `ShutdownProgresses` | `Spec => []ShutProgress` |
| | `ShutdownWindsDown` | `Spec => WindsDown` |

Every module but the first also has a theorem `Invariant` (`MessageProofs` one for each
of its two modules), that `IInv`, which includes
or implies the type invariant, always holds. What the constants are assumed to be: bounds
are natural numbers, capacities are natural numbers (a `Sender`'s and a `Receiver`'s
may be 0), the "none" values are not values, and the pump, the client and the empty
slot are no handlers; permits, objects, handlers and message threads are
finite sets, because they are counted (reader threads need not be: only finitely many
ever wait). For requests, a timeout and the client's default are below half the range.

### The Sender

For any set of threads, any finite set of permits (any capacity, zero included), any
topics and any number of calls.

1. `TypeOK` is inductive by itself; it carries `(pump = "publish") = (inflight #
   NoMsg)`, which ties the task's place to the message it holds.
2. `PumpImmortal`: with `pump = "recv"` the task's own `Arc` makes `SenderAlive`
   true, so the `ended` branch of `PumpRecv` is never enabled.
3. `PermitLedger` is inductive under `TypeOK`. Its two halves need each other: a
   permit that is kept could only be duplicated by a second holder, and a permit
   taken from `free` is exclusive only because it was nowhere else. `BeginLedger`,
   `EnqueueLedger` and `DropPumpLedger` are the three ways permits move.
4. `Capacity` and `NoSpuriousRefusal` follow by counting. The holders of permits
   are in bijection with the permits outside the semaphore (`OutstandingCount`):
   exclusiveness gives injectivity, keeping gives surjectivity. So the messages
   outstanding are `Cardinality(Permits) - Cardinality(free)`; an empty semaphore
   means exactly `capacity` messages are outstanding.
5. `FifoIntegrity` is strengthened by "before the constructor ran nothing was
   accepted, published or queued" (`FifoInv`): otherwise `New` could open a pump
   on a history that does not match. `Pending` is the message in the pump followed
   by the channel; the `Pending...` lemmas say how each kind of step changes it.
6. `PerThreadOrder` speaks of the wire; `OrderInv` is the inductive form about
   `accepted`: sorted per thread, below the thread's call counter, and strictly
   below it while the thread is between its permit and its push. `Fifo` carries it
   to the wire.
7. `Refinement` maps the channel and the pump's message to `SendQueue`'s pending
   sequence with the default topic filled in; `Enqueue` is its `Accept`, `PumpPublish`
   its `Publish`, panic and runtime end its `Close`, everything else stutters.

### Subscribtion::receive

`IInv` adds to the types: where an unsubscribe comes from (`Asked`), that a pending
receive's `Subscribtion` is not destroyed (`Borrowed`, the client's promise), and
`Last`: from the moment `pop` takes a `None` the stream is `Dry`, that is, empty and
closed to whatever the server still sends. `NullIsTheEnd` alone is not inductive,
because a later `receive` could find a message in the buffer; `DryStep` says it cannot.
That a dry stream was ended by a cancel or by the handler is `NoneIsDry`: the `None`
needs a closed buffer or a lost registration, and `Asked` traces both back.

`Refinement` maps the message in hand followed by the buffer to the stream's pending
messages. `Dispatch` into the buffer is its `Accept`, a completion with a message its
`Deliver` (possible only because no null was handed out before, which is `Last`), the
first null its `End`, dropping the `Subscriber` its `Discard`. What came out is the
completions at the places that hold a message; that these places are an initial
segment is part of what is proved.

`CancelNotLost` follows a cancel: until the subscription is closed its signal is in the
shutdown channel or `pop` is unsubscribing, unless the unsubscribe panicked or the
runtime dropped the task. It needs `OpenPolls` beside it (`pop` is between its polls
only while the subscription is open) and `Borrowed` (a cancel that finds the shutdown
channel gone finds the subscription closed). `NothingAfterClose`: closing is final, and
no message enters the buffer after it. `CancelEndsSoon` is what can be said of
`CancelEndsReceive` without fairness: `PopLeft` counts the steps that a pending receive
still has after a cancel, at most four; each step of `pop` lowers it and no other step,
of the server, of the handler or of a token, raises it.

### nonblocking::Receiver

`Asked` is the same argument for the pump, and gives `PumpOutlives`: the pump is lost
only with a `None` (traced as above), a panic, or the runtime. `Before` (nothing
happened before the constructor) makes `EachTakenOnce` inductive: a new `Receiver`
meets an empty history. `Fits` is the half of `LossMeansFull` that no single step
shows: the channel never holds more than its limit, where for capacity 0 the limit is
the number of waiting threads, so that a thread that stops waiting must have taken a
message or found the channel empty. With `~Room` it makes the channel exactly full,
and `EachTakenOnce` turns that into a count of messages pushed and not taken. `Over`
(the end is told after the pump has gone and the channel is empty; `PumpStaysGone`)
carries the refinement of `MessageStream` past the first null.

`CancelNotLost` is stronger than its namesake for `receive`: the pump owns the
subscription, so a task that the runtime drops closes it. A cancel, before or after the
constructor, is in the shutdown channel, in the hands of a pump that unsubscribes or
unwinds, or the subscription is closed. There is no bound like `CancelEndsSoon` here: after each message the pump
polls the stream first again, and a cancel can wait behind endless traffic
(`CancelWhenPaused`).

### Connection

`Life` ties the stage of a task to its context and to the runtime; `Payload` says who
may have reused a buffer; `Linked` says that the link comes up once, with the one
connect. Order and single sending are stated of `Log`, the commands the server has
followed by those in the channel: taking a command leaves it as it is, sending appends
to it, the end of the handler cuts it. `Logged` needs to know that operations in the
log are past sending (else one could be sent again) and that an operation's `before`
is complete (else a later command could be of an operation it waits for).

### Requests

`OwnAnswers` follows an address from the builder to the answer: an inbox is frozen once
the request is handed over (`Frozen`), an answer travels to the address of the request
it answers (`InFlight`), a completed request was given the answer to one with its own
address (`Matched`). Two requests with one address then have one inbox, because a
generated address is no inbox and belongs to one request (`Addresses`). `Timeouts` is
arithmetic about the conversion (`MillisRange`): the quotient is below half the range,
so the modulus changes nothing, or turns a negative number into the upper half.

### Owning objects

`HandlesProofs` counts: for every box the number of objects that point to it, plus the
tasks that took it, is its count, or (for `HeaderVectorView`) at least its count.
`Counts` is stated of a pointer function, so that one lemma per way of repointing an
object serves all the special members. `TasksOwn` says that a class that can give its
box away never shares it; without it a released box could be freed under its task.
`TextInv` adds that an object that is dead or no error has no text.

### The reference count

`CountExact` is inductive under `TypeOK`. The drop needs two more facts, both about
who knows of an access: `Published` (an access is known to a thread that still owns a
handle, or was published by a Release decrement) and `KnownToOwners` (as long as one
thread at most destroyed handles, to that thread or to an owner). When the count
reaches zero there are no owners, and what remains of the two is `DropOneFenceShort`.
`NoUseAfterDrop` is about steps: with no owner left, nothing but the drop itself can
happen, and after it nothing at all.

### Header views

The loop's history is `<<1, ..., k>>` where it stands (`LoopStands`), the size a view
has cached is the size Rust has (`CachedSize`), and the lemmas about the operators of
the iterator show which of them can leave `0 .. size`. `RustNeverPanics` and
`PositionInRange` are then inductive.

### The workers

For any finite set of handlers, any thread counts (zero aborts the constructor), any
capacities and any budget. `IInv` adds to the types, which bound the occupied workers by
`count`: `Before` (nothing is polled before the constructor, so the client may still
change the count), `Sleeps` (the pump sleeps only with an empty buffer and no cancel),
`Left` (after the drop of the tasks the pump is being polled or gone and no handler is
queued), `Quiet`, `Slots` (a slot holds a task only while its worker is inside a handler,
the task waits to be polled, and it is in no other slot) and
`Receives` (nobody is blocked before there is a `Receiver`). `InPoll` sums up every step
of a poll of the pump, so that the invariant is shown once for all of them; `OnStep`
counts the handlers that come to a place or leave it; `WakeUpStep` and `StartStep` are
the calls of clients and handlers.

`OnlyBlockedStuck`: suppose somebody waits and no poll and no handler is running. Then
the occupied workers are the blocked ones; if these are not all, a worker is free. A
task that is due is then polled unless it is in a slot, and by `Slots` that is the slot
of a handler that is running (it can go on) or blocked (the task is stranded). A pump
that sleeps is not due (`Sleeps`). A destructor that waits finds the tasks to be
dropped, those in slots included, or (`Left`) a pump that is gone, whose end wakes
whoever is blocked; so nothing is stranded there.

`SpareSuffices` is the sizing rule for `TokioRuntimeConfig::thread_count`: fewer handlers
than workers cannot block them all, and if the handlers keep to `Tidy`, calling `receive`
only while their worker's slot is empty (`Clear` is what follows), nothing is stranded
either. Both conditions are needed: with a spare worker but not `Tidy` a handler that
cancels and then blocks leaves the pump in its slot, which is why `StuckMeansBlocked`
has its last disjunct and `CancelWhenPaused` its second (TLC finds a counterexample to
each without it).

`ShutdownProgresses` and `ShutdownWindsDown` are what can be said of `DestructorReturns`
without fairness: once the tasks are dropped a worker can go on in every state, spare
worker or not, and each of its steps lowers `Remaining`, a natural number that counts
the messages in the buffer, the rest of the pump's poll and the calls and returns of
the handlers. Clients and handlers can still cancel, construct a `Receiver` and start
operations; these do not raise it (`CallWinds`). So the wait that is
left, and the only one that needs the spare worker, is the one for a worker to notice
the shutdown.

### Only model-checked

* Every liveness property (`PermitsReturn`, `QueuedIsPublished`, `CancelEndsReceive`,
  `DeleteUnregisters`, `BlockedWakes`, `OperationCompletes`, `RequestEnds`,
  `DestructorReturns`, `CancelWhenPaused`): fairness is out of the proof system's reach.
* That `CanGoOn` is `ENABLED` of the workers' actions: the proof system has no rules
  for `ENABLED`. TLC agrees in every state of the run `workers` in which the runtime is
  up or stopping.
* The three runs that end in a counterexample.

## Findings

* **`try_send` returns true for a message that was dropped**
  (`sender_promise`, `named_sender.rs:126`). The result of the channel's `send` is
  discarded with `.ok()`. Between the permit and the push, or after the runtime is
  destroyed or the pump panicked, the channel is closed: the message is dropped and
  the caller is told `true`, which `nonblocking/sender.hpp:97` documents as
  "true if message has been enqueued".
* **A cancel that no receive meets closes nothing** (`receive_cancel`,
  `subscribtion.rs:121`). The token only puts a signal into the shutdown channel,
  which only `pop` reads; `subscribtion.hpp:14` says that the client closes the
  subscription asynchronously in the runtime's thread. The counterexample is a
  `cancel` after which nobody calls `receive`, with none pending or with one that a
  message ends before it looks at the shutdown channel; with a `Receiver`, whose pump
  is always inside `pop`, the promise holds unless traffic is endless or the pump is
  stranded (`CancelWhenPaused`).
* **The error string of a failed `subcribe` is leaked** (`connection_results`,
  `connection.hpp:388`). Rust hands over an owned C string, the completion
  function ignores the parameter; `owned_string.h:10` says such strings are freed.

Passing properties draw the line around other places where the code does less than
one might expect; their comments name the line:

* `message.rs:25`: the last decrement is a Release and nothing acquires before the
  drop, although `message.hpp:309` calls the class thread safe. `DropOneFenceShort`:
  every access has been published by then and one fence would order the drop after
  all of them; without it, an access of another thread that destroyed its own
  handle stays unordered.
* `message.hpp:49`: the move assignment of `HeaderVectorView` does not clear its
  source. `Ownership` and `FaultsKnown`: this class, and no other, can free twice.
* `connection.hpp:99` and `:173`: the copy assignment of an error keeps the cached
  text. `TextOfItsError`: nothing else can make text and error disagree.
* `message.hpp:94`: `operator-` subtracts when it should not. `PositionInRange`: the
  position wraps only that way, and `RustNeverPanics` all the same.
* `subscribtion.rs:13`: with a spare worker a cancel starves behind endless traffic, or
  with the pump in a blocked worker's slot, and only then (`CancelWhenPaused`).
* `nonblocking/receiver.hpp:79`: a completion handler that constructs a `Receiver`, or
  cancels, and then blocks in `receive` can wait for ever with workers idle: the pump is
  in the LIFO slot of the worker it blocks (`StuckMeansBlocked`). `SpareSuffices` says
  what is enough: a spare worker, and no such call before `receive` in the same handler.
* `request.hpp:74`: a negative timeout becomes 0 or practically endless
  (`TimeoutFaithful`).
* `connection.hpp:249` and its like: copying an empty or moved-from object passes
  null to Rust, except for `Message` (`FaultsKnown`). Accessors of an empty `Message`
  and `HeadersView::operator bool` or `get_header` on one (`message.hpp:258`, `:397`) do
  so as well; they are outside that module, see the contracts below.
* `subscribtion.rs:19`: an unsubscribe that meets the end of the connection panics;
  under the release profile a cancel that races `~TokioRuntime` aborts the process
  (`DestructorReturns`).

Two more that were met while reading and that no model here can show, because they are
in code without state:

* `message.hpp:206`: `HeaderIterator::operator==` returns `o.it_ != it_`, the opposite of
  its name. Range-for uses `!=`, which is right, and nothing in the repository uses `==`.
* `api.rs:39`: `async_nats_owned_string_delete` frees through `Box<c_char>` what
  `CString::into_raw` gave out. The layout is that of one byte and not of the string, so
  the deallocation is undefined; the default allocator ignores the size.

## Contracts and abstractions

The models assume what the C++ classes ask of their users: a `Connection` (the object
a call was made on, not its copies) outlives the operations on it; a `Subscribtion`
is used by one thread, with one receive at a time, and is not destroyed during one; a
buffer or options object passed to `request` or `connect` stays valid until the
completion; an object is not used by one thread while another destroys it; an object
is checked for null before its accessors are called; a message is kept while its
headers are iterated (`message.rs:107` states the opposite); handlers return; the
runtime is not destroyed inside a handler.

The `async-nats` client is external and modelled as this code uses it: a bounded
command channel, a handler that takes commands in order and may end, a bounded
buffer per subscription that loses messages when full, `publish` that succeeds once
the command is queued. Reconnection is inside the handler and invisible here: the
handler is up or has ended.

A panic unwinds the task, as in the development profile; with the release profile
(`panic = "abort"`) the process ends at that point and nothing follows.
`TokioWorkers`, where this decides whether a destructor returns, has both.

Dropping an `async-nats` `Subscriber` spawns its Unsubscribe on the runtime of the
current thread. In `ReceiveAsync` a `Subscribtion` destroyed after its runtime is dropped
on a client's thread, where there is none: with the release profile that panic ends the
process there, otherwise the model goes on as shown, with no connection handler to send
to. In `Requests` the inbox path of `send_request` (subscribe, publish and flush before
its timer starts) is one step; that it may wait for the command channel is in
`Connection`.

Payloads, topics and messages are identities. Logging, formatting and the
conversions of strings are left out.

## Not modelled

* `config.rs`: an older configuration type that nothing uses.
* `capi.h`: generated declarations.
* What accessors return (topics, payload bytes, status numbers, `kind()`'s table,
  formatted text) and the conversions of strings in `api.rs`: pure functions of data.
* Two threads calling `what()` on one error object (it fills a mutable member): no
  document allows or forbids it, so there is nothing to check against.
* The destructors of what a completion handler captured: `deallocate_ctx` returns the
  memory only (`helpers.hpp:31`); the captured types are the client's.
* `HeaderIterator::operator==`, which nothing uses (loops use `!=`; see findings).
* The examples, tests and build files.

## Plan

The code's components are modelled, and every safety property that a passing run
checks is proved. What could be added:

1. The liveness properties as theorems, with a prover that knows `ENABLED`: `Remaining`
   is the measure for the second half of `DestructorReturns`; the first half and
   `CancelWhenPaused` need one for a pump under traffic that pauses.
2. A bound on how often the `Receiver`'s pump polls after a cancel, in terms of the
   messages that arrive in between, to make the starvation behind `CancelWhenPaused` a
   number.
