----------------------------- MODULE Connection -----------------------------
(***************************************************************************)
(* The asynchronous operations of a connection: connect, publish (with or  *)
(* without a reply address), subcribe, request and request with a          *)
(* RequestBuilder.  Each call allocates the completion handler's context,  *)
(* spawns a task on the runtime and returns; the task talks to the client, *)
(* calls the completion function once with a box or an error, and the      *)
(* completion function frees the context.  A task borrows the box of the   *)
(* Connection it was called on; Connections are copied (a new box with a   *)
(* clone of the client) and destroyed while other operations run.          *)
(*                                                                         *)
(* External (async-nats): the client's command channel, bounded, and the   *)
(* connection handler that writes the commands to the server in order.     *)
(***************************************************************************)
EXTENDS Naturals, Sequences, SequencesExt

CONSTANTS
  Ops,      \* operations; each is one call
  Conns,    \* heap cells for boxes of Connections
  ChanCap   \* capacity of the client's command channel

ASSUME ConnAssumption == ChanCap \in Nat \ {0}

Kinds    == {"connect", "publish", "subscribe", "request", "send_request"}
Requests == {"request", "send_request"}

VARIABLES
  runtime,  \* the TokioRuntime exists
  link,     \* external: connection handler: "none", "up" or "stopped"
  conns,    \* boxes of the Connections the client of the library owns
  on,       \* the boxes a task borrows: its Connection's, none for connect
  kind,     \* the call each operation is, "none" before it is made
  task,     \* where the operation's task is
  ctx,      \* the handler's context: "none", "live" or "freed"
  source,   \* the caller's buffer or options: "orig" or "reused"
  data,     \* what the task holds of it: "none", "orig" or "reused"
  box,      \* the result that crossed the boundary: "owned" by a C++ object
            \* (see Handles) or "ignored"
  before,   \* history: operations complete when this one was called
  cmds,     \* external: the command channel
  server    \* external: commands written to the server, in order

vars == <<runtime, link, conns, on, kind, task, ctx, source, data, box, before,
          cmds, server>>

Init ==
  /\ runtime = TRUE
  /\ link = "none"
  /\ conns = {}
  /\ on = [o \in Ops |-> {}]
  /\ kind = [o \in Ops |-> "none"]
  /\ task = [o \in Ops |-> "idle"]
  /\ ctx = [o \in Ops |-> "none"]
  /\ source = [o \in Ops |-> "orig"]
  /\ data = [o \in Ops |-> "none"]
  /\ box = [o \in Ops |-> "none"]
  /\ before = [o \in Ops |-> {}]
  /\ cmds = <<>>
  /\ server = <<>>

(* Operations whose handler has been called.                               *)
Done == {o \in Ops : ctx[o] = "freed"}

-----------------------------------------------------------------------------
(* Mutant: publish hands the caller's slice to the task.                   *)
CopiesAtCallPublishLate(k) == k \in {"subscribe", "send_request"}

(* publish and subscribe copy what they are given before they return, and  *)
(* so does the RequestBuilder; request and connect read it in the task.    *)
CopiesAtCall(k) == k \in {"publish", "subscribe", "send_request"}

(* The call: allocate_ctx, copy what is copied at once, spawn.  A runtime  *)
(* that is gone drops the future, and the context with nobody to free it.  *)
Call(o, k) ==
  /\ kind[o] = "none"
  /\ \/ k = "connect" /\ (\A p \in Ops : kind[p] # "connect") /\ UNCHANGED on
     \/ k # "connect" /\ \E c \in conns : on' = [on EXCEPT ![o] = {c}]
  /\ kind' = [kind EXCEPT ![o] = k]
  /\ ctx' = [ctx EXCEPT ![o] = "live"]
  /\ data' = [data EXCEPT ![o] = IF CopiesAtCall(k) THEN source[o] ELSE "none"]
  /\ task' = [task EXCEPT ![o] = IF runtime THEN "spawned" ELSE "dropped"]
  /\ before' = [before EXCEPT ![o] = Done]
  /\ UNCHANGED <<runtime, link, conns, source, box, cmds, server>>

(* The caller reuses or frees what it passed: at once where it was copied, *)
(* otherwise after the completion (api.rs: valid until a callback is       *)
(* called; connection.hpp: options must live until completion).            *)
ReuseSource(o) ==
  /\ source[o] = "orig" /\ kind[o] # "none"
  /\ kind[o] \in {"publish", "send_request"} \/ task[o] = "done"
  /\ source' = [source EXCEPT ![o] = "reused"]
  /\ UNCHANGED <<runtime, link, conns, on, kind, task, ctx, data, box, before,
                 cmds, server>>

(* Mutant: publish completes before it awaits.                             *)
BeginCompletes(o) ==
  /\ task[o] = "spawned"
  /\ task' = [task EXCEPT ![o] = "sending"]
  /\ data' = [data EXCEPT ![o] = IF @ = "none" THEN source[o] ELSE @]
  /\ ctx' = [ctx EXCEPT ![o] = IF kind[o] = "publish" THEN "freed" ELSE @]
  /\ UNCHANGED <<runtime, link, conns, on, kind, source, box, before, cmds, server>>

(* The task's first poll.                                                  *)
Begin(o) ==
  /\ task[o] = "spawned"
  /\ task' = [task EXCEPT ![o] = "sending"]
  /\ data' = [data EXCEPT ![o] = IF @ = "none" THEN source[o] ELSE @]
  /\ UNCHANGED <<runtime, link, conns, on, kind, ctx, source, box, before, cmds,
                 server>>

(* connect_with_options(..).await                                          *)
Connected(o) ==
  /\ task[o] = "sending" /\ kind[o] = "connect"
  /\ \/ link' = "up" /\ task' = [task EXCEPT ![o] = "ok"]
     \/ UNCHANGED link /\ task' = [task EXCEPT ![o] = "err"]
  /\ UNCHANGED <<runtime, conns, on, kind, ctx, source, data, box, before, cmds,
                 server>>

(* Mutant: a full channel is an error.                                     *)
SendGivesUp(o) ==
  /\ task[o] = "sending" /\ kind[o] # "connect"
  /\ \/ /\ link = "up" /\ Len(cmds) < ChanCap
        /\ cmds' = Append(cmds, o)
        /\ task' = [task EXCEPT ![o] =
                      IF kind[o] \in Requests THEN "waiting" ELSE "ok"]
     \/ /\ link = "stopped" \/ Len(cmds) = ChanCap
        /\ task' = [task EXCEPT ![o] = "err"]
        /\ UNCHANGED cmds
  /\ UNCHANGED <<runtime, link, conns, on, kind, ctx, source, data, box, before,
                 server>>

(* client.publish / subscribe / request(..).await: waits for room in the   *)
(* command channel; an error when the handler is gone.                     *)
Send(o) ==
  /\ task[o] = "sending" /\ kind[o] # "connect"
  /\ \/ /\ link = "up" /\ Len(cmds) < ChanCap
        /\ cmds' = Append(cmds, o)
        /\ task' = [task EXCEPT ![o] =
                      IF kind[o] \in Requests THEN "waiting" ELSE "ok"]
     \/ /\ link = "stopped"
        /\ task' = [task EXCEPT ![o] = "err"]
        /\ UNCHANGED cmds
  /\ UNCHANGED <<runtime, link, conns, on, kind, ctx, source, data, box, before,
                 server>>

(* Mutant: no timeout.                                                     *)
AnswerNoTimeout(o) ==
  /\ task[o] = "waiting" /\ Contains(server, o) /\ link = "up"
  /\ task' = [task EXCEPT ![o] = "ok"]
  /\ UNCHANGED <<runtime, link, conns, on, kind, ctx, source, data, box, before,
                 cmds, server>>

(* The answer to a request the server has seen, or a timeout, no           *)
(* responders, the end of the connection.                                  *)
Answer(o) ==
  /\ task[o] = "waiting"
  /\ \/ Contains(server, o) /\ link = "up" /\ task' = [task EXCEPT ![o] = "ok"]
     \/ task' = [task EXCEPT ![o] = "err"]
  /\ UNCHANGED <<runtime, link, conns, on, kind, ctx, source, data, box, before,
                 cmds, server>>

(* The result that crosses the boundary, besides a new Connection: publish *)
(* drops its own with .ok(), and subcribe's completion function ignores    *)
(* the error string it gets.                                               *)
Result(o) ==
  CASE kind[o] = "publish"                      -> "none"
    [] kind[o] = "connect" /\ task[o] = "ok"    -> "none"
    [] kind[o] = "subscribe" /\ task[o] = "err" -> "ignored"
    [] OTHER                                    -> "owned"

(* The new box that a successful connect gives to its handler.             *)
Adopt(o) ==
  IF kind[o] = "connect" /\ task[o] = "ok"
  THEN \E c \in Conns \ conns : conns' = conns \cup {c}
  ELSE UNCHANGED conns

(* Mutant: deallocate_ctx is forgotten.                                    *)
CompleteForgetsCtx(o) ==
  /\ task[o] \in {"ok", "err"}
  /\ box' = [box EXCEPT ![o] = Result(o)]
  /\ Adopt(o)
  /\ task' = [task EXCEPT ![o] = "done"]
  /\ UNCHANGED <<runtime, link, on, kind, ctx, source, data, before, cmds, server>>

(* cb(result, ctx): the C++ completion function wraps the box, calls the   *)
(* handler and frees the context.  Nothing is awaited since the result.    *)
Complete(o) ==
  /\ task[o] \in {"ok", "err"}
  /\ box' = [box EXCEPT ![o] = Result(o)]
  /\ ctx' = [ctx EXCEPT ![o] = "freed"]
  /\ Adopt(o)
  /\ task' = [task EXCEPT ![o] = "done"]
  /\ UNCHANGED <<runtime, link, on, kind, source, data, before, cmds, server>>

(* Connection's copies: async_nats_connection_clone makes a new box.       *)
CopyConn(c) ==
  /\ conns # {} /\ c \notin conns
  /\ conns' = conns \cup {c}
  /\ UNCHANGED <<runtime, link, on, kind, task, ctx, source, data, box, before,
                 cmds, server>>

(* ~Connection, or an assignment to it.  The caller waits for the handlers *)
(* of the operations it called on this object, or destroys the runtime     *)
(* first.                                                                  *)
DestroyConn(c) ==
  /\ c \in conns
  /\ \A o \in Ops : c \in on[o] => ctx[o] = "freed" \/ ~runtime
  /\ conns' = conns \ {c}
  /\ UNCHANGED <<runtime, link, on, kind, task, ctx, source, data, box, before,
                 cmds, server>>

-----------------------------------------------------------------------------
(* External: the handler writes a command to the server.                   *)
HandlerWrite ==
  /\ link = "up" /\ cmds # <<>>
  /\ server' = Append(server, Head(cmds))
  /\ cmds' = Tail(cmds)
  /\ UNCHANGED <<runtime, link, conns, on, kind, task, ctx, source, data, box,
                 before>>

(* External: the handler ends and its channel with it.                     *)
HandlerStop ==
  /\ link = "up"
  /\ link' = "stopped"
  /\ cmds' = <<>>
  /\ UNCHANGED <<runtime, conns, on, kind, task, ctx, source, data, box, before,
                 server>>

(* ~TokioRuntime drops every task that is asleep or not yet polled; a task *)
(* between its result and its completion is running and finishes first.    *)
RuntimeDrop ==
  /\ runtime
  /\ \A o \in Ops : task[o] \notin {"ok", "err"}
  /\ runtime' = FALSE
  /\ link' = IF link = "up" THEN "stopped" ELSE link
  /\ cmds' = <<>>
  /\ task' = [o \in Ops |-> IF task[o] \in {"spawned", "sending", "waiting"}
                            THEN "dropped" ELSE task[o]]
  /\ UNCHANGED <<conns, on, kind, ctx, source, data, box, before, server>>

TaskStep(o) ==
  Begin(o) \/ Connected(o) \/ Send(o) \/ Answer(o) \/ Complete(o)

Next ==
  \/ \E o \in Ops : \/ \E k \in Kinds : Call(o, k)
                    \/ ReuseSource(o)
                    \/ TaskStep(o)
  \/ \E c \in Conns : CopyConn(c) \/ DestroyConn(c)
  \/ HandlerWrite
  \/ HandlerStop
  \/ RuntimeDrop

(* Woken tasks run, connecting ends one way or the other, a request has a  *)
(* timeout, and a handler that is up drains its channel.                   *)
Fairness ==
  /\ \A o \in Ops : WF_vars(TaskStep(o))
  /\ WF_vars(HandlerWrite)

Spec     == Init /\ [][Next]_vars
FairSpec == Spec /\ Fairness

-----------------------------------------------------------------------------
TypeOK ==
  /\ runtime \in BOOLEAN /\ conns \subseteq Conns
  /\ on \in [Ops -> SUBSET Conns]
  /\ link \in {"none", "up", "stopped"}
  /\ kind \in [Ops -> Kinds \cup {"none"}]
  /\ task \in [Ops -> {"idle", "spawned", "sending", "waiting", "ok", "err",
                       "done", "dropped"}]
  /\ ctx \in [Ops -> {"none", "live", "freed"}]
  /\ source \in [Ops -> {"orig", "reused"}]
  /\ data \in [Ops -> {"none", "orig", "reused"}]
  /\ box \in [Ops -> {"none", "owned", "ignored"}]
  /\ before \in [Ops -> SUBSET Ops]
  /\ cmds \in Seq(Ops) /\ Len(cmds) <= ChanCap /\ server \in Seq(Ops)

(* What a task sends, and the options it connects with, are what the       *)
(* caller passed, even when the caller of publish reuses the buffer as     *)
(* soon as the call returns and the task runs later.                       *)
PayloadIntact == \A o \in Ops : data[o] # "reused"

(* A task never uses a Connection's box that was freed: it is done with it *)
(* when its handler is called, and copies do not share boxes, so that      *)
(* destroying one Connection leaves the operations of its copies alone.    *)
BorrowValid ==
  \A o \in Ops : task[o] \in {"spawned", "sending", "waiting"} => on[o] \subseteq conns

(* Tasks of different calls run in any order, but a call made after the    *)
(* completion of another is written after it: await-ed publishes keep      *)
(* their order, and a publish after a subscription's completion cannot     *)
(* miss the subscription.                                                  *)
AwaitedOrder ==
  LET log == server \o cmds IN
    \A i, j \in DOMAIN log : i < j => log[j] \notin before[log[i]]

(* Nothing is sent twice.  publish tells its handler nothing of its error  *)
(* (.ok()), but only the end of the connection can lose a message that     *)
(* way: while it is up, what completed well and every publish whose        *)
(* handler was called is in the command channel or on the wire.            *)
SentOnce ==
  /\ IsInjective(server \o cmds)
  /\ link = "up" =>
       \A o \in Ops :
         \/ kind[o] # "connect" /\ task[o] \in {"waiting", "ok"}
         \/ kind[o] = "publish" /\ ctx[o] = "freed"
         => Contains(server \o cmds, o)

(* The context lives exactly as long as a completion can still come, and   *)
(* is kept (leaked) only by an operation the runtime's end threw away.     *)
ContextLifetime ==
  \A o \in Ops :
    /\ ctx[o] = "live" => task[o] \notin {"idle", "done"}
    /\ ctx[o] = "live" /\ task[o] = "dropped" => ~runtime
    /\ ctx[o] # "live" => task[o] \in {"idle", "done"}

(* Every operation completes, unless the runtime is destroyed first.       *)
OperationCompletes ==
  \A o \in Ops : task[o] = "spawned" ~> task[o] = "done" \/ ~runtime

(* owned_string.h:10: C-strings returned from the rust part are stored and  *)
(* freed properly: no result that crosses the boundary is left unowned.    *)
ResultsOwned == \A o \in Ops : box[o] # "ignored"
=============================================================================
