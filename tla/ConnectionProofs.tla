-------------------------- MODULE ConnectionProofs --------------------------
(***************************************************************************)
(* Proofs about Connection for any number of operations and Connections    *)
(* and any capacity of the command channel.                                *)
(***************************************************************************)
EXTENDS Connection, SequenceTheorems, TLAPS

(* Commands in the order the server gets them: written or still queued.    *)
Log == server \o cmds

(* The stages of an operation's life, as its call, its task and its        *)
(* context see them.                                                       *)
Life ==
  \A o \in Ops :
    /\ kind[o] = "none" <=> task[o] = "idle"
    /\ kind[o] = "none" => on[o] = {}
    /\ ctx[o] = "none" <=> task[o] = "idle"
    /\ ctx[o] = "freed" <=> task[o] = "done"
    /\ task[o] \in {"spawned", "sending", "waiting", "ok", "err"} => runtime
    /\ task[o] = "dropped" => ~runtime

(* The caller reuses a buffer only when the task has its copy or is done.  *)
Payload ==
  \A o \in Ops :
    /\ data[o] # "reused"
    /\ source[o] = "reused" => CopiesAtCall(kind[o]) \/ task[o] = "done"
    /\ CopiesAtCall(kind[o]) => data[o] # "none"

(* There is one connect, and nothing but it before the link is up.  The    *)
(* link comes up once, so a publish that met its end never sees it again.  *)
Linked ==
  /\ \A o, p \in Ops : kind[o] = "connect" /\ kind[p] = "connect" => o = p
  /\ link # "none" => \E o \in Ops : kind[o] = "connect"
  /\ link = "none" => conns = {} /\ \A o \in Ops : kind[o] \in {"none", "connect"}
  /\ \A o \in Ops : kind[o] = "connect" =>
       /\ task[o] \in {"spawned", "sending"} => link = "none"
       /\ task[o] = "ok" => link # "none"
  /\ \A o \in Ops : task[o] = "waiting" => kind[o] \in Requests
  /\ \A o \in Ops : kind[o] = "publish" /\ task[o] = "err" => link # "up"

(* Only operations that got past sending are in the log, each once; an     *)
(* operation's `before` holds operations that are complete.                *)
Logged ==
  /\ \A i \in DOMAIN Log : task[Log[i]] \notin {"idle", "spawned", "sending"}
  /\ \A o \in Ops : before[o] \subseteq Done
  /\ AwaitedOrder
  /\ SentOnce

IInv == TypeOK /\ Life /\ Payload /\ BorrowValid /\ Linked /\ Logged

-----------------------------------------------------------------------------
(* The initial states satisfy the invariant.                               *)
LEMMA InitIInv == Init => IInv
<1> SUFFICES ASSUME Init PROVE IInv
  OBVIOUS
<1>1. TypeOK
  <2>1. runtime \in BOOLEAN
    BY Zenon DEF Init
  <2> QED
    BY <2>1, ConnAssumption DEF Init, TypeOK
<1>2. Log = <<>> /\ DOMAIN Log = {}
  BY DEF Init, Log
<1>3. Life /\ Payload /\ BorrowValid /\ Linked
  BY DEF Init, Life, Payload, CopiesAtCall, BorrowValid, Linked
<1>4. Logged
  BY <1>2 DEF Init, Logged, Log, AwaitedOrder, SentOnce, IsInjective
<1> QED
  BY <1>1, <1>3, <1>4 DEF IInv

(* The types.                                                              *)
LEMMA TypeStep ==
  ASSUME TypeOK, [Next]_vars
  PROVE  TypeOK'
<1> USE ConnAssumption
<1>1. ASSUME NEW o \in Ops, NEW k \in Kinds, Call(o, k) PROVE TypeOK'
  <2>1. on' \in [Ops -> SUBSET Conns]
    BY <1>1 DEF Call, TypeOK
  <2>2. kind' \in [Ops -> Kinds \cup {"none"}]
    BY <1>1 DEF Call, TypeOK
  <2>3. before' \in [Ops -> SUBSET Ops]
    BY <1>1 DEF Call, TypeOK, Done
  <2> QED
    BY <1>1, <2>1, <2>2, <2>3 DEF Call, TypeOK
<1>2. ASSUME NEW o \in Ops, ReuseSource(o) PROVE TypeOK'
  BY <1>2 DEF ReuseSource, TypeOK
<1>3. ASSUME NEW o \in Ops, Begin(o) PROVE TypeOK'
  BY <1>3 DEF Begin, TypeOK
<1>4. ASSUME NEW o \in Ops, Connected(o) PROVE TypeOK'
  BY <1>4 DEF Connected, TypeOK
<1>5. ASSUME NEW o \in Ops, Send(o) PROVE TypeOK'
  <2>1. CASE cmds' = Append(cmds, o) /\ Len(cmds) < ChanCap
    <3>1. cmds \in Seq(Ops)
      BY DEF TypeOK
    <3>2. cmds' \in Seq(Ops) /\ Len(cmds') = Len(cmds) + 1 /\ Len(cmds) \in Nat
      BY <2>1, <3>1
    <3>3. Len(cmds') <= ChanCap
      BY <2>1, <3>2
    <3>4. task' \in [Ops -> {"idle", "spawned", "sending", "waiting", "ok", "err",
                            "done", "dropped"}]
      <4>1. PICK v \in {"waiting", "ok", "err"} : task' = [task EXCEPT ![o] = v]
        BY <1>5 DEF Send
      <4> QED
        BY <4>1 DEF TypeOK
    <3>5. UNCHANGED <<runtime, link, conns, on, kind, ctx, source, data, box,
                      before, server>>
      BY <1>5 DEF Send
    <3> QED
      BY <3>2, <3>3, <3>4, <3>5 DEF TypeOK
  <2>2. CASE UNCHANGED cmds
    BY <1>5, <2>2 DEF Send, TypeOK
  <2> QED
    BY <1>5, <2>1, <2>2 DEF Send
<1>6. ASSUME NEW o \in Ops, Answer(o) PROVE TypeOK'
  BY <1>6 DEF Answer, TypeOK
<1>7. ASSUME NEW o \in Ops, Complete(o) PROVE TypeOK'
  <2>1. conns' \subseteq Conns
    BY <1>7 DEF Complete, Adopt, TypeOK
  <2>2. Result(o) \in {"none", "owned", "ignored"}
    BY DEF Result
  <2> QED
    BY <1>7, <2>1, <2>2 DEF Complete, TypeOK
<1>8. ASSUME NEW c \in Conns, CopyConn(c) \/ DestroyConn(c) PROVE TypeOK'
  BY <1>8 DEF CopyConn, DestroyConn, TypeOK
<1>9. CASE HandlerWrite
  <2>1. cmds' \in Seq(Ops) /\ Len(cmds') <= ChanCap /\ server' \in Seq(Ops)
    BY <1>9 DEF HandlerWrite, TypeOK
  <2> QED
    BY <1>9, <2>1 DEF HandlerWrite, TypeOK
<1>10. CASE HandlerStop
  BY <1>10 DEF HandlerStop, TypeOK
<1>11. CASE RuntimeDrop
  <2>1. runtime' \in BOOLEAN
    BY <1>11, Zenon DEF RuntimeDrop
  <2>2. /\ link' = (IF link = "up" THEN "stopped" ELSE link) /\ cmds' = <<>>
        /\ task' = [o \in Ops |-> IF task[o] \in {"spawned", "sending", "waiting"}
                                  THEN "dropped" ELSE task[o]]
        /\ UNCHANGED <<conns, on, kind, ctx, source, data, box, before, server>>
    BY <1>11, Zenon DEF RuntimeDrop
  <2> QED
    BY <2>1, <2>2 DEF TypeOK
<1>12. CASE UNCHANGED vars
  BY <1>12 DEF vars, TypeOK
<1> QED
  BY <1>1, <1>2, <1>3, <1>4, <1>5, <1>6, <1>7, <1>8, <1>9, <1>10, <1>11, <1>12
  DEF Next, TaskStep

(* The stages follow each other.                                           *)
LEMMA LifeStep ==
  ASSUME TypeOK, Life, [Next]_vars
  PROVE  Life'
<1>1. ASSUME NEW o \in Ops, NEW k \in Kinds, Call(o, k) PROVE Life'
  <2>1. k # "none"
    BY DEF Kinds
  <2> QED
    BY <1>1, <2>1 DEF Call, TypeOK, Life
<1>2. ASSUME NEW o \in Ops, ReuseSource(o) PROVE Life'
  BY <1>2 DEF ReuseSource, TypeOK, Life
<1>3. ASSUME NEW o \in Ops, Begin(o) PROVE Life'
  BY <1>3 DEF Begin, TypeOK, Life
<1>4. ASSUME NEW o \in Ops, Connected(o) PROVE Life'
  BY <1>4 DEF Connected, TypeOK, Life
<1>5. ASSUME NEW o \in Ops, Send(o) PROVE Life'
  BY <1>5 DEF Send, TypeOK, Life
<1>6. ASSUME NEW o \in Ops, Answer(o) PROVE Life'
  BY <1>6 DEF Answer, TypeOK, Life
<1>7. ASSUME NEW o \in Ops, Complete(o) PROVE Life'
  BY <1>7 DEF Complete, TypeOK, Life
<1>8. ASSUME NEW c \in Conns, CopyConn(c) \/ DestroyConn(c) PROVE Life'
  BY <1>8 DEF CopyConn, DestroyConn, Life
<1>9. CASE HandlerWrite \/ HandlerStop
  BY <1>9 DEF HandlerWrite, HandlerStop, Life
<1>10. CASE RuntimeDrop
  <2>1. /\ ~runtime' /\ UNCHANGED <<kind, ctx, on>>
        /\ \A o \in Ops : task[o] \notin {"ok", "err"}
        /\ task' = [o \in Ops |-> IF task[o] \in {"spawned", "sending", "waiting"}
                                  THEN "dropped" ELSE task[o]]
    BY <1>10, Zenon DEF RuntimeDrop
  <2> QED
    BY <2>1 DEF TypeOK, Life
<1>11. CASE UNCHANGED vars
  BY <1>11 DEF vars, Life
<1> QED
  BY <1>1, <1>2, <1>3, <1>4, <1>5, <1>6, <1>7, <1>8, <1>9, <1>10, <1>11
  DEF Next, TaskStep

(* A task has read or copied what it needs before the caller reuses it.    *)
LEMMA PayloadStep ==
  ASSUME TypeOK, Life, Payload, [Next]_vars
  PROVE  Payload'
<1>1. ASSUME NEW o \in Ops, NEW k \in Kinds, Call(o, k) PROVE Payload'
  <2>1. source[o] = "orig"
    BY <1>1 DEF Call, TypeOK, Life, Payload, CopiesAtCall
  <2> QED
    BY <1>1, <2>1 DEF Call, TypeOK, Payload, CopiesAtCall, Life
<1>2. ASSUME NEW o \in Ops, ReuseSource(o) PROVE Payload'
  BY <1>2 DEF ReuseSource, TypeOK, Payload, CopiesAtCall
<1>3. ASSUME NEW o \in Ops, Begin(o) PROVE Payload'
  BY <1>3 DEF Begin, TypeOK, Payload
<1>4. ASSUME NEW o \in Ops, Connected(o) PROVE Payload'
  BY <1>4 DEF Connected, TypeOK, Payload
<1>5. ASSUME NEW o \in Ops, Send(o) PROVE Payload'
  BY <1>5 DEF Send, TypeOK, Payload
<1>6. ASSUME NEW o \in Ops, Answer(o) PROVE Payload'
  BY <1>6 DEF Answer, TypeOK, Payload
<1>7. ASSUME NEW o \in Ops, Complete(o) PROVE Payload'
  BY <1>7 DEF Complete, TypeOK, Payload
<1>8. ASSUME NEW c \in Conns, CopyConn(c) \/ DestroyConn(c) PROVE Payload'
  BY <1>8 DEF CopyConn, DestroyConn, Payload
<1>9. CASE HandlerWrite \/ HandlerStop
  BY <1>9 DEF HandlerWrite, HandlerStop, Payload
<1>10. CASE RuntimeDrop
  BY <1>10 DEF RuntimeDrop, TypeOK, Payload
<1>11. CASE UNCHANGED vars
  BY <1>11 DEF vars, Payload
<1> QED
  BY <1>1, <1>2, <1>3, <1>4, <1>5, <1>6, <1>7, <1>8, <1>9, <1>10, <1>11
  DEF Next, TaskStep

(* The box a task borrows stays.                                           *)
LEMMA BorrowStep ==
  ASSUME TypeOK, Life, BorrowValid, [Next]_vars
  PROVE  BorrowValid'
<1>1. ASSUME NEW o \in Ops, NEW k \in Kinds, Call(o, k) PROVE BorrowValid'
  <2>1. task[o] = "idle" /\ on[o] = {} /\ conns' = conns
    BY <1>1 DEF Call, Life
  <2>2. CASE k # "connect"
    BY <1>1, <2>1, <2>2 DEF Call, TypeOK, BorrowValid
  <2>3. CASE UNCHANGED on
    BY <1>1, <2>1, <2>3 DEF Call, TypeOK, BorrowValid
  <2> QED
    BY <1>1, <2>2, <2>3 DEF Call
<1>2. ASSUME NEW o \in Ops, ReuseSource(o) PROVE BorrowValid'
  BY <1>2 DEF ReuseSource, BorrowValid
<1>3. ASSUME NEW o \in Ops, Begin(o) PROVE BorrowValid'
  BY <1>3 DEF Begin, TypeOK, BorrowValid
<1>4. ASSUME NEW o \in Ops, Connected(o) PROVE BorrowValid'
  BY <1>4 DEF Connected, TypeOK, BorrowValid
<1>5. ASSUME NEW o \in Ops, Send(o) PROVE BorrowValid'
  BY <1>5 DEF Send, TypeOK, BorrowValid
<1>6. ASSUME NEW o \in Ops, Answer(o) PROVE BorrowValid'
  BY <1>6 DEF Answer, TypeOK, BorrowValid
<1>7. ASSUME NEW o \in Ops, Complete(o) PROVE BorrowValid'
  <2>1. conns \subseteq conns'
    BY <1>7 DEF Complete, Adopt
  <2> QED
    BY <1>7, <2>1 DEF Complete, TypeOK, BorrowValid
<1>8. ASSUME NEW c \in Conns, CopyConn(c) PROVE BorrowValid'
  BY <1>8 DEF CopyConn, BorrowValid
<1>9. ASSUME NEW c \in Conns, DestroyConn(c) PROVE BorrowValid'
  <2>1. ASSUME NEW o \in Ops, task[o] \in {"spawned", "sending", "waiting"}
        PROVE  c \notin on[o]
    BY <1>9, <2>1 DEF DestroyConn, Life
  <2> QED
    BY <1>9, <2>1 DEF DestroyConn, BorrowValid
<1>10. CASE HandlerWrite \/ HandlerStop
  BY <1>10 DEF HandlerWrite, HandlerStop, BorrowValid
<1>11. CASE RuntimeDrop
  BY <1>11 DEF RuntimeDrop, TypeOK, BorrowValid
<1>12. CASE UNCHANGED vars
  BY <1>12 DEF vars, BorrowValid
<1> QED
  BY <1>1, <1>2, <1>3, <1>4, <1>5, <1>6, <1>7, <1>8, <1>9, <1>10, <1>11, <1>12
  DEF Next, TaskStep

(* The link comes up at most once.                                         *)
LEMMA LinkStep ==
  ASSUME TypeOK, Life, Linked, [Next]_vars
  PROVE  Linked'
<1>1. ASSUME NEW o \in Ops, NEW k \in Kinds, Call(o, k) PROVE Linked'
  <2>1. kind[o] = "none" /\ task[o] = "idle" /\ UNCHANGED <<link, conns>>
    BY <1>1 DEF Call, Life
  <2>2. /\ kind' = [kind EXCEPT ![o] = k]
        /\ task'[o] \in {"spawned", "dropped"}
        /\ \A p \in Ops \ {o} : task'[p] = task[p] /\ kind'[p] = kind[p]
        /\ kind'[o] = k
    BY <1>1 DEF Call, TypeOK
  <2>3. CASE k = "connect" /\ \A p \in Ops : kind[p] # "connect"
    <3>1. link = "none"
      BY <2>1, <2>3 DEF Linked
    <3> QED
      BY <2>1, <2>2, <2>3, <3>1 DEF Linked
  <2>4. CASE k # "connect" /\ conns # {}
    BY <2>1, <2>2, <2>4 DEF Linked
  <2> QED
    BY <1>1, <2>3, <2>4 DEF Call
<1>2. ASSUME NEW o \in Ops, ReuseSource(o) PROVE Linked'
  BY <1>2 DEF ReuseSource, Linked
<1>3. ASSUME NEW o \in Ops, Begin(o) PROVE Linked'
  BY <1>3 DEF Begin, TypeOK, Linked
<1>4. ASSUME NEW o \in Ops, Connected(o) PROVE Linked'
  <2>1. link = "none"
    BY <1>4 DEF Connected, Linked
  <2> QED
    BY <1>4, <2>1 DEF Connected, TypeOK, Linked
<1>5. ASSUME NEW o \in Ops, Send(o) PROVE Linked'
  BY <1>5 DEF Send, TypeOK, Linked
<1>6. ASSUME NEW o \in Ops, Answer(o) PROVE Linked'
  <2>1. kind[o] \notin {"connect", "publish"}
    BY <1>6 DEF Answer, Linked, Requests
  <2>2. /\ UNCHANGED <<link, conns, kind>> /\ task'[o] \in {"ok", "err"}
        /\ \A p \in Ops \ {o} : task'[p] = task[p]
    BY <1>6 DEF Answer, TypeOK
  <2> QED
    BY <2>1, <2>2 DEF Linked
<1>7. ASSUME NEW o \in Ops, Complete(o) PROVE Linked'
  BY <1>7 DEF Complete, Adopt, TypeOK, Linked
<1>8. ASSUME NEW c \in Conns, CopyConn(c) \/ DestroyConn(c) PROVE Linked'
  BY <1>8 DEF CopyConn, DestroyConn, Linked
<1>9. CASE HandlerWrite \/ HandlerStop
  BY <1>9 DEF HandlerWrite, HandlerStop, Linked
<1>10. CASE RuntimeDrop
  BY <1>10 DEF RuntimeDrop, TypeOK, Linked
<1>11. CASE UNCHANGED vars
  BY <1>11 DEF vars, Linked
<1> QED
  BY <1>1, <1>2, <1>3, <1>4, <1>5, <1>6, <1>7, <1>8, <1>9, <1>10, <1>11
  DEF Next, TaskStep

-----------------------------------------------------------------------------
(* The log is a sequence of operations, what is written first.             *)
LEMMA LogShape ==
  ASSUME TypeOK
  PROVE  /\ Log \in Seq(Ops) /\ DOMAIN Log = 1 .. Len(Log)
         /\ \A i \in DOMAIN Log : Log[i] \in Ops
         /\ DOMAIN server \subseteq DOMAIN Log
         /\ \A i \in DOMAIN server : Log[i] = server[i]
<1>1. server \in Seq(Ops) /\ cmds \in Seq(Ops)
  BY DEF TypeOK
<1> QED
  BY <1>1 DEF Log

(* What the log becomes: the same when the handler writes, one longer when *)
(* a task sends, and cut back to what was written when the channel goes.   *)
LEMMA LogWrite ==
  ASSUME TypeOK, HandlerWrite
  PROVE  Log' = Log
<1>1. /\ server \in Seq(Ops) /\ cmds \in Seq(Ops) /\ cmds # <<>>
      /\ server' = Append(server, Head(cmds)) /\ cmds' = Tail(cmds)
  BY DEF TypeOK, HandlerWrite
<1>2. Append(server, Head(cmds)) \o Tail(cmds) = server \o cmds
  BY <1>1
<1> QED
  BY <1>1, <1>2 DEF Log

(* A command that is sent enters the log at its end.                       *)
LEMMA LogSend ==
  ASSUME TypeOK, NEW o \in Ops, cmds' = Append(cmds, o), server' = server
  PROVE  Log' = Append(Log, o)
<1>1. server \in Seq(Ops) /\ cmds \in Seq(Ops)
  BY DEF TypeOK
<1>2. server \o Append(cmds, o) = Append(server \o cmds, o)
  BY <1>1
<1> QED
  BY <1>2 DEF Log

(* When the handler ends, the log is cut to what the server has, and what  *)
(* is left stays in place.                                                 *)
LEMMA LogCut ==
  ASSUME TypeOK, cmds' = <<>>, server' = server
  PROVE  DOMAIN Log' \subseteq DOMAIN Log /\ \A i \in DOMAIN Log' : Log'[i] = Log[i]
<1>1. server \in Seq(Ops)
  BY DEF TypeOK
<1>2. Log' = server
  BY <1>1 DEF Log
<1> QED
  BY <1>2, LogShape

(* The properties of the log in terms of Log.                              *)
Distinct  == \A i, j \in DOMAIN Log : Log[i] = Log[j] => i = j
InOrder   == \A i, j \in DOMAIN Log : i < j => Log[j] \notin before[Log[i]]
PastSend  == \A i \in DOMAIN Log : task[Log[i]] \notin {"idle", "spawned", "sending"}
BeforeDone == \A o \in Ops : before[o] \subseteq Done
Kept ==
  link = "up" =>
    \A o \in Ops :
      \/ kind[o] # "connect" /\ task[o] \in {"waiting", "ok"}
      \/ kind[o] = "publish" /\ ctx[o] = "freed"
      => \E i \in DOMAIN Log : Log[i] = o

(* The part of the invariant about commands, in terms of the log.          *)
LEMMA LoggedParts ==
  ASSUME TypeOK
  PROVE  Logged <=> Distinct /\ InOrder /\ PastSend /\ BeforeDone /\ Kept
BY LogShape DEF Logged, AwaitedOrder, SentOnce, IsInjective, Contains, Log,
   Distinct, InOrder, PastSend, BeforeDone, Kept

(* A step that leaves the log as it is, or cuts it when the link ends.     *)
LEMMA LogKept ==
  ASSUME TypeOK, TypeOK', Logged,
         DOMAIN Log' \subseteq DOMAIN Log, \A i \in DOMAIN Log' : Log'[i] = Log[i],
         \A i \in DOMAIN Log' : before'[Log[i]] = before[Log[i]],
         \A o \in Ops : task[o] \notin {"idle", "spawned", "sending"} =>
                          task'[o] \notin {"idle", "spawned", "sending"},
         \A o \in Ops : before'[o] \subseteq Done', Kept'
  PROVE  Logged'
<1>1. Distinct /\ InOrder /\ PastSend /\ BeforeDone
  BY LoggedParts
<1>2. Distinct'
  BY <1>1 DEF Distinct
<1>3. InOrder'
  BY <1>1 DEF InOrder
<1>4. PastSend'
  BY <1>1, LogShape DEF PastSend
<1>5. BeforeDone'
  BY DEF BeforeDone
<1>6. TypeOK' => (Logged' <=> Distinct' /\ InOrder' /\ PastSend' /\ BeforeDone' /\ Kept')
  BY LoggedParts, PTL
<1> QED
  BY <1>2, <1>3, <1>4, <1>5, <1>6

(* A command is appended by the task that is sending, for whom nobody has  *)
(* waited yet.                                                             *)
LEMMA LogSent ==
  ASSUME TypeOK, TypeOK', Life, Logged, NEW o \in Ops, task[o] = "sending",
         kind[o] # "connect", link = "up", cmds' = Append(cmds, o),
         task' = [task EXCEPT ![o] = IF kind[o] \in Requests THEN "waiting" ELSE "ok"],
         UNCHANGED <<link, kind, ctx, before, server>>
  PROVE  Logged'
<1>1. Distinct /\ InOrder /\ PastSend /\ BeforeDone /\ Kept
  BY LoggedParts
<1>2. /\ Log \in Seq(Ops) /\ DOMAIN Log = 1 .. Len(Log) /\ Len(Log) \in Nat
      /\ \A i \in DOMAIN Log : Log[i] \in Ops
  BY LogShape
<1>3. /\ DOMAIN Log' = 1 .. Len(Log) + 1 /\ Log'[Len(Log) + 1] = o
      /\ \A i \in DOMAIN Log : Log'[i] = Log[i]
  <2>1. Log' = Append(Log, o)
    BY LogSend
  <2> QED
    BY <1>2, <2>1
<1>4. \A i \in DOMAIN Log : Log[i] # o
  BY <1>1 DEF PastSend
<1>5. \A p \in Ops : o \notin before[p]
  BY <1>1 DEF BeforeDone, Done, Life
<1>t. task'[o] \in {"waiting", "ok"} /\ \A p \in Ops \ {o} : task'[p] = task[p]
  <2>1. PICK v \in {"waiting", "ok"} : task' = [task EXCEPT ![o] = v]
    OBVIOUS
  <2> QED
    BY <2>1 DEF TypeOK
<1>6. Distinct'
  BY <1>1, <1>2, <1>3, <1>4 DEF Distinct
<1>7. InOrder'
  <2> SUFFICES ASSUME NEW i \in 1 .. Len(Log) + 1, NEW j \in 1 .. Len(Log) + 1, i < j
               PROVE  Log'[j] \notin before[Log'[i]]
    BY <1>3 DEF InOrder
  <2>1. i \in DOMAIN Log
    BY <1>2
  <2>2. CASE j \in DOMAIN Log
    BY <1>1, <1>3, <2>1, <2>2 DEF InOrder
  <2>3. CASE j = Len(Log) + 1
    BY <1>2, <1>3, <1>5, <2>1, <2>3
  <2> QED
    BY <1>2, <2>2, <2>3
<1>8. PastSend'
  <2> SUFFICES ASSUME NEW i \in 1 .. Len(Log) + 1
               PROVE  task'[Log'[i]] \notin {"idle", "spawned", "sending"}
    BY <1>3 DEF PastSend
  <2>1. CASE i \in DOMAIN Log
    BY <1>1, <1>2, <1>3, <1>4, <1>t, <2>1 DEF PastSend
  <2>2. CASE i = Len(Log) + 1
    BY <1>3, <1>t, <2>2
  <2> QED
    BY <1>2, <2>1, <2>2
<1>9. BeforeDone'
  BY <1>1 DEF BeforeDone, Done
<1>10. Kept'
  <2> SUFFICES ASSUME NEW p \in Ops,
                      \/ kind[p] # "connect" /\ task'[p] \in {"waiting", "ok"}
                      \/ kind[p] = "publish" /\ ctx[p] = "freed"
               PROVE  \E i \in DOMAIN Log' : Log'[i] = p
    BY DEF Kept
  <2>1. CASE p = o
    BY <1>2, <1>3, <2>1
  <2>2. CASE p # o
    <3>1. PICK i \in DOMAIN Log : Log[i] = p
      BY <1>1, <1>t, <2>2 DEF Kept
    <3> QED
      BY <1>2, <1>3, <3>1
  <2> QED
    BY <2>1, <2>2
<1>11. TypeOK' => (Logged' <=> Distinct' /\ InOrder' /\ PastSend' /\ BeforeDone' /\ Kept')
  BY LoggedParts, PTL
<1> QED
  BY <1>6, <1>7, <1>8, <1>9, <1>10, <1>11

(* Every step keeps the log in order.                                      *)
LEMMA LogStep ==
  ASSUME IInv, TypeOK', [Next]_vars
  PROVE  Logged'
<1>0. /\ TypeOK /\ Life /\ Linked /\ Logged
      /\ Distinct /\ InOrder /\ PastSend /\ BeforeDone /\ Kept
  BY LoggedParts DEF IInv
<1>s. ASSUME UNCHANGED <<cmds, server>>
      PROVE  Log' = Log
  BY <1>s DEF Log
<1>l. /\ DOMAIN Log \subseteq DOMAIN Log
      /\ \A i \in DOMAIN Log : Log[i] \in Ops
  BY <1>0, LogShape
<1>1. ASSUME NEW o \in Ops, NEW k \in Kinds, Call(o, k) PROVE Logged'
  <2>1. /\ task[o] = "idle" /\ UNCHANGED <<cmds, server, link>> /\ ctx[o] = "none"
        /\ task'[o] \in {"spawned", "dropped"} /\ ctx'[o] = "live"
        /\ \A p \in Ops \ {o} : /\ task'[p] = task[p] /\ kind'[p] = kind[p]
                                /\ ctx'[p] = ctx[p] /\ before'[p] = before[p]
        /\ before'[o] = Done
    BY <1>0, <1>1 DEF Call, TypeOK, Life
  <2>2. \A i \in DOMAIN Log : Log[i] # o
    BY <1>0, <2>1 DEF PastSend
  <2>3. Done' = Done
    BY <2>1 DEF Done
  <2>4. Kept'
    BY <1>0, <1>s, <2>1 DEF Kept
  <2>5. \A p \in Ops : before'[p] \subseteq Done'
    BY <1>0, <2>1, <2>3 DEF BeforeDone
  <2>6. \A i \in DOMAIN Log : before'[Log[i]] = before[Log[i]]
    BY <1>l, <2>1, <2>2
  <2>7. \A p \in Ops : task[p] \notin {"idle", "spawned", "sending"} =>
                         task'[p] \notin {"idle", "spawned", "sending"}
    BY <2>1
  <2> QED
    BY <1>0, <1>s, <2>1, <2>4, <2>5, <2>6, <2>7, LogKept
<1>2. ASSUME UNCHANGED <<cmds, server, link, kind, ctx, before>>,
             NEW o \in Ops, task'[o] \in {task[o], "sending", "ok", "err"},
             task'[o] = "sending" => task[o] = "spawned",
             task'[o] = "ok" => task[o] = "waiting" \/ kind[o] = "connect",
             \A p \in Ops \ {o} : task'[p] = task[p]
      PROVE  Logged'
  <2>1. Kept'
    BY <1>0, <1>s, <1>2 DEF Kept
  <2>2. \A p \in Ops : before'[p] \subseteq Done'
    BY <1>0, <1>2 DEF BeforeDone, Done
  <2>3. \A p \in Ops : task[p] \notin {"idle", "spawned", "sending"} =>
                         task'[p] \notin {"idle", "spawned", "sending"}
    BY <1>2
  <2> QED
    BY <1>0, <1>s, <1>2, <2>1, <2>2, <2>3, LogKept
<1>3. ASSUME NEW o \in Ops, Connected(o) PROVE Logged'
  <2>1. CASE UNCHANGED link
    <3>1. /\ UNCHANGED <<cmds, server, link, kind, ctx, before>>
          /\ task'[o] \in {"ok", "err"} /\ kind[o] = "connect"
          /\ \A p \in Ops \ {o} : task'[p] = task[p]
      BY <1>0, <1>3, <2>1 DEF Connected, TypeOK
    <3> QED
      BY <1>2, <3>1
  <2>2. CASE link' = "up" /\ task' = [task EXCEPT ![o] = "ok"]
    <3>1. link = "none" /\ UNCHANGED <<cmds, server, kind, ctx, before>>
          /\ task'[o] = "ok" /\ kind[o] = "connect"
          /\ \A p \in Ops \ {o} : task'[p] = task[p]
      BY <1>0, <1>3, <2>2 DEF Connected, Linked, TypeOK
    <3>2. \A p \in Ops \ {o} : kind[p] = "none" /\ task[p] = "idle"
      BY <1>0, <3>1 DEF Linked, Life
    <3>3. Kept'
      BY <3>1, <3>2 DEF Kept
    <3>4. \A p \in Ops : before'[p] \subseteq Done'
      BY <1>0, <3>1 DEF BeforeDone, Done
    <3>5. \A p \in Ops : task[p] \notin {"idle", "spawned", "sending"} =>
                           task'[p] \notin {"idle", "spawned", "sending"}
      BY <3>1
    <3> QED
      BY <1>0, <1>s, <3>1, <3>3, <3>4, <3>5, LogKept
  <2> QED
    BY <1>3, <2>1, <2>2 DEF Connected
<1>4. ASSUME NEW o \in Ops, Send(o) PROVE Logged'
  <2>1. CASE link = "up" /\ cmds' = Append(cmds, o)
             /\ task' = [task EXCEPT ![o] =
                           IF kind[o] \in Requests THEN "waiting" ELSE "ok"]
    BY <1>0, <1>4, <2>1, LogSent DEF Send
  <2>2. CASE UNCHANGED cmds /\ task' = [task EXCEPT ![o] = "err"]
    <3>1. /\ UNCHANGED <<cmds, server, link, kind, ctx, before>>
          /\ task'[o] = "err" /\ \A p \in Ops \ {o} : task'[p] = task[p]
      BY <1>0, <1>4, <2>2 DEF Send, TypeOK
    <3> QED
      BY <1>2, <3>1
  <2> QED
    BY <1>4, <2>1, <2>2 DEF Send
<1>5. ASSUME NEW o \in Ops, Begin(o) \/ Answer(o) PROVE Logged'
  <2>1. /\ UNCHANGED <<cmds, server, link, kind, ctx, before>>
        /\ task'[o] \in {"sending", "ok", "err"}
        /\ task'[o] = "sending" => task[o] = "spawned"
        /\ task'[o] = "ok" => task[o] = "waiting"
        /\ \A p \in Ops \ {o} : task'[p] = task[p]
    BY <1>0, <1>5 DEF Begin, Answer, TypeOK
  <2> QED
    BY <1>2, <2>1
<1>6. ASSUME NEW o \in Ops, Complete(o) PROVE Logged'
  <2>1. /\ UNCHANGED <<cmds, server, link, kind, before>>
        /\ task[o] \in {"ok", "err"} /\ task'[o] = "done" /\ ctx'[o] = "freed"
        /\ \A p \in Ops \ {o} : task'[p] = task[p] /\ ctx'[p] = ctx[p]
    BY <1>0, <1>6 DEF Complete, TypeOK
  <2>2. link = "up" /\ kind[o] = "publish" => task[o] = "ok"
    BY <1>0, <2>1 DEF Linked
  <2>3. Kept'
    BY <1>0, <1>s, <2>1, <2>2 DEF Kept
  <2>4. \A p \in Ops : before'[p] \subseteq Done'
    BY <1>0, <2>1 DEF BeforeDone, Done
  <2>5. \A p \in Ops : task[p] \notin {"idle", "spawned", "sending"} =>
                         task'[p] \notin {"idle", "spawned", "sending"}
    BY <2>1
  <2> QED
    BY <1>0, <1>s, <2>1, <2>3, <2>4, <2>5, LogKept
<1>7. ASSUME UNCHANGED <<task, link, kind, ctx, before>>, Log' = Log PROVE Logged'
  <2>1. Kept' /\ \A p \in Ops : before'[p] \subseteq Done'
    BY <1>0, <1>7 DEF Kept, BeforeDone, Done
  <2> QED
    BY <1>0, <1>7, <2>1, LogKept
<1>8. ASSUME NEW o \in Ops, ReuseSource(o) PROVE Logged'
  BY <1>7, <1>8, <1>s DEF ReuseSource
<1>9. ASSUME NEW c \in Conns, CopyConn(c) \/ DestroyConn(c) PROVE Logged'
  BY <1>7, <1>9, <1>s DEF CopyConn, DestroyConn
<1>10. CASE HandlerWrite
  BY <1>0, <1>7, <1>10, LogWrite DEF HandlerWrite
<1>11. CASE HandlerStop \/ RuntimeDrop
  <2>1. /\ link' # "up" /\ cmds' = <<>> /\ UNCHANGED <<server, kind, ctx, before>>
        /\ \A p \in Ops : task[p] \notin {"idle", "spawned", "sending"} =>
                            task'[p] \notin {"idle", "spawned", "sending"}
    BY <1>0, <1>11 DEF HandlerStop, RuntimeDrop, TypeOK
  <2>2. Kept' /\ \A p \in Ops : before'[p] \subseteq Done'
    BY <1>0, <2>1 DEF Kept, BeforeDone, Done
  <2> QED
    BY <1>0, <2>1, <2>2, LogCut, LogKept
<1>12. CASE UNCHANGED vars
  BY <1>7, <1>12, <1>s DEF vars
<1> QED
  BY <1>1, <1>3, <1>4, <1>5, <1>6, <1>8, <1>9, <1>10, <1>11, <1>12
  DEF Next, TaskStep

-----------------------------------------------------------------------------
(* The inductive invariant holds in every reachable state.                 *)
THEOREM Invariant == Spec => []IInv
<1>1. IInv /\ [Next]_vars => IInv'
  BY TypeStep, LifeStep, PayloadStep, BorrowStep, LinkStep, LogStep DEF IInv
<1> QED
  BY InitIInv, <1>1, PTL DEF Spec

(* connection.hpp, connection.rs: whatever the order in which calls and    *)
(* tasks run, a task never reads a buffer its caller has reused.           *)
THEOREM Payloads == Spec => []PayloadIntact
<1>1. IInv => PayloadIntact
  BY DEF IInv, Payload, PayloadIntact
<1> QED
  BY <1>1, Invariant, PTL

(* connection.rs: the box a task borrows outlives the borrow.              *)
THEOREM Borrows == Spec => []BorrowValid
<1>1. IInv => BorrowValid
  BY DEF IInv
<1> QED
  BY <1>1, Invariant, PTL

(* An operation called after the completion of another is written after    *)
(* it, for any number of operations and any capacity of the channel.       *)
THEOREM Awaited == Spec => []AwaitedOrder
<1>1. IInv => AwaitedOrder
  BY DEF IInv, Logged
<1> QED
  BY <1>1, Invariant, PTL

(* connection.rs: nothing is sent twice, and a publish whose handler was   *)
(* called is sent while the connection lasts, its error ignored or not.    *)
THEOREM Sent == Spec => []SentOnce
<1>1. IInv => SentOnce
  BY DEF IInv, Logged
<1> QED
  BY <1>1, Invariant, PTL

(* helpers.hpp: a handler's context lives until its one completion, and is *)
(* leaked only with the runtime.                                           *)
THEOREM Contexts == Spec => []ContextLifetime
<1>1. IInv => ContextLifetime
  BY DEF IInv, Life, ContextLifetime, TypeOK
<1> QED
  BY <1>1, Invariant, PTL
=============================================================================
