----------------------------- MODULE SendQueue -----------------------------
(***************************************************************************)
(* What a nonblocking::Sender promises: one FIFO queue between the callers *)
(* and the wire.  While it is open every accepted item is sent once and in *)
(* order; closing it loses what is pending, and nothing is sent after.     *)
(***************************************************************************)
EXTENDS Sequences

CONSTANT Items

VARIABLES
  status,   \* "none" before the Sender exists, then "open", then "closed"
  pending,  \* accepted, not sent
  sent      \* sent, in order

vars == <<status, pending, sent>>

Init == status = "none" /\ pending = <<>> /\ sent = <<>>

Create ==
  /\ status = "none"
  /\ status' \in {"open", "closed"}
  /\ UNCHANGED <<pending, sent>>

Accept(m) ==
  /\ status = "open"
  /\ pending' = Append(pending, m)
  /\ UNCHANGED <<status, sent>>

Publish ==
  /\ status = "open"
  /\ pending # <<>>
  /\ sent' = Append(sent, Head(pending))
  /\ pending' = Tail(pending)
  /\ UNCHANGED status

Close ==
  /\ status = "open"
  /\ status' = "closed"
  /\ pending' = <<>>
  /\ UNCHANGED sent

Next == Create \/ (\E m \in Items : Accept(m)) \/ Publish \/ Close

Spec == Init /\ [][Next]_vars
=============================================================================
