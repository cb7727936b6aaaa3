--------------------------- MODULE MessageStream ---------------------------
(***************************************************************************)
(* What Subscribtion::receive and nonblocking::Receiver promise to whoever *)
(* takes messages from them: a FIFO stream.  Messages come out once and in *)
(* the order they went in; the end is told only when nothing is left, and  *)
(* nothing comes after it; destroying the object throws the rest away, and *)
(* nothing else does.                                                      *)
(***************************************************************************)
EXTENDS Sequences

CONSTANT Messages

VARIABLES
  pending,  \* messages that went in and have not come out
  out,      \* messages that came out
  over,     \* the end was told
  gone      \* the object was destroyed

vars == <<pending, out, over, gone>>

Init == pending = <<>> /\ out = <<>> /\ over = FALSE /\ gone = FALSE

Accept(m) ==
  /\ ~over /\ ~gone
  /\ pending' = Append(pending, m)
  /\ UNCHANGED <<out, over, gone>>

Deliver ==
  /\ ~over /\ ~gone /\ pending # <<>>
  /\ out' = Append(out, Head(pending))
  /\ pending' = Tail(pending)
  /\ UNCHANGED <<over, gone>>

End ==
  /\ ~gone /\ pending = <<>>
  /\ over' = TRUE
  /\ UNCHANGED <<pending, out, gone>>

Discard ==
  /\ gone' = TRUE
  /\ pending' = <<>>
  /\ UNCHANGED <<out, over>>

Next == (\E m \in Messages : Accept(m)) \/ Deliver \/ End \/ Discard

Spec == Init /\ [][Next]_vars
=============================================================================
