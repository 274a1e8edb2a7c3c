---------------------------- MODULE BoundedQueue ----------------------------
(***************************************************************************)
(* What a bounded buffer promises: a FIFO queue of at most N items, each   *)
(* of which is handed out once.  ProductConsume is shown to implement it.  *)
(***************************************************************************)
EXTENDS Naturals, Sequences

CONSTANTS Item,  \* what may be put into the queue
          N      \* the capacity

VARIABLES queue,  \* the items in the buffer, oldest first
          taken   \* the item handed out last: a set of at most one element

vars == <<queue, taken>>

Init == queue = <<>> /\ taken = {}

Put(v) ==
  /\ Len(queue) < N
  /\ queue' = Append(queue, v)
  /\ UNCHANGED taken

Get ==
  /\ queue # <<>>
  /\ taken' = {Head(queue)}
  /\ queue' = Tail(queue)

Next == Get \/ \E v \in Item : Put(v)

Spec == Init /\ [][Next]_vars
=============================================================================
