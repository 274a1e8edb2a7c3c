--------------------------- MODULE FramePipeline ---------------------------
(***************************************************************************)
(* What the multi-buffer display model promises, without threads, mutexes  *)
(* or semaphores: a frame (a buffer_task) is in one place at a time and    *)
(* goes round the cycle                                                    *)
(*                                                                         *)
(*    free --Take--> drawing --Finish--> ready --Show--> showing           *)
(*      ^                                                   |              *)
(*      +---------------------- Return ---------------------+              *)
(*                                                                         *)
(* Free and ready frames wait in FIFO order.  Any number of frames may be  *)
(* drawn at once, one at most is shown.  A frame whose draw (or show)      *)
(* callback is missing leaves the cycle when it is taken (or shown).       *)
(* MBuffer is shown to implement this specification.                       *)
(***************************************************************************)
EXTENDS Integers, Sequences, Functions

CONSTANTS Frame,      \* all frames
          NoProduce,  \* frames without a draw callback
          NoConsume   \* frames without a show callback

VARIABLES free,     \* FIFO of frames a drawer may take
          drawing,  \* frames being drawn
          ready,    \* FIFO of drawn frames
          showing   \* the frame being shown: a set of at most one element

vars == <<free, drawing, ready, showing>>

Init ==
  /\ free \in Seq(Frame)
  /\ IsInjective(free)
  /\ drawing = {}
  /\ ready = <<>>
  /\ showing = {}

(* A drawer takes the oldest free frame.                                   *)
Take ==
  /\ free # <<>>
  /\ free' = Tail(free)
  /\ drawing' = drawing \cup ({Head(free)} \ NoProduce)
  /\ UNCHANGED <<ready, showing>>

(* Frame f has been drawn: it waits behind the frames drawn before it.     *)
Finish(f) ==
  /\ f \in drawing
  /\ drawing' = drawing \ {f}
  /\ ready' = Append(ready, f)
  /\ UNCHANGED <<free, showing>>

(* The screen takes the oldest drawn frame.                                *)
Show ==
  /\ showing = {}
  /\ ready # <<>>
  /\ ready' = Tail(ready)
  /\ showing' = {Head(ready)} \ NoConsume
  /\ UNCHANGED <<free, drawing>>

(* Mutant: the frame is handed back before the others.                     *)
ReturnFirst(f) ==
  /\ f \in showing
  /\ showing' = showing \ {f}
  /\ free' = <<f>> \o free
  /\ UNCHANGED <<drawing, ready>>

(* The frame on show is handed back to the drawers.                        *)
Return(f) ==
  /\ f \in showing
  /\ showing' = showing \ {f}
  /\ free' = Append(free, f)
  /\ UNCHANGED <<drawing, ready>>

Next ==
  \/ Take
  \/ Show
  \/ \E f \in Frame : Finish(f) \/ Return(f)

Spec == Init /\ [][Next]_vars
=============================================================================
