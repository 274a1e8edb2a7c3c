------------------------------ MODULE DrmQuery ------------------------------
(***************************************************************************)
(* What a query function of xf86drmMode.c promises, without its two ioctls *)
(* and its attempts: it fails, or it returns all its lists as they were in *)
(* the kernel at one moment during the call.  DrmMode is shown to          *)
(* implement this specification; the demos use it.                         *)
(***************************************************************************)
EXTENDS Integers

CONSTANTS List,   \* the lists of the kernel
          Count   \* their possible lengths

VARIABLES lists,   \* length of each list in the kernel
          status,  \* of the call
          answer   \* what it is about to return, or NoAnswer

vars == <<lists, status, answer>>

NoAnswer == [l \in List |-> 0]

Asked == status = "asked" /\ answer = NoAnswer

Init == Asked /\ lists \in [List -> Count]

(* Monitors, framebuffers and properties come and go.                      *)
Hotplug == lists' \in [List -> Count] /\ UNCHANGED <<status, answer>>

(* The kernel is read.                                                     *)
Answer ==
  /\ status = "asked" /\ status' = "answered"
  /\ answer' = lists
  /\ UNCHANGED lists

Return ==
  /\ status = "answered" /\ status' = "returned"
  /\ UNCHANGED <<lists, answer>>

Fail ==
  /\ status \in {"asked", "answered"} /\ status' = "failed"
  /\ answer' = NoAnswer
  /\ UNCHANGED lists

Next == Hotplug \/ Answer \/ Return \/ Fail

Spec == Init /\ [][Next]_vars
=============================================================================
