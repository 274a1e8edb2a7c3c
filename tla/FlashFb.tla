------------------------------ MODULE FlashFb ------------------------------
(***************************************************************************)
(* The display model of display/flash_fb.c, which M_buffer replaced.  Each *)
(* of FRAMEBUFFER_NUMBER boxes has a fill thread; one flash thread shows   *)
(* the boxes in the order of their serials; the tick wakes the first box   *)
(* that may be filled, and the flash thread.  There is no lock: a box is   *)
(* handed over by its flag is_displayed, and the serial counter            *)
(* g_ready_fb_serial is incremented by all fill threads.                   *)
(*                                                                         *)
(* The increment is a read and a write, and the compiler may or may not    *)
(* read the counter again for the serial of the box.  Other accesses take  *)
(* effect in program order.                                                *)
(***************************************************************************)
EXTENDS Integers

CONSTANTS FRAMEBUFFER_NUMBER,  \* number of boxes
          SemValueMax,         \* largest value of a semaphore
          MaxSerial            \* bound on the serials handed out

ASSUME BoundAssumption == /\ FRAMEBUFFER_NUMBER \in Nat \ {0}
                          /\ SemValueMax \in Nat \ {0} /\ MaxSerial \in Nat

Box == 0..(FRAMEBUFFER_NUMBER - 1)

VARIABLES
  fb_serial, is_displayed,        \* of each box
  g_fb_serial,                    \* serials shown so far
  g_ready_fb_serial,              \* serials handed out so far
  semaphore, flash_semaphore,     \* of each fill thread, of the flash thread
  f_pc, f_serial,                 \* each fill thread: position, counter as read
  s_pc, s_i,                      \* flash thread: position, loop index
  t_pc, t_i,                      \* tick: position, loop index
  raced,  \* history: two fill threads were at the counter at once
  stale   \* history: a box passed as never filled and was filled when shown

counters == <<g_fb_serial, g_ready_fb_serial>>
semaphores == <<semaphore, flash_semaphore>>
fill == <<f_pc, f_serial>>
flash == <<s_pc, s_i>>
tick == <<t_pc, t_i>>
history == <<raced, stale>>
vars == <<fb_serial, is_displayed, counters, semaphores, fill, flash, tick, history>>

TypeOK ==
  /\ fb_serial \in [Box -> 0..MaxSerial]
  /\ is_displayed \in [Box -> BOOLEAN]
  /\ g_fb_serial \in Nat /\ g_ready_fb_serial \in 0..MaxSerial
  /\ semaphore \in [Box -> 0..SemValueMax] /\ flash_semaphore \in 0..SemValueMax
  /\ f_pc \in [Box -> {"none", "wait", "read", "write", "serial", "mark"}]
  /\ f_serial \in [Box -> 0..MaxSerial]
  /\ s_pc \in {"wait", "serial", "displayed", "show"} /\ s_i \in 0..FRAMEBUFFER_NUMBER
  /\ t_pc \in {"scan", "flash"} /\ t_i \in 0..FRAMEBUFFER_NUMBER
  /\ raced \in BOOLEAN /\ stale \in BOOLEAN

(* start_flash_buffer has created the threads.  It passes over a fill      *)
(* thread that cannot be created and ends the program without the others.  *)
(* Semaphores are static and zero.                                         *)
Init ==
  /\ fb_serial = [b \in Box |-> 0] /\ is_displayed = [b \in Box |-> TRUE]
  /\ g_fb_serial = 0 /\ g_ready_fb_serial = 0
  /\ semaphore = [b \in Box |-> 0] /\ flash_semaphore = 0
  /\ f_pc \in [Box -> {"none", "wait"}] /\ f_serial = [b \in Box |-> 0]
  /\ s_pc = "wait" /\ s_i = 0
  /\ t_pc = "scan" /\ t_i = 0
  /\ raced = FALSE /\ stale = FALSE

-----------------------------------------------------------------------------
(* fill_buffer, run by the fill thread of box b.                           *)

Goes(b, from, to) == f_pc[b] = from /\ f_pc' = [f_pc EXCEPT ![b] = to]

(* Mutant: the flag is not looked at.                                      *)
FillWaitOnly(b) ==
  /\ semaphore[b] > 0
  /\ Goes(b, "wait", "read")
  /\ semaphore' = [semaphore EXCEPT ![b] = @ - 1]
  /\ UNCHANGED <<fb_serial, is_displayed, counters, flash_semaphore, f_serial, flash, tick, history>>

(* The thread wakes and looks at the flag; a box that waits to be shown is *)
(* left alone.                                                             *)
FillWait(b) ==
  /\ semaphore[b] > 0
  /\ Goes(b, "wait", IF is_displayed[b] THEN "read" ELSE "wait")
  /\ semaphore' = [semaphore EXCEPT ![b] = @ - 1]
  /\ UNCHANGED <<fb_serial, is_displayed, counters, flash_semaphore, f_serial, flash, tick, history>>

(* g_ready_fb_serial++: the read, and the write.  MaxSerial stops it.      *)
FillRead(b) ==
  /\ Goes(b, "read", "write") /\ g_ready_fb_serial < MaxSerial
  /\ f_serial' = [f_serial EXCEPT ![b] = g_ready_fb_serial]
  /\ raced' = (raced \/ \E other \in Box \ {b} : f_pc[other] \in {"write", "serial"})
  /\ UNCHANGED <<fb_serial, is_displayed, counters, semaphores, flash, tick, stale>>

FillWrite(b) ==
  /\ Goes(b, "write", "serial")
  /\ g_ready_fb_serial' = f_serial[b] + 1
  /\ UNCHANGED <<fb_serial, is_displayed, g_fb_serial, semaphores, f_serial, flash, tick, history>>

(* Mutant: the box is given the serial of the frame after it.              *)
FillSerialNext(b) ==
  /\ Goes(b, "serial", "mark")
  /\ \E serial \in {g_ready_fb_serial, f_serial[b] + 1} :
       fb_serial' = [fb_serial EXCEPT ![b] = serial + 1]
  /\ f_serial' = [f_serial EXCEPT ![b] = 0]
  /\ UNCHANGED <<is_displayed, counters, semaphores, flash, tick, history>>

(* The serial of the box is the counter, read again or kept in a register. *)
FillSerial(b) ==
  /\ Goes(b, "serial", "mark")
  /\ \E serial \in {g_ready_fb_serial, f_serial[b] + 1} :
       fb_serial' = [fb_serial EXCEPT ![b] = serial]
  /\ f_serial' = [f_serial EXCEPT ![b] = 0]
  /\ UNCHANGED <<is_displayed, counters, semaphores, flash, tick, history>>

(* draw_buffer marks the box as one to be shown and then draws it.  A      *)
(* thread that draws is one that is slow to wait for its semaphore.        *)
FillMark(b) ==
  /\ Goes(b, "mark", "wait")
  /\ is_displayed' = [is_displayed EXCEPT ![b] = FALSE]
  /\ UNCHANGED <<fb_serial, counters, semaphores, f_serial, flash, tick, history>>

-----------------------------------------------------------------------------
(* flash_buffer.                                                           *)

FlashWait ==
  /\ s_pc = "wait" /\ flash_semaphore > 0
  /\ flash_semaphore' = flash_semaphore - 1
  /\ s_pc' = "serial" /\ s_i' = 0
  /\ UNCHANGED <<fb_serial, is_displayed, counters, semaphore, fill, tick, history>>

(* Mutant: a box with any serial from the next one on is shown.            *)
NextUpOrLater(serial) == serial = 0 \/ serial - 1 >= g_fb_serial

(* A box that was never filled passes this test too.                       *)
NextUp(serial) == serial = 0 \/ serial - 1 = g_fb_serial

FlashSerial ==
  /\ s_pc = "serial" /\ s_i < FRAMEBUFFER_NUMBER
  /\ IF NextUp(fb_serial[s_i]) THEN s_pc' = "displayed" /\ UNCHANGED s_i
                               ELSE s_i' = s_i + 1 /\ UNCHANGED s_pc
  /\ UNCHANGED <<fb_serial, is_displayed, counters, semaphores, fill, tick, history>>

FlashDone ==
  /\ s_pc = "serial" /\ s_i = FRAMEBUFFER_NUMBER
  /\ s_pc' = "wait"
  /\ UNCHANGED <<fb_serial, is_displayed, counters, semaphores, fill, s_i, tick, history>>

(* show_buffer sets the flag and then shows the box, which the fill thread *)
(* may fill again meanwhile.  Nobody else sets the flag, so that its test  *)
(* and the assignment are one step.                                        *)
FlashDisplayed ==
  /\ s_pc = "displayed"
  /\ IF is_displayed[s_i]
     THEN /\ s_i' = s_i + 1 /\ s_pc' = "serial"
          /\ UNCHANGED <<is_displayed, stale>>
     ELSE /\ is_displayed' = [is_displayed EXCEPT ![s_i] = TRUE]
          /\ s_pc' = "show" /\ UNCHANGED s_i
          /\ stale' = (stale \/ ~NextUp(fb_serial[s_i]))
  /\ UNCHANGED <<fb_serial, counters, semaphores, fill, tick, raced>>

FlashShown ==
  /\ s_pc = "show"
  /\ g_fb_serial' = g_fb_serial + 1
  /\ s_i' = s_i + 1 /\ s_pc' = "serial"
  /\ UNCHANGED <<fb_serial, is_displayed, g_ready_fb_serial, semaphores, fill, tick, history>>

-----------------------------------------------------------------------------
(* time_tick.                                                              *)

Posted(v) == IF v < SemValueMax THEN v + 1 ELSE v

(* The fill thread of the first box that may be filled is woken.  The test *)
(* of the flag and the post are one step: a post that comes later is one   *)
(* whose thread wakes later.                                               *)
TickFill ==
  /\ t_pc = "scan"
  /\ IF t_i = FRAMEBUFFER_NUMBER THEN t_pc' = "flash" /\ UNCHANGED <<semaphore, t_i>>
     ELSE IF is_displayed[t_i]
     THEN t_pc' = "flash" /\ semaphore' = [semaphore EXCEPT ![t_i] = Posted(@)] /\ UNCHANGED t_i
     ELSE t_i' = t_i + 1 /\ UNCHANGED <<semaphore, t_pc>>
  /\ UNCHANGED <<fb_serial, is_displayed, counters, flash_semaphore, fill, flash, history>>

(* Mutant: the flash thread is only woken if no box may be filled.         *)
TickFlashLate ==
  /\ t_pc = "flash" /\ t_pc' = "scan" /\ t_i' = 0
  /\ flash_semaphore' = IF t_i = FRAMEBUFFER_NUMBER THEN Posted(flash_semaphore)
                        ELSE flash_semaphore
  /\ UNCHANGED <<fb_serial, is_displayed, counters, semaphore, fill, flash, history>>

TickFlash ==
  /\ t_pc = "flash" /\ t_pc' = "scan" /\ t_i' = 0
  /\ flash_semaphore' = Posted(flash_semaphore)
  /\ UNCHANGED <<fb_serial, is_displayed, counters, semaphore, fill, flash, history>>

-----------------------------------------------------------------------------
Fill(b) == \/ FillWait(b) \/ FillRead(b) \/ FillWrite(b) \/ FillSerial(b)
           \/ FillMark(b)
Flash == FlashWait \/ FlashSerial \/ FlashDone \/ FlashDisplayed \/ FlashShown
Tick == TickFill \/ TickFlash

Next == (\E b \in Box : Fill(b)) \/ Flash \/ Tick

Spec == Init /\ [][Next]_vars

(* Every thread runs.                                                      *)
FairSpec == Spec /\ (\A b \in Box : WF_vars(Fill(b))) /\ WF_vars(Flash) /\ WF_vars(Tick)

-----------------------------------------------------------------------------
(* Boxes that carry serial n and will be shown under it: marked, about to  *)
(* be marked, or with a thread that has drawn n and not written it yet.    *)
Carriers(n) ==
  {b \in Box : \/ fb_serial[b] = n /\ (~is_displayed[b] \/ f_pc[b] = "mark")
               \/ f_serial[b] + 1 = n /\ f_pc[b] = "serial"}
Shown == IF s_pc = "show" THEN g_fb_serial + 1 ELSE g_fb_serial

(* The flag, which both sides test and set without a lock, hands each      *)
(* frame over once, but for the two races named below: a box whose flag    *)
(* is clear has a frame the flash thread has not taken yet, so that none   *)
(* is taken twice, and a box that is being filled has one that was taken,  *)
(* so that none is filled over before (lines 50, 59-60, 72, 80).  Taken    *)
(* does not mean that it is no longer on show: show_buffer sets the flag   *)
(* before it shows the box (lines 50-51).                                  *)
FrameTakenOnce ==
  raced \/ stale \/
    \A b \in Box :
      /\ ~is_displayed[b] => fb_serial[b] > Shown
      /\ f_pc[b] \in {"read", "write", "serial"} => fb_serial[b] <= Shown

(* Unless two increments met (lines 82-83) or a box was filled between the *)
(* two tests of the flash thread (lines 59-60), each serial handed out and *)
(* not shown yet is with exactly one box, so that the display, which waits *)
(* for one serial after the other, never waits for one that does not come. *)
NoSerialLost ==
  raced \/ stale \/
    \A n \in (Shown + 1)..g_ready_fb_serial : \E b \in Box : Carriers(n) = {b}

(* Whatever fill threads could not be created, as long as the first was:   *)
(* the display goes on, for as many serials as the model has, unless a     *)
(* serial was lost in one of the two ways.  The tick only ever wakes the   *)
(* first box that may be filled, and without its thread none (lines 95-98).*)
DisplayGoesOn ==
  f_pc[0] # "none" => <>(raced \/ stale \/ g_fb_serial = MaxSerial)

-----------------------------------------------------------------------------
(* The inductive invariant.                                                *)

(* What the threads have read stays in range until they use it: a counter  *)
(* that has a successor, an index of a box.                                *)
LocalsInRange ==
  /\ \A b \in Box : f_pc[b] \in {"write", "serial"} => f_serial[b] < MaxSerial
  /\ s_pc \in {"displayed", "show"} => s_i < FRAMEBUFFER_NUMBER

(* A thread only fills a box whose flag is set, and nobody else clears it  *)
(* before the mark (lines 72, 80).                                         *)
FillsFlagged ==
  \A b \in Box : f_pc[b] \in {"read", "write", "serial", "mark"} => is_displayed[b]

(* As long as no two increments met, what a thread has read of the counter *)
(* is still true of it, and no box has a serial that was not handed out.   *)
CounterFollowed ==
  raced \/
    /\ \A b \in Box :
         /\ fb_serial[b] <= g_ready_fb_serial
         /\ f_pc[b] = "write" => f_serial[b] = g_ready_fb_serial
         /\ f_pc[b] = "serial" => f_serial[b] + 1 = g_ready_fb_serial
    /\ \A b, other \in Box :
         f_pc[b] \in {"write", "serial"} /\ f_pc[other] \in {"write", "serial"} => b = other

(* A box has its flag set and is not about to lose it if and only if the   *)
(* display has got as far as its serial.                                   *)
FlagMeansShown ==
  raced \/ stale \/
    \A b \in Box : is_displayed[b] /\ f_pc[b] # "mark" <=> fb_serial[b] <= Shown

(* The display is never ahead of the serials handed out, nor of one that a *)
(* thread has drawn and not written to its box yet.                        *)
DisplayBehind ==
  raced \/ stale \/
    /\ Shown <= g_ready_fb_serial
    /\ \A b \in Box : f_pc[b] = "serial" => Shown < f_serial[b] + 1

(* The invariant of the proofs (flash_fb.c:54-103).                        *)
IInv == /\ TypeOK /\ LocalsInRange /\ FillsFlagged
        /\ CounterFollowed /\ NoSerialLost /\ FlagMeansShown /\ DisplayBehind
=============================================================================
