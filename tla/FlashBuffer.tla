---------------------------- MODULE FlashBuffer ----------------------------
(***************************************************************************)
(* The first display model, examples/input_show/flash_buffer.c: a ring of  *)
(* buffers with a mutex and a fill thread each.  At every tick the fill    *)
(* thread of g_back_fb and the flash thread are woken, and g_back_fb and   *)
(* g_front_fb move on; the flash thread shows g_front_fb if it can have    *)
(* its mutex at once.  The numbers drawn into the buffers are only logged  *)
(* and left out.                                                           *)
(***************************************************************************)
EXTENDS Integers

CONSTANTS FRAMEBUFFER_NUMBER,  \* number of buffers
          SemValueMax,         \* largest value of a semaphore
          Flasher, Nobody      \* owners of a mutex; a fill thread is its buffer

Fb == 0..(FRAMEBUFFER_NUMBER - 1)

ASSUME BoundAssumption == {FRAMEBUFFER_NUMBER, SemValueMax} \subseteq Nat \ {0}
ASSUME OwnerAssumption == Flasher \notin Fb /\ Nobody \notin Fb \cup {Flasher}

VARIABLES
  g_front_fb, g_back_fb,
  mutex_lock, semaphore, flash_semaphore,
  f_pc,            \* position of each fill thread
  s_pc, front_fb,  \* flash thread: position, the buffer it has read
  t_pc             \* position of the tick

pointers == <<g_front_fb, g_back_fb>>
semaphores == <<semaphore, flash_semaphore>>
flash == <<s_pc, front_fb>>
vars == <<pointers, mutex_lock, semaphores, f_pc, flash, t_pc>>

TypeOK ==
  /\ g_front_fb \in Fb /\ g_back_fb \in Fb
  /\ mutex_lock \in [Fb -> Fb \cup {Flasher, Nobody}]
  /\ semaphore \in [Fb -> 0..SemValueMax] /\ flash_semaphore \in 0..SemValueMax
  /\ f_pc \in [Fb -> {"none", "wait", "lock", "draw", "unlock"}]
  /\ s_pc \in {"wait", "front", "lock", "show"} /\ front_fb \in Fb
  /\ t_pc \in {"back", "flash", "front"}

(* Both pointers are at the last buffer.  start_flash_buffer passes over a *)
(* fill thread that cannot be created and ends the program without one of  *)
(* the others.                                                             *)
Init ==
  /\ g_front_fb = FRAMEBUFFER_NUMBER - 1 /\ g_back_fb = FRAMEBUFFER_NUMBER - 1
  /\ mutex_lock = [b \in Fb |-> Nobody]
  /\ semaphore = [b \in Fb |-> 0] /\ flash_semaphore = 0
  /\ f_pc \in [Fb -> {"none", "wait"}]
  /\ s_pc = "wait" /\ front_fb = 0
  /\ t_pc = "back"

Successor(b) == (b + 1) % FRAMEBUFFER_NUMBER  \* b->next

-----------------------------------------------------------------------------
(* fill_buffer, run by the fill thread of buffer b.                        *)

Goes(b, from, to) == f_pc[b] = from /\ f_pc' = [f_pc EXCEPT ![b] = to]

FillWait(b) ==
  /\ Goes(b, "wait", "lock") /\ semaphore[b] > 0
  /\ semaphore' = [semaphore EXCEPT ![b] = @ - 1]
  /\ UNCHANGED <<pointers, mutex_lock, flash_semaphore, flash, t_pc>>

(* Mutant: the thread draws whether it has the mutex or not.               *)
FillLockNot(b) ==
  /\ Goes(b, "lock", "draw")
  /\ mutex_lock' = [mutex_lock EXCEPT ![b] = b]
  /\ UNCHANGED <<pointers, semaphores, flash, t_pc>>

FillLock(b) ==
  /\ Goes(b, "lock", "draw") /\ mutex_lock[b] = Nobody
  /\ mutex_lock' = [mutex_lock EXCEPT ![b] = b]
  /\ UNCHANGED <<pointers, semaphores, flash, t_pc>>

FillDraw(b) ==
  /\ Goes(b, "draw", "unlock")
  /\ UNCHANGED <<pointers, mutex_lock, semaphores, flash, t_pc>>

FillUnlock(b) ==
  /\ Goes(b, "unlock", "wait")
  /\ mutex_lock' = [mutex_lock EXCEPT ![b] = Nobody]
  /\ UNCHANGED <<pointers, semaphores, flash, t_pc>>

-----------------------------------------------------------------------------
(* flash_buffer.                                                           *)

FlashWait ==
  /\ s_pc = "wait" /\ s_pc' = "front" /\ flash_semaphore > 0
  /\ flash_semaphore' = flash_semaphore - 1
  /\ UNCHANGED <<pointers, mutex_lock, semaphore, f_pc, front_fb, t_pc>>

(* The tick may have moved g_front_fb since it woke this thread, or not.   *)
FlashFront ==
  /\ s_pc = "front" /\ s_pc' = "lock"
  /\ front_fb' = g_front_fb
  /\ UNCHANGED <<pointers, mutex_lock, semaphores, f_pc, t_pc>>

FlashTryLock ==
  /\ s_pc = "lock"
  /\ IF mutex_lock[front_fb] = Nobody
     THEN s_pc' = "show" /\ mutex_lock' = [mutex_lock EXCEPT ![front_fb] = Flasher]
     ELSE s_pc' = "wait" /\ UNCHANGED mutex_lock
  /\ UNCHANGED <<pointers, semaphores, f_pc, front_fb, t_pc>>

(* Mutant: the buffer is left locked.                                      *)
FlashKeepLock ==
  /\ s_pc = "show" /\ s_pc' = "wait"
  /\ UNCHANGED <<pointers, mutex_lock, semaphores, f_pc, front_fb, t_pc>>

(* Mutant: the mutex of g_front_fb is unlocked, which may have moved on.   *)
FlashUnlockFront ==
  /\ s_pc = "show" /\ s_pc' = "wait"
  /\ mutex_lock' = [mutex_lock EXCEPT ![g_front_fb] = Nobody]
  /\ UNCHANGED <<pointers, semaphores, f_pc, front_fb, t_pc>>

FlashUnlock ==
  /\ s_pc = "show" /\ s_pc' = "wait"
  /\ mutex_lock' = [mutex_lock EXCEPT ![front_fb] = Nobody]
  /\ UNCHANGED <<pointers, semaphores, f_pc, front_fb, t_pc>>

-----------------------------------------------------------------------------
(* time_tick.                                                              *)

Posted(v) == IF v < SemValueMax THEN v + 1 ELSE v

TickBack ==
  /\ t_pc = "back" /\ t_pc' = "flash"
  /\ semaphore' = [semaphore EXCEPT ![g_back_fb] = Posted(@)]
  /\ g_back_fb' = Successor(g_back_fb)
  /\ UNCHANGED <<g_front_fb, mutex_lock, flash_semaphore, f_pc, flash>>

TickFlash ==
  /\ t_pc = "flash" /\ t_pc' = "front"
  /\ flash_semaphore' = Posted(flash_semaphore)
  /\ UNCHANGED <<pointers, mutex_lock, semaphore, f_pc, flash>>

TickFront ==
  /\ t_pc = "front" /\ t_pc' = "back"
  /\ g_front_fb' = Successor(g_front_fb)
  /\ UNCHANGED <<g_back_fb, mutex_lock, semaphores, f_pc, flash>>

-----------------------------------------------------------------------------
Fill(b) == FillWait(b) \/ FillLock(b) \/ FillDraw(b) \/ FillUnlock(b)
Flash == FlashWait \/ FlashFront \/ FlashTryLock \/ FlashUnlock
Tick == TickBack \/ TickFlash \/ TickFront

Next == (\E b \in Fb : Fill(b)) \/ Flash \/ Tick

Spec == Init /\ [][Next]_vars

(* Every thread runs, and a fill thread gets its mutex, which it shares    *)
(* with the flash thread only, if it is free again and again.              *)
FairSpec == /\ Spec
            /\ \A b \in Fb : WF_vars(Fill(b)) /\ SF_vars(FillLock(b))
            /\ WF_vars(Flash) /\ WF_vars(Tick)

-----------------------------------------------------------------------------
(* A buffer that is drawn is not on show (the comment on line 70), however *)
(* late the flash thread uses the pointer it has read (lines 47-51).       *)
NotDrawnOnShow ==
  \A b \in Fb : f_pc[b] \in {"draw", "unlock"} => ~(s_pc = "show" /\ front_fb = b)

(* A fill thread that finds its mutex taken only waits for the flash       *)
(* thread, which shows its buffer, unlocks it when it is done and waits    *)
(* for no mutex itself (lines 48-51, 69-73).                               *)
OnlyShowBlocks ==
  \A b \in Fb : f_pc[b] = "lock" /\ mutex_lock[b] # Nobody => s_pc = "show" /\ front_fb = b

(* Every buffer that has a fill thread is drawn again and again, although  *)
(* the flash thread may show it for as long as it likes.                   *)
EveryBufferDrawn == \A b \in Fb : f_pc[b] # "none" => []<>(f_pc[b] = "draw")

-----------------------------------------------------------------------------
(* The inductive invariant.                                                *)

(* A mutex is held by the thread between its lock and its unlock, and the  *)
(* flash thread unlocks the buffer it has locked although g_front_fb has   *)
(* moved on (lines 48-49, 70-73).                                          *)
MutexesHeld ==
  \A b \in Fb :
    /\ mutex_lock[b] \in {b, Flasher, Nobody}
    /\ (mutex_lock[b] = b) <=> f_pc[b] \in {"draw", "unlock"}
    /\ (mutex_lock[b] = Flasher) <=> (s_pc = "show" /\ front_fb = b)

(* The tick wakes the fill thread of a buffer and sends the flash thread   *)
(* to the same buffer: g_front_fb never lags behind g_back_fb, so that     *)
(* only the order of the threads decides whether a buffer is shown before  *)
(* or after it is drawn (lines 22-34, 80-88).                              *)
PointersTogether ==
  g_back_fb = IF t_pc = "back" THEN g_front_fb ELSE Successor(g_front_fb)

(* The invariant of the proofs (flash_buffer.c:43-88).                     *)
IInv == TypeOK /\ MutexesHeld /\ PointersTogether
=============================================================================
