------------------------- MODULE FlashBufferProofs -------------------------
(***************************************************************************)
(* Proofs about FlashBuffer: for any number of buffers and any semaphore   *)
(* limit, the mutexes keep the fill threads and the flash thread apart.    *)
(***************************************************************************)
EXTENDS FlashBuffer, TLAPS

(* The ring is closed (flash_buffer.c:21-35).                              *)
LEMMA SuccessorInFb == \A b \in Fb : Successor(b) \in Fb
<1> SUFFICES ASSUME NEW b \in Fb PROVE (b + 1) % FRAMEBUFFER_NUMBER \in Fb
  BY DEF Successor
<1>1. FRAMEBUFFER_NUMBER \in Nat \ {0} /\ b + 1 \in Int
  BY BoundAssumption DEF Fb
<1> QED
  BY <1>1 DEF Fb

LEMMA PostedInRange == \A v \in 0..SemValueMax : Posted(v) \in 0..SemValueMax
BY BoundAssumption DEF Posted

LEMMA Start == Init => IInv
<1> SUFFICES ASSUME Init PROVE IInv
  OBVIOUS
<1>0. FRAMEBUFFER_NUMBER \in Nat \ {0} /\ SemValueMax \in Nat \ {0}
  BY BoundAssumption
<1>1. TypeOK
  BY <1>0 DEF Init, TypeOK, Fb
<1>2. MutexesHeld
  BY OwnerAssumption DEF Init, MutexesHeld
<1>3. PointersTogether
  BY DEF Init, PointersTogether
<1> QED
  BY <1>1, <1>2, <1>3 DEF IInv

LEMMA FillStep == ASSUME IInv, NEW b \in Fb, Fill(b) PROVE IInv'
<1> USE DEF IInv, Goes
<1>0. PointersTogether'
  BY DEF Fill, FillWait, FillLock, FillDraw, FillUnlock, pointers, PointersTogether, Successor
<1>1. CASE FillWait(b)
  <2>1. semaphore[b] \in 0..SemValueMax /\ semaphore[b] > 0
    BY <1>1 DEF FillWait, TypeOK
  <2>2. semaphore[b] - 1 \in 0..SemValueMax
    BY <2>1, BoundAssumption
  <2>3. TypeOK'
    BY <1>1, <2>2 DEF FillWait, TypeOK, pointers, flash
  <2>4. MutexesHeld'
    BY <1>1 DEF FillWait, MutexesHeld, TypeOK, flash
  <2> QED
    BY <1>0, <2>3, <2>4
<1>2. CASE FillLock(b)
  <2>1. TypeOK'
    BY <1>2 DEF FillLock, TypeOK, pointers, semaphores, flash
  <2>2. MutexesHeld'
    BY <1>2, OwnerAssumption DEF FillLock, MutexesHeld, TypeOK, flash
  <2> QED
    BY <1>0, <2>1, <2>2
<1>3. CASE FillDraw(b)
  <2>1. TypeOK'
    BY <1>3 DEF FillDraw, TypeOK, pointers, semaphores, flash
  <2>2. MutexesHeld'
    BY <1>3 DEF FillDraw, MutexesHeld, TypeOK, flash
  <2> QED
    BY <1>0, <2>1, <2>2
<1>4. CASE FillUnlock(b)
  <2>1. TypeOK'
    BY <1>4 DEF FillUnlock, TypeOK, pointers, semaphores, flash
  <2>2. MutexesHeld'
    BY <1>4, OwnerAssumption DEF FillUnlock, MutexesHeld, TypeOK, flash
  <2> QED
    BY <1>0, <2>1, <2>2
<1> QED
  BY <1>0, <1>1, <1>2, <1>3, <1>4 DEF Fill

LEMMA FlashStep == ASSUME IInv, Flash PROVE IInv'
<1> USE DEF IInv
<1>0. PointersTogether'
  BY DEF Flash, FlashWait, FlashFront, FlashTryLock, FlashUnlock, pointers, PointersTogether,
         Successor
<1>1. CASE FlashWait
  <2>1. flash_semaphore - 1 \in 0..SemValueMax
    BY <1>1, BoundAssumption DEF FlashWait, TypeOK
  <2>2. TypeOK'
    BY <1>1, <2>1 DEF FlashWait, TypeOK, pointers
  <2>3. MutexesHeld'
    BY <1>1 DEF FlashWait, MutexesHeld
  <2> QED
    BY <1>0, <2>2, <2>3
<1>2. CASE FlashFront
  <2>1. TypeOK'
    BY <1>2 DEF FlashFront, TypeOK, pointers, semaphores
  <2>2. MutexesHeld'
    BY <1>2 DEF FlashFront, MutexesHeld
  <2> QED
    BY <1>0, <2>1, <2>2
<1>3. CASE FlashTryLock
  <2>1. TypeOK'
    BY <1>3 DEF FlashTryLock, TypeOK, pointers, semaphores
  <2>2. MutexesHeld'
    BY <1>3, OwnerAssumption DEF FlashTryLock, MutexesHeld, TypeOK
  <2> QED
    BY <1>0, <2>1, <2>2
<1>4. CASE FlashUnlock
  <2>1. TypeOK'
    BY <1>4 DEF FlashUnlock, TypeOK, pointers, semaphores
  <2>2. MutexesHeld'
    BY <1>4, OwnerAssumption DEF FlashUnlock, MutexesHeld, TypeOK
  <2> QED
    BY <1>0, <2>1, <2>2
<1> QED
  BY <1>0, <1>1, <1>2, <1>3, <1>4 DEF Flash

LEMMA TickStep == ASSUME IInv, Tick PROVE IInv'
<1> USE DEF IInv
<1>1. MutexesHeld'
  BY DEF Tick, TickBack, TickFlash, TickFront, MutexesHeld, pointers, flash
<1>0. PointersTogether'
  BY DEF Tick, TickBack, TickFlash, TickFront, pointers, PointersTogether, Successor
<1>2. CASE TickBack
  BY <1>0, <1>1, <1>2, SuccessorInFb, PostedInRange DEF TickBack, TypeOK, flash
<1>3. CASE TickFlash
  BY <1>0, <1>1, <1>3, PostedInRange DEF TickFlash, TypeOK, pointers, flash
<1>4. CASE TickFront
  BY <1>0, <1>1, <1>4, SuccessorInFb DEF TickFront, TypeOK, semaphores, flash
<1> QED
  BY <1>2, <1>3, <1>4 DEF Tick

-----------------------------------------------------------------------------
(* Each mutex is held by the thread inside the section it guards           *)
(* (flash_buffer.c:43-88).                                                 *)
THEOREM Invariant == Spec => []IInv
<1>1. ASSUME IInv, [Next]_vars PROVE IInv'
  <2>1. CASE UNCHANGED vars
    BY <1>1, <2>1 DEF vars, pointers, semaphores, flash, IInv, TypeOK, MutexesHeld,
                      PointersTogether, Successor
  <2> QED
    BY <1>1, <2>1, FillStep, FlashStep, TickStep DEF Next
<1> QED
  BY <1>1, Start, PTL DEF Spec

(* No buffer is drawn while it is on show (flash_buffer.c:47-51, 70-73).   *)
THEOREM Exclusion == Spec => []NotDrawnOnShow
<1>1. IInv => NotDrawnOnShow
  BY OwnerAssumption DEF IInv, MutexesHeld, NotDrawnOnShow
<1> QED
  BY <1>1, Invariant, PTL

(* A fill thread only ever waits for the screen, and not for a thread that *)
(* waits itself (flash_buffer.c:48-51, 69-73).                             *)
THEOREM ScreenBlocks == Spec => []OnlyShowBlocks
<1>1. ASSUME IInv PROVE OnlyShowBlocks
  <2> SUFFICES ASSUME NEW b \in Fb, f_pc[b] = "lock", mutex_lock[b] # Nobody
               PROVE  s_pc = "show" /\ front_fb = b
    BY DEF OnlyShowBlocks
  <2>1. mutex_lock[b] = Flasher
    BY <1>1 DEF IInv, MutexesHeld
  <2> QED
    BY <1>1, <2>1 DEF IInv, MutexesHeld
<1> QED
  BY <1>1, Invariant, PTL

(* However late the threads run, the tick keeps both pointers on one       *)
(* buffer (flash_buffer.c:80-88).                                          *)
THEOREM Together == Spec => []PointersTogether
<1>1. IInv => PointersTogether
  BY DEF IInv
<1> QED
  BY <1>1, Invariant, PTL
=============================================================================
