---------------------------- MODULE FlashFbProofs ----------------------------
(***************************************************************************)
(* Proofs about FlashFb, for any number of boxes, any semaphore limit and  *)
(* any number of serials: flag and serial of a box agree on whether it has *)
(* been shown, and a serial is only lost in one of two races.             *)
(***************************************************************************)
EXTENDS FlashFb, TLAPS

(* The part of the invariant that does not compare serials.                *)
LocalInv == TypeOK /\ LocalsInRange /\ FillsFlagged

LEMMA PostedInRange == \A v \in 0..SemValueMax : Posted(v) \in 0..SemValueMax
BY BoundAssumption DEF Posted

LEMMA Start == Init => LocalInv
<1> SUFFICES ASSUME Init PROVE LocalInv
  OBVIOUS
<1>0. FRAMEBUFFER_NUMBER \in Nat \ {0} /\ SemValueMax \in Nat \ {0} /\ MaxSerial \in Nat
  BY BoundAssumption
<1>1. TypeOK
  <2>1. fb_serial \in [Box -> 0..MaxSerial] /\ f_serial \in [Box -> 0..MaxSerial]
    BY <1>0 DEF Init
  <2>2. g_fb_serial \in Nat /\ g_ready_fb_serial \in 0..MaxSerial
    BY <1>0 DEF Init
  <2>3. semaphore \in [Box -> 0..SemValueMax] /\ flash_semaphore \in 0..SemValueMax
    BY <1>0 DEF Init
  <2>4. s_pc = "wait" /\ s_i \in 0..FRAMEBUFFER_NUMBER /\ t_pc = "scan" /\ t_i \in 0..FRAMEBUFFER_NUMBER
    BY <1>0 DEF Init
  <2>5. is_displayed \in [Box -> BOOLEAN] /\ raced \in BOOLEAN /\ stale \in BOOLEAN
    BY DEF Init
  <2>6. f_pc \in [Box -> {"none", "wait", "read", "write", "serial", "mark"}]
    BY DEF Init
  <2> QED
    BY <2>1, <2>2, <2>3, <2>4, <2>5, <2>6 DEF TypeOK
<1>2. LocalsInRange /\ FillsFlagged
  BY DEF Init, LocalsInRange, FillsFlagged
<1> QED
  BY <1>1, <1>2 DEF LocalInv

LEMMA FillStep == ASSUME LocalInv, NEW b \in Box, Fill(b) PROVE LocalInv'
<1> USE DEF LocalInv, Goes
<1>0. FRAMEBUFFER_NUMBER \in Nat \ {0} /\ SemValueMax \in Nat \ {0} /\ MaxSerial \in Nat
  BY BoundAssumption
<1>1. CASE FillWait(b)
  <2>1. semaphore[b] - 1 \in 0..SemValueMax
    BY <1>0, <1>1 DEF FillWait, TypeOK
  <2>2. TypeOK'
    BY <1>1, <2>1 DEF FillWait, TypeOK, counters, flash, tick, history
  <2>3. LocalsInRange'
    BY <1>1 DEF FillWait, TypeOK, LocalsInRange, flash
  <2>4. FillsFlagged'
    BY <1>1 DEF FillWait, TypeOK, FillsFlagged
  <2> QED
    BY <2>2, <2>3, <2>4
<1>2. CASE FillRead(b)
  <2>1. TypeOK'
    BY <1>2 DEF FillRead, TypeOK, counters, semaphores, flash, tick
  <2>2. LocalsInRange'
    BY <1>2 DEF FillRead, TypeOK, LocalsInRange, flash
  <2>3. FillsFlagged'
    BY <1>2 DEF FillRead, TypeOK, FillsFlagged
  <2> QED
    BY <2>1, <2>2, <2>3
<1>3. CASE FillWrite(b)
  <2>1. f_serial[b] + 1 \in 0..MaxSerial
    BY <1>0, <1>3 DEF FillWrite, TypeOK, LocalsInRange
  <2>2. TypeOK'
    BY <1>3, <2>1 DEF FillWrite, TypeOK, semaphores, flash, tick, history
  <2>3. LocalsInRange'
    BY <1>3 DEF FillWrite, TypeOK, LocalsInRange, flash
  <2>4. FillsFlagged'
    BY <1>3 DEF FillWrite, TypeOK, FillsFlagged
  <2> QED
    BY <2>2, <2>3, <2>4
<1>4. CASE FillSerial(b)
  <2>1. f_serial[b] + 1 \in 0..MaxSerial /\ g_ready_fb_serial \in 0..MaxSerial
    BY <1>0, <1>4 DEF FillSerial, TypeOK, LocalsInRange
  <2>2. PICK serial \in 0..MaxSerial : fb_serial' = [fb_serial EXCEPT ![b] = serial]
    BY <1>4, <2>1 DEF FillSerial
  <2>3. TypeOK'
    BY <1>0, <1>4, <2>2 DEF FillSerial, TypeOK, counters, semaphores, flash, tick, history
  <2>4. LocalsInRange'
    BY <1>4 DEF FillSerial, TypeOK, LocalsInRange, flash
  <2>5. FillsFlagged'
    BY <1>4 DEF FillSerial, TypeOK, FillsFlagged
  <2> QED
    BY <2>3, <2>4, <2>5
<1>5. CASE FillMark(b)
  <2>1. TypeOK'
    BY <1>5 DEF FillMark, TypeOK, counters, semaphores, flash, tick, history
  <2>2. LocalsInRange'
    BY <1>5 DEF FillMark, TypeOK, LocalsInRange, flash
  <2>3. FillsFlagged'
    BY <1>5 DEF FillMark, TypeOK, FillsFlagged
  <2> QED
    BY <2>1, <2>2, <2>3
<1> QED
  BY <1>1, <1>2, <1>3, <1>4, <1>5 DEF Fill

(* The flash thread only ever sets flags, which takes no box away.         *)
LEMMA FlashStep == ASSUME LocalInv, Flash PROVE LocalInv'
<1> USE DEF LocalInv
<1>0. FRAMEBUFFER_NUMBER \in Nat \ {0} /\ SemValueMax \in Nat \ {0}
  BY BoundAssumption
<1>1. CASE FlashWait
  <2>1. flash_semaphore - 1 \in 0..SemValueMax
    BY <1>0, <1>1 DEF FlashWait, TypeOK
  <2> QED
    BY <1>0, <1>1, <2>1
       DEF FlashWait, TypeOK, LocalsInRange, FillsFlagged, counters, fill, tick, history
<1>2. CASE FlashSerial
  <2>1. s_i + 1 \in 0..FRAMEBUFFER_NUMBER
    BY <1>0, <1>2 DEF FlashSerial, TypeOK
  <2> QED
    BY <1>0, <1>2, <2>1 DEF FlashSerial, TypeOK, LocalsInRange, FillsFlagged, counters,
                            semaphores, fill, tick, history
<1>3. CASE FlashDone
  BY <1>3 DEF FlashDone, TypeOK, LocalsInRange, FillsFlagged, counters, semaphores, fill,
              tick, history
<1>4. CASE FlashDisplayed
  <2>1. s_i \in Box /\ s_i + 1 \in 0..FRAMEBUFFER_NUMBER
    BY <1>0, <1>4 DEF FlashDisplayed, TypeOK, LocalsInRange, Box
  <2>2. stale' \in BOOLEAN
    BY <1>4 DEF FlashDisplayed, TypeOK
  <2>3. is_displayed' \in [Box -> BOOLEAN] /\ \A b \in Box : is_displayed[b] => is_displayed'[b]
    BY <1>4, <2>1 DEF FlashDisplayed, TypeOK
  <2>4. TypeOK'
    BY <1>4, <2>1, <2>2, <2>3 DEF FlashDisplayed, TypeOK, counters, semaphores, fill, tick
  <2>5. LocalsInRange'
    BY <1>4 DEF FlashDisplayed, LocalsInRange, fill
  <2>6. FillsFlagged'
    BY <1>4, <2>3 DEF FlashDisplayed, FillsFlagged, fill
  <2> QED
    BY <2>4, <2>5, <2>6
<1>5. CASE FlashShown
  <2>1. s_i + 1 \in 0..FRAMEBUFFER_NUMBER
    BY <1>0, <1>5 DEF FlashShown, TypeOK, LocalsInRange
  <2> QED
    BY <1>5, <2>1 DEF FlashShown, TypeOK, LocalsInRange, FillsFlagged, semaphores, fill,
                      tick, history
<1> QED
  BY <1>1, <1>2, <1>3, <1>4, <1>5 DEF Flash

LEMMA TickStep == ASSUME LocalInv, Tick PROVE LocalInv'
<1> USE DEF LocalInv
<1>0. FRAMEBUFFER_NUMBER \in Nat \ {0} /\ SemValueMax \in Nat \ {0}
  BY BoundAssumption
<1>1. LocalsInRange' /\ FillsFlagged'
  BY DEF Tick, TickFill, TickFlash, LocalsInRange, FillsFlagged, fill, flash
<1>2. CASE TickFill
  <2>1. semaphore' \in [Box -> 0..SemValueMax] /\ t_i' \in 0..FRAMEBUFFER_NUMBER
        /\ t_pc' \in {"scan", "flash"}
    <3>1. CASE t_i = FRAMEBUFFER_NUMBER
      BY <1>2, <3>1 DEF TickFill, TypeOK
    <3>2. CASE t_i # FRAMEBUFFER_NUMBER
      <4>1. t_i \in Box /\ t_i + 1 \in 0..FRAMEBUFFER_NUMBER
        BY <1>0, <3>2 DEF TypeOK, Box
      <4> QED
        BY <1>2, <3>2, <4>1, PostedInRange DEF TickFill, TypeOK
    <3> QED
      BY <3>1, <3>2
  <2> QED
    BY <1>1, <1>2, <2>1 DEF TickFill, TypeOK, counters, fill, flash, history
<1>3. CASE TickFlash
  BY <1>0, <1>1, <1>3, PostedInRange DEF TickFlash, TypeOK, counters, fill, flash, history
<1> QED
  BY <1>2, <1>3 DEF Tick

LEMMA LocalStep == ASSUME LocalInv, [Next]_vars PROVE LocalInv'
<1>1. CASE UNCHANGED vars
  BY <1>1 DEF vars, counters, semaphores, fill, flash, tick, history, LocalInv, TypeOK,
              LocalsInRange, FillsFlagged
<1> QED
  BY <1>1, FillStep, FlashStep, TickStep DEF Next

-----------------------------------------------------------------------------
(* Serials.                                                                *)

(* A thread that reads the counter while no other has read and not used it *)
(* is the only one that knows the counter's value.                         *)
LEMMA CounterStep ==
  ASSUME LocalInv, CounterFollowed, [Next]_vars PROVE CounterFollowed'
<1> SUFFICES ASSUME ~raced' PROVE CounterFollowed'
  BY DEF CounterFollowed
<1> USE DEF LocalInv, CounterFollowed, Goes
<1>0. MaxSerial \in Nat /\ \A b \in Box : fb_serial[b] \in Nat /\ f_serial[b] \in Nat
      /\ g_ready_fb_serial \in Nat
  BY BoundAssumption DEF TypeOK
<1>1. ASSUME NEW b \in Box, FillWait(b) PROVE CounterFollowed'
  BY <1>1 DEF FillWait, TypeOK, counters, history
<1>2. ASSUME NEW b \in Box, FillRead(b) PROVE CounterFollowed'
  BY <1>0, <1>2 DEF FillRead, TypeOK, counters
<1>3. ASSUME NEW b \in Box, FillWrite(b) PROVE CounterFollowed'
  BY <1>0, <1>3 DEF FillWrite, TypeOK, history
<1>4. ASSUME NEW b \in Box, FillSerial(b) PROVE CounterFollowed'
  <2>1. fb_serial' = [fb_serial EXCEPT ![b] = g_ready_fb_serial]
    BY <1>4 DEF FillSerial, history
  <2> QED
    BY <1>0, <1>4, <2>1 DEF FillSerial, TypeOK, counters, history
<1>5. ASSUME NEW b \in Box, FillMark(b) PROVE CounterFollowed'
  BY <1>5 DEF FillMark, TypeOK, counters, history
<1>6. CASE Flash
  BY <1>6 DEF Flash, FlashWait, FlashSerial, FlashDone, FlashDisplayed, FlashShown,
              counters, fill, history
<1>7. CASE Tick
  BY <1>7 DEF Tick, TickFill, TickFlash, counters, fill, history
<1>8. CASE UNCHANGED vars
  BY <1>8 DEF vars, counters, fill, history
<1> QED
  BY <1>1, <1>2, <1>3, <1>4, <1>5, <1>6, <1>7, <1>8 DEF Next, Fill

LEMMA LaterInterval ==
  \A a, b, c \in Nat : b >= a => (b + 1)..c \subseteq (a + 1)..c
OBVIOUS

(* When a step leaves the carriers of the serials not shown as they are,   *)
(* none is lost.                                                           *)
LEMMA SameCarriers ==
  ASSUME TypeOK, NoSerialLost, ~raced, ~stale,
         g_ready_fb_serial' = g_ready_fb_serial, Shown' \in Nat, Shown' >= Shown,
         \A n \in (Shown' + 1)..g_ready_fb_serial : Carriers(n)' = Carriers(n)
  PROVE  NoSerialLost'
<1>1. Shown \in Nat /\ g_ready_fb_serial \in Nat
  BY BoundAssumption DEF TypeOK, Shown
<1>2. (Shown' + 1)..g_ready_fb_serial \subseteq (Shown + 1)..g_ready_fb_serial
  BY <1>1, LaterInterval
<1>3. \A n \in (Shown' + 1)..g_ready_fb_serial : \E b \in Box : Carriers(n)' = {b}
  BY <1>2 DEF NoSerialLost
<1> QED
  BY <1>3 DEF NoSerialLost

(* A serial passes from the thread that has drawn it to its box, and stays *)
(* there until the flash thread has come to it.                            *)
LEMMA SerialStep ==
  ASSUME LocalInv, CounterFollowed, NoSerialLost, [Next]_vars PROVE NoSerialLost'
<1> SUFFICES ASSUME ~raced', ~stale' PROVE NoSerialLost'
  BY DEF NoSerialLost
<1> USE DEF LocalInv, Goes
<1>0. /\ MaxSerial \in Nat /\ g_ready_fb_serial \in Nat /\ g_fb_serial \in Nat
      /\ \A b \in Box : fb_serial[b] \in Nat /\ f_serial[b] \in Nat
      /\ Shown \in Nat
  BY BoundAssumption DEF TypeOK, Shown
<1>a. ~raced /\ ~stale
  BY DEF Next, Fill, FillWait, FillRead, FillWrite, FillSerial, FillMark, Flash, FlashWait,
     FlashSerial, FlashDone, FlashDisplayed, FlashShown, Tick, TickFill, TickFlash, history,
     vars, TypeOK
<1>1. ASSUME NEW b \in Box, FillWait(b) PROVE NoSerialLost'
  <2>1. Shown' = Shown /\ g_ready_fb_serial' = g_ready_fb_serial
    BY <1>1 DEF FillWait, Shown, flash, counters
  <2>2. \A n : Carriers(n)' = Carriers(n)
    BY <1>1 DEF FillWait, Carriers, TypeOK
  <2> QED
    BY <1>0, <1>a, <2>1, <2>2, SameCarriers
<1>2. ASSUME NEW b \in Box, FillRead(b) PROVE NoSerialLost'
  <2>1. Shown' = Shown /\ g_ready_fb_serial' = g_ready_fb_serial
    BY <1>2 DEF FillRead, Shown, flash, counters
  <2>2. \A n : Carriers(n)' = Carriers(n)
    BY <1>2 DEF FillRead, Carriers, TypeOK
  <2> QED
    BY <1>0, <1>a, <2>1, <2>2, SameCarriers
<1>3. ASSUME NEW b \in Box, FillWrite(b) PROVE NoSerialLost'
  <2>1. Shown' = Shown /\ g_ready_fb_serial' = g_ready_fb_serial + 1
    BY <1>0, <1>3, <1>a DEF FillWrite, Shown, flash, CounterFollowed
  <2>2. f_serial[b] = g_ready_fb_serial /\ is_displayed[b]
    BY <1>3, <1>a DEF FillWrite, CounterFollowed, FillsFlagged
  <2>3. \A n \in (Shown + 1)..g_ready_fb_serial : Carriers(n)' = Carriers(n)
    BY <1>0, <1>3, <2>2 DEF FillWrite, Carriers, TypeOK
  <2>4. ASSUME NEW n, n = g_ready_fb_serial + 1
        PROVE  Carriers(n)' = {b}
    <3>1. \A other \in Box : fb_serial[other] # g_ready_fb_serial + 1
      BY <1>0, <1>a DEF CounterFollowed
    <3>2. \A other \in Box \ {b} : f_pc[other] # "serial"
      BY <1>3, <1>a DEF FillWrite, CounterFollowed
    <3> QED
      BY <1>0, <1>3, <2>2, <2>4, <3>1, <3>2 DEF FillWrite, Carriers, TypeOK
  <2>5. ASSUME NEW n \in (Shown + 1)..(g_ready_fb_serial + 1)
        PROVE  \E other \in Box : Carriers(n)' = {other}
    <3>1. CASE n = g_ready_fb_serial + 1
      BY <2>4, <3>1
    <3>2. CASE n # g_ready_fb_serial + 1
      <4>1. n \in (Shown + 1)..g_ready_fb_serial
        BY <1>0, <3>2
      <4> QED
        BY <1>a, <2>3, <4>1 DEF NoSerialLost
    <3> QED
      BY <3>1, <3>2
  <2> QED
    BY <2>1, <2>5 DEF NoSerialLost
<1>4. ASSUME NEW b \in Box, FillSerial(b) PROVE NoSerialLost'
  <2>1. Shown' = Shown /\ g_ready_fb_serial' = g_ready_fb_serial
    BY <1>4 DEF FillSerial, Shown, flash, counters
  <2>2. /\ fb_serial' = [fb_serial EXCEPT ![b] = g_ready_fb_serial]
        /\ f_serial[b] + 1 = g_ready_fb_serial /\ is_displayed[b]
    BY <1>4, <1>a DEF FillSerial, CounterFollowed, FillsFlagged
  <2>3. \A n \in Nat : Carriers(n)' = Carriers(n)
    BY <1>0, <1>4, <2>2 DEF FillSerial, Carriers, TypeOK
  <2> QED
    BY <1>0, <1>a, <2>1, <2>3, SameCarriers
<1>5. ASSUME NEW b \in Box, FillMark(b) PROVE NoSerialLost'
  <2>1. Shown' = Shown /\ g_ready_fb_serial' = g_ready_fb_serial
    BY <1>5 DEF FillMark, Shown, flash, counters
  <2>2. \A n : Carriers(n)' = Carriers(n)
    BY <1>5 DEF FillMark, Carriers, TypeOK
  <2> QED
    BY <1>0, <1>a, <2>1, <2>2, SameCarriers
<1>6. CASE FlashWait \/ FlashSerial \/ FlashDone \/ FlashShown
  <2>1. Shown' = Shown /\ g_ready_fb_serial' = g_ready_fb_serial
    BY <1>6 DEF FlashWait, FlashSerial, FlashDone, FlashShown, Shown, counters
  <2>2. \A n : Carriers(n)' = Carriers(n)
    BY <1>6 DEF FlashWait, FlashSerial, FlashDone, FlashShown, Carriers, fill
  <2> QED
    BY <1>0, <1>a, <2>1, <2>2, SameCarriers
<1>7. CASE FlashDisplayed
  <2>1. s_i \in Box
    BY <1>7, BoundAssumption DEF FlashDisplayed, TypeOK, LocalsInRange, Box
  <2>2. g_ready_fb_serial' = g_ready_fb_serial
    BY <1>7 DEF FlashDisplayed, counters
  <2>3. CASE is_displayed[s_i]
    <3>1. Shown' = Shown
      BY <1>7, <2>3 DEF FlashDisplayed, Shown, counters
    <3>2. \A n : Carriers(n)' = Carriers(n)
      BY <1>7, <2>3 DEF FlashDisplayed, Carriers, fill
    <3> QED
      BY <1>0, <1>a, <2>2, <3>1, <3>2, SameCarriers
  <2>4. CASE ~is_displayed[s_i]
    <3>1. Shown' = g_fb_serial + 1 /\ Shown = g_fb_serial
      BY <1>7, <2>4 DEF FlashDisplayed, Shown, counters
    <3>2. fb_serial[s_i] = 0 \/ fb_serial[s_i] = g_fb_serial + 1
      <4>1. NextUp(fb_serial[s_i])
        BY <1>7, <2>4 DEF FlashDisplayed
      <4> QED
        BY <1>0, <2>1, <4>1 DEF NextUp
    <3>3. f_pc[s_i] # "mark"
      BY <2>1, <2>4 DEF FillsFlagged
    <3>4. \A n \in (Shown' + 1)..g_ready_fb_serial : Carriers(n)' = Carriers(n)
      <4> SUFFICES ASSUME NEW n \in (Shown' + 1)..g_ready_fb_serial
                   PROVE  Carriers(n)' = Carriers(n)
        OBVIOUS
      <4>1. n # fb_serial[s_i]
        BY <1>0, <3>1, <3>2
      <4> QED
        BY <1>7, <2>1, <2>4, <3>3, <4>1 DEF FlashDisplayed, Carriers, fill, TypeOK
    <3> QED
      BY <1>0, <1>a, <2>2, <3>1, <3>4, SameCarriers
  <2> QED
    BY <2>3, <2>4
<1>8. CASE Tick \/ UNCHANGED vars
  <2>1. Shown' = Shown /\ g_ready_fb_serial' = g_ready_fb_serial
    BY <1>8 DEF Tick, TickFill, TickFlash, Shown, flash, counters, vars
  <2>2. \A n : Carriers(n)' = Carriers(n)
    BY <1>8 DEF Tick, TickFill, TickFlash, Carriers, fill, vars
  <2> QED
    BY <1>0, <1>a, <2>1, <2>2, SameCarriers
<1> QED
  BY <1>1, <1>2, <1>3, <1>4, <1>5, <1>6, <1>7, <1>8 DEF Next, Fill, Flash

(* Where the display has got to, as each step leaves it.                   *)
LEMMA ShownMoves ==
  ASSUME LocalInv, [Next]_vars, ~stale'
  PROVE  \/ Shown' = Shown /\ is_displayed' = is_displayed
         \/ Shown' = Shown /\ \E b \in Box : FillMark(b)
         \/ /\ FlashDisplayed /\ s_i \in Box /\ ~is_displayed[s_i]
            /\ Shown' = Shown + 1 /\ fb_serial[s_i] \in {0, Shown + 1}
            /\ is_displayed' = [is_displayed EXCEPT ![s_i] = TRUE]
            /\ UNCHANGED <<fb_serial, counters, fill>>
<1> USE DEF LocalInv
<1>0. g_fb_serial \in Nat /\ \A b \in Box : fb_serial[b] \in Nat
  BY BoundAssumption DEF TypeOK
<1>1. ASSUME NEW b \in Box, FillWait(b) \/ FillRead(b) \/ FillWrite(b) \/ FillSerial(b)
      PROVE  Shown' = Shown /\ is_displayed' = is_displayed
  BY <1>1 DEF FillWait, FillRead, FillWrite, FillSerial, Shown, flash, counters
<1>2. ASSUME NEW b \in Box, FillMark(b) PROVE Shown' = Shown
  BY <1>2 DEF FillMark, Shown, flash, counters
<1>3. CASE FlashWait \/ FlashSerial \/ FlashDone \/ FlashShown \/ Tick \/ UNCHANGED vars
  BY <1>3 DEF FlashWait, FlashSerial, FlashDone, FlashShown, Tick, TickFill, TickFlash, Shown,
              flash, counters, vars
<1>4. CASE FlashDisplayed
  <2>1. s_i \in Box
    BY <1>4, BoundAssumption DEF FlashDisplayed, TypeOK, LocalsInRange, Box
  <2>2. CASE is_displayed[s_i]
    BY <1>4, <2>2 DEF FlashDisplayed, Shown, counters
  <2>3. CASE ~is_displayed[s_i]
    <3>1. Shown' = g_fb_serial + 1 /\ Shown = g_fb_serial /\ NextUp(fb_serial[s_i])
      BY <1>4, <2>3 DEF FlashDisplayed, Shown, counters
    <3>2. fb_serial[s_i] \in {0, Shown + 1}
      BY <1>0, <2>1, <3>1 DEF NextUp
    <3> QED
      BY <1>4, <2>1, <2>3, <3>1, <3>2 DEF FlashDisplayed
  <2> QED
    BY <2>2, <2>3
<1> QED
  BY <1>1, <1>2, <1>3, <1>4 DEF Next, Fill, Flash

(* The box that is taken carries the serial in turn, and no other box or   *)
(* thread does.                                                            *)
LEMMA OnlyCarrier ==
  ASSUME LocalInv, CounterFollowed, NoSerialLost, FlagMeansShown, DisplayBehind, ~raced, ~stale,
         NEW b \in Box, ~is_displayed[b], fb_serial[b] \in {0, Shown + 1}
  PROVE  /\ fb_serial[b] = Shown + 1 /\ Shown + 1 <= g_ready_fb_serial
         /\ Carriers(Shown + 1) = {b}
<1> USE DEF LocalInv
<1>0. Shown \in Nat /\ g_ready_fb_serial \in Nat /\ fb_serial[b] \in Nat
  BY BoundAssumption DEF TypeOK, Shown
<1>1. fb_serial[b] = Shown + 1
  BY <1>0 DEF FlagMeansShown
<1>2. Shown + 1 <= g_ready_fb_serial
  BY <1>0, <1>1 DEF CounterFollowed
<1>3. Shown + 1 \in (Shown + 1)..g_ready_fb_serial
  BY <1>0, <1>2
<1>4. PICK c \in Box : Carriers(Shown + 1) = {c}
  BY <1>3 DEF NoSerialLost
<1>5. b \in Carriers(Shown + 1)
  BY <1>1 DEF Carriers
<1> QED
  BY <1>1, <1>2, <1>4, <1>5

(* A serial handed out is later than what the display has got to ...       *)
LEMMA BehindStep ==
  ASSUME LocalInv, CounterFollowed, NoSerialLost, FlagMeansShown, DisplayBehind, [Next]_vars
  PROVE  DisplayBehind'
<1> SUFFICES ASSUME ~raced', ~stale' PROVE DisplayBehind'
  BY DEF DisplayBehind
<1> USE DEF LocalInv, Goes
<1>0. /\ Shown \in Nat /\ g_ready_fb_serial \in Nat
      /\ \A b \in Box : f_serial[b] \in Nat /\ fb_serial[b] \in Nat
  BY BoundAssumption DEF TypeOK, Shown
<1>a. ~raced /\ ~stale
  BY DEF Next, Fill, FillWait, FillRead, FillWrite, FillSerial, FillMark, Flash, FlashWait,
     FlashSerial, FlashDone, FlashDisplayed, FlashShown, Tick, TickFill, TickFlash, history,
     vars, TypeOK
<1>1. ASSUME NEW b \in Box, FillWrite(b) PROVE DisplayBehind'
  <2>1. Shown' = Shown /\ f_serial[b] = g_ready_fb_serial
    BY <1>1, <1>a DEF FillWrite, Shown, flash, CounterFollowed
  <2>2. g_ready_fb_serial' = g_ready_fb_serial + 1 /\ f_serial' = f_serial
        /\ \A other \in Box \ {b} : f_pc'[other] = f_pc[other]
    BY <1>1, <2>1 DEF FillWrite, TypeOK
  <2> QED
    BY <1>0, <1>a, <2>1, <2>2 DEF DisplayBehind
<1>2. ASSUME NEW b \in Box, FillWait(b) \/ FillRead(b) \/ FillSerial(b) \/ FillMark(b)
      PROVE  DisplayBehind'
  <2>1. Shown' = Shown /\ g_ready_fb_serial' = g_ready_fb_serial
    BY <1>2 DEF FillWait, FillRead, FillSerial, FillMark, Shown, flash, counters
  <2>2. \A c \in Box : f_pc'[c] = "serial" => f_pc[c] = "serial" /\ f_serial'[c] = f_serial[c]
    BY <1>2 DEF FillWait, FillRead, FillSerial, FillMark, TypeOK
  <2> QED
    BY <1>0, <1>a, <2>1, <2>2 DEF DisplayBehind
<1>3. CASE Flash \/ Tick \/ UNCHANGED vars
  <2>1. g_ready_fb_serial' = g_ready_fb_serial /\ UNCHANGED fill
    BY <1>3 DEF Flash, FlashWait, FlashSerial, FlashDone, FlashDisplayed, FlashShown, Tick,
                TickFill, TickFlash, counters, vars
  <2>2. CASE Shown' = Shown
    BY <1>a, <2>1, <2>2 DEF DisplayBehind, fill
  <2>3. CASE Shown' # Shown
    <3>1. ~is_displayed[s_i] /\ s_i \in Box /\ Shown' = Shown + 1
          /\ fb_serial[s_i] \in {0, Shown + 1}
      BY <2>3, ShownMoves
    <3>2. Shown + 1 <= g_ready_fb_serial /\ Carriers(Shown + 1) = {s_i}
      BY <1>a, <3>1, OnlyCarrier
    <3>3. ASSUME NEW b \in Box, f_pc[b] = "serial" PROVE Shown + 1 < f_serial[b] + 1
      <4>1. b # s_i
        BY <3>1, <3>3 DEF FillsFlagged
      <4>2. f_serial[b] + 1 # Shown + 1
        BY <3>2, <3>3, <4>1 DEF Carriers
      <4> QED
        BY <1>0, <1>a, <3>3, <4>2 DEF DisplayBehind
    <3> QED
      BY <2>1, <3>1, <3>2, <3>3 DEF DisplayBehind, fill
  <2> QED
    BY <2>2, <2>3
<1> QED
  BY <1>1, <1>2, <1>3 DEF Next, Fill

(* ... so that a box gets a serial to be shown, and loses its flag, or     *)
(* gets its flag back when the display has got to its serial.              *)
LEMMA FlagStep ==
  ASSUME LocalInv, CounterFollowed, NoSerialLost, FlagMeansShown, DisplayBehind, [Next]_vars
  PROVE  FlagMeansShown'
<1> SUFFICES ASSUME ~raced', ~stale' PROVE FlagMeansShown'
  BY DEF FlagMeansShown
<1> USE DEF LocalInv, Goes
<1>0. /\ Shown \in Nat /\ g_ready_fb_serial \in Nat
      /\ \A b \in Box : f_serial[b] \in Nat /\ fb_serial[b] \in Nat
  BY BoundAssumption DEF TypeOK, Shown
<1>a. ~raced /\ ~stale
  BY DEF Next, Fill, FillWait, FillRead, FillWrite, FillSerial, FillMark, Flash, FlashWait,
     FlashSerial, FlashDone, FlashDisplayed, FlashShown, Tick, TickFill, TickFlash, history,
     vars, TypeOK
<1>1. ASSUME NEW b \in Box, FillSerial(b) PROVE FlagMeansShown'
  <2>1. Shown' = Shown /\ is_displayed' = is_displayed
    BY <1>1 DEF FillSerial, Shown, flash, counters
  <2>2. fb_serial' = [fb_serial EXCEPT ![b] = f_serial[b] + 1] /\ Shown < f_serial[b] + 1
    BY <1>1, <1>a DEF FillSerial, CounterFollowed, DisplayBehind
  <2>3. f_pc' = [f_pc EXCEPT ![b] = "mark"]
    BY <1>1 DEF FillSerial
  <2> QED
    BY <1>0, <1>a, <2>1, <2>2, <2>3 DEF FlagMeansShown, TypeOK
<1>2. ASSUME NEW b \in Box, FillMark(b) PROVE FlagMeansShown'
  <2>1. Shown' = Shown /\ fb_serial' = fb_serial
    BY <1>2 DEF FillMark, Shown, flash, counters
  <2> QED
    BY <1>2, <1>a, <2>1 DEF FillMark, FlagMeansShown, TypeOK
<1>3. ASSUME NEW b \in Box, FillWait(b) \/ FillRead(b) \/ FillWrite(b) PROVE FlagMeansShown'
  <2>1. Shown' = Shown /\ UNCHANGED <<fb_serial, is_displayed>>
    BY <1>3 DEF FillWait, FillRead, FillWrite, Shown, flash, counters
  <2>2. \A c \in Box : f_pc'[c] = "mark" <=> f_pc[c] = "mark"
    BY <1>3 DEF FillWait, FillRead, FillWrite, TypeOK
  <2> QED
    BY <1>a, <2>1, <2>2 DEF FlagMeansShown
<1>4. CASE Flash \/ Tick \/ UNCHANGED vars
  <2>1. fb_serial' = fb_serial /\ UNCHANGED fill
    BY <1>4 DEF Flash, FlashWait, FlashSerial, FlashDone, FlashDisplayed, FlashShown, Tick,
                TickFill, TickFlash, vars
  <2>2. CASE Shown' = Shown /\ is_displayed' = is_displayed
    BY <1>a, <2>1, <2>2 DEF FlagMeansShown, fill
  <2>3. CASE Shown' # Shown
    <3>1. ~is_displayed[s_i] /\ s_i \in Box /\ Shown' = Shown + 1
          /\ fb_serial[s_i] \in {0, Shown + 1}
          /\ is_displayed' = [is_displayed EXCEPT ![s_i] = TRUE]
      BY <2>3, ShownMoves
    <3>2. fb_serial[s_i] = Shown + 1 /\ Carriers(Shown + 1) = {s_i}
      BY <1>a, <3>1, OnlyCarrier
    <3>3. f_pc[s_i] # "mark"
      BY <3>1 DEF FillsFlagged
    <3>4. \A b \in Box \ {s_i} : is_displayed[b] /\ f_pc[b] # "mark" <=> fb_serial[b] <= Shown + 1
      <4> SUFFICES ASSUME NEW b \in Box \ {s_i}
                   PROVE  is_displayed[b] /\ f_pc[b] # "mark" <=> fb_serial[b] <= Shown + 1
        OBVIOUS
      <4>1. is_displayed[b] /\ f_pc[b] # "mark" <=> fb_serial[b] <= Shown
        BY <1>a DEF FlagMeansShown
      <4>2. fb_serial[b] = Shown + 1 => is_displayed[b] /\ f_pc[b] # "mark"
        BY <3>2 DEF Carriers
      <4> QED
        BY <1>0, <4>1, <4>2
    <3> QED
      BY <1>0, <2>1, <3>1, <3>2, <3>3, <3>4 DEF FlagMeansShown, TypeOK, fill
  <2>4. Shown' = Shown => is_displayed' = is_displayed
    <3>1. ASSUME NEW b \in Box, FillMark(b) PROVE FALSE
      <4>1. f_pc' = f_pc /\ f_pc[b] = "mark" /\ f_pc'[b] = "wait"
        BY <2>1, <3>1 DEF FillMark, fill, TypeOK
      <4> QED
        BY <4>1
    <3> QED
      BY <1>0, <3>1, ShownMoves
  <2> QED
    BY <2>2, <2>3, <2>4
<1> QED
  BY <1>1, <1>2, <1>3, <1>4 DEF Next, Fill

-----------------------------------------------------------------------------
(* What the threads of flash_fb.c know at each position (54-103), and      *)
(* where the serials are.                                                  *)
THEOREM Invariant == Spec => []IInv
<1>1. Init => IInv
  <2> SUFFICES ASSUME Init PROVE IInv
    OBVIOUS
  <2>1. CounterFollowed /\ NoSerialLost /\ FlagMeansShown /\ DisplayBehind
    BY DEF Init, CounterFollowed, NoSerialLost, FlagMeansShown, DisplayBehind, Shown
  <2> QED
    BY <2>1, Start DEF IInv, LocalInv
<1>2. IInv /\ [Next]_vars => IInv'
  BY LocalStep, CounterStep, SerialStep, BehindStep, FlagStep DEF IInv, LocalInv
<1> QED
  BY <1>1, <1>2, PTL DEF Spec

(* Without a lock, and for any number of boxes, no frame is filled over    *)
(* before the flash thread has taken it and none is taken twice, unless    *)
(* two increments met or a box was filled between the two tests of the     *)
(* flash thread (flash_fb.c:50, 59-60, 72, 80).                            *)
THEOREM TakenOnce == Spec => []FrameTakenOnce
<1>1. IInv => FrameTakenOnce
  <2> SUFFICES ASSUME IInv, ~raced, ~stale, NEW b \in Box
               PROVE  /\ ~is_displayed[b] => fb_serial[b] > Shown
                      /\ f_pc[b] \in {"read", "write", "serial"} => fb_serial[b] <= Shown
    BY DEF FrameTakenOnce
  <2>1. Shown \in Nat /\ fb_serial[b] \in Nat
    BY BoundAssumption DEF IInv, TypeOK, Shown
  <2>2. is_displayed[b] /\ f_pc[b] # "mark" <=> fb_serial[b] <= Shown
    BY DEF IInv, FlagMeansShown
  <2> QED
    BY <2>1, <2>2 DEF IInv, FillsFlagged
<1> QED
  BY <1>1, Invariant, PTL

(* There is no third way to lose a serial than the races of lines 82-83    *)
(* and 59-60, for any number of boxes and serials.                         *)
THEOREM SerialsKept == Spec => []NoSerialLost
BY Invariant, PTL DEF IInv
=============================================================================
