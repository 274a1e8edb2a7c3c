------------------------ MODULE ProductConsumeProofs ------------------------
(***************************************************************************)
(* Proofs about ProductConsume, for any number of producers, any size of   *)
(* the ring and any number of items: the semaphores account for every      *)
(* slot, and the ring implements BoundedQueue.                             *)
(***************************************************************************)
EXTENDS ProductConsume, FiniteSetTheorems, SequenceTheorems, TLAPS

-----------------------------------------------------------------------------
(* The ring.                                                               *)

(* Where indices up to twice the size of the ring come out.                *)
LEMMA Wrapped ==
  \A x \in Int : 0 <= x /\ x < 2 * BUFFER_SIZE =>
    x % BUFFER_SIZE = IF x < BUFFER_SIZE THEN x ELSE x - BUFFER_SIZE
<1> BUFFER_SIZE \in Nat \ {0}
  BY BufferAssumption
<1> QED
  OBVIOUS

LEMMA SlotType == TypeOK => \A k \in Nat : Slot(k) \in Index
<1> SUFFICES ASSUME TypeOK, NEW k \in Nat PROVE (out + k) % BUFFER_SIZE \in Index
  BY DEF Slot
<1>1. BUFFER_SIZE \in Nat \ {0} /\ out + k \in Int
  BY BufferAssumption DEF TypeOK, Index
<1> QED
  BY <1>1 DEF Index

LEMMA SlotWrapped ==
  ASSUME TypeOK, NEW k \in 0..BUFFER_SIZE
  PROVE  Slot(k) = IF out + k < BUFFER_SIZE THEN out + k ELSE out + k - BUFFER_SIZE
<1>1. BUFFER_SIZE \in Nat \ {0} /\ out \in Int /\ 0 <= out /\ out < BUFFER_SIZE
  BY BufferAssumption DEF TypeOK, Index
<1>2. PICK x \in Int : x = out + k
  BY <1>1
<1>3. 0 <= x /\ x < 2 * BUFFER_SIZE
  BY <1>1, <1>2
<1>4. x % BUFFER_SIZE = IF x < BUFFER_SIZE THEN x ELSE x - BUFFER_SIZE
  BY <1>3, Wrapped
<1> QED
  BY <1>1, <1>2, <1>4 DEF Slot

(* The slots of the ring are different ones.                               *)
LEMMA SlotsDiffer ==
  ASSUME TypeOK, NEW j \in 0..(BUFFER_SIZE - 1), NEW k \in 0..(BUFFER_SIZE - 1), j # k
  PROVE  Slot(j) # Slot(k)
<1>1. BUFFER_SIZE \in Nat \ {0} /\ out \in Int /\ 0 <= out /\ out < BUFFER_SIZE
  BY BufferAssumption DEF TypeOK, Index
<1>2. /\ j \in Int /\ 0 <= j /\ j < BUFFER_SIZE /\ j \in 0..BUFFER_SIZE
      /\ k \in Int /\ 0 <= k /\ k < BUFFER_SIZE /\ k \in 0..BUFFER_SIZE
  BY <1>1
<1>3. Slot(j) = IF out + j < BUFFER_SIZE THEN out + j ELSE out + j - BUFFER_SIZE
  BY <1>2, SlotWrapped
<1>4. Slot(k) = IF out + k < BUFFER_SIZE THEN out + k ELSE out + k - BUFFER_SIZE
  BY <1>2, SlotWrapped
<1> QED
  BY <1>1, <1>2, <1>3, <1>4

(* When out moves on, the slots stay where they are.                       *)
LEMMA SlotsStay ==
  ASSUME TypeOK, NEW k \in 0..(BUFFER_SIZE - 1), out' = (out + 1) % BUFFER_SIZE
  PROVE  Slot(k)' = Slot(k + 1)
<1>1. /\ BUFFER_SIZE \in Nat \ {0} /\ out \in Int /\ 0 <= out /\ out < BUFFER_SIZE
      /\ k \in Int /\ 0 <= k /\ k < BUFFER_SIZE
  BY BufferAssumption DEF TypeOK, Index
<1>2. out' = IF out + 1 < BUFFER_SIZE THEN out + 1 ELSE out + 1 - BUFFER_SIZE
  <2>1. PICK x \in Int : x = out + 1
    BY <1>1
  <2>2. 0 <= x /\ x < 2 * BUFFER_SIZE
    BY <1>1, <2>1
  <2>3. x % BUFFER_SIZE = IF x < BUFFER_SIZE THEN x ELSE x - BUFFER_SIZE
    BY <2>2, Wrapped
  <2> QED
    BY <1>1, <2>1, <2>3
<1>3. out' \in Int /\ 0 <= out' /\ out' < BUFFER_SIZE
  BY <1>1, <1>2
<1>4. (out' + k) % BUFFER_SIZE =
        IF out' + k < BUFFER_SIZE THEN out' + k ELSE out' + k - BUFFER_SIZE
  <2>1. PICK x \in Int : x = out' + k
    BY <1>1, <1>3
  <2>2. 0 <= x /\ x < 2 * BUFFER_SIZE
    BY <1>1, <1>3, <2>1
  <2>3. x % BUFFER_SIZE = IF x < BUFFER_SIZE THEN x ELSE x - BUFFER_SIZE
    BY <2>2, Wrapped
  <2> QED
    BY <1>1, <1>3, <2>1, <2>3
<1>5. Slot(k + 1) =
        IF out + (k + 1) < BUFFER_SIZE THEN out + (k + 1) ELSE out + (k + 1) - BUFFER_SIZE
  <2>1. k + 1 \in 0..BUFFER_SIZE
    BY <1>1
  <2> QED
    BY <2>1, SlotWrapped
<1>6. Slot(k)' = (out' + k) % BUFFER_SIZE
  BY DEF Slot
<1> QED
  BY <1>1, <1>2, <1>3, <1>4, <1>5, <1>6

-----------------------------------------------------------------------------
(* The semaphores.                                                         *)

LEMMA Finite ==
  /\ IsFiniteSet(Thread)
  /\ IsFiniteSet(Busy) /\ Cardinality(Busy) \in Nat
  /\ IsFiniteSet(Posting) /\ Cardinality(Posting) \in Nat
<1>1. IsFiniteSet(Thread)
  BY ThreadAssumption, FS_AddElement DEF Thread
<1>2. Busy \in SUBSET Thread /\ Posting \in SUBSET Thread
  BY DEF Busy, Posting, Thread
<1>3. IsFiniteSet(Busy) /\ IsFiniteSet(Posting)
  BY <1>1, <1>2, FS_Subset
<1> QED
  BY <1>1, <1>3, FS_CardinalityType

(* A thread that has waited and not posted yet leaves room for its post.   *)
LEMMA RoomForPost ==
  ASSUME TypeOK, SlotsAccounted, NEW t \in Thread, pc[t] # "wait"
  PROVE  empty_slots < BUFFER_SIZE /\ filled_slots < BUFFER_SIZE
<1>1. Busy # {}
  BY DEF Busy
<1>2. Cardinality(Busy) \in Nat \ {0}
  BY <1>1, Finite, FS_EmptySet
<1> QED
  BY <1>2, BufferAssumption DEF TypeOK, SlotsAccounted

(* A producer between its semaphore and its step forward has a slot.       *)
LEMMA RoomToProduce ==
  ASSUME TypeOK, SlotsAccounted, NEW p \in Producer, pc[p] \in {"lock", "access", "advance"}
  PROVE  count < BUFFER_SIZE
<1> DEFINE Waited == Posting \cup {p}
           All == IF Consuming = 1 THEN Waited \cup {Consumer} ELSE Waited
<1>1. IsFiniteSet(Waited) /\ Cardinality(Waited) = Cardinality(Posting) + 1
  <2>1. p \notin Posting
    BY DEF Posting
  <2> QED
    BY <2>1, Finite, FS_AddElement
<1>2. IsFiniteSet(All) /\ Cardinality(All) = Cardinality(Posting) + 1 + Consuming
  <2>1. Consumer \notin Waited
    BY ThreadAssumption DEF Posting
  <2>2. CASE Consuming = 1
    BY <1>1, <2>1, <2>2, Finite, FS_AddElement
  <2>3. CASE Consuming = 0
    BY <1>1, <2>3, Finite
  <2> QED
    BY <2>2, <2>3 DEF Consuming
<1>3. All \subseteq Busy
  BY DEF Busy, Posting, Consuming, Thread
<1>4. Cardinality(All) <= Cardinality(Busy)
  BY <1>3, Finite, FS_Subset
<1>5. Consuming \in {0, 1}
  BY DEF Consuming
<1> HIDE DEF All
<1> QED
  BY <1>2, <1>4, <1>5, Finite, BufferAssumption DEF TypeOK, SlotsAccounted

(* The consumer between its semaphore and its step forward has one too.    *)
LEMMA ItemToConsume ==
  ASSUME TypeOK, SlotsAccounted, pc[Consumer] \in {"lock", "access", "advance"}
  PROVE  count > 0
BY Finite DEF TypeOK, SlotsAccounted, Consuming

(* A thread moves on without passing a point that counts.                  *)
LEMMA SameAccount ==
  ASSUME TypeOK, SlotsAccounted, NEW t \in Thread,
         NEW to \in {"access", "advance", "post"}, pc' = [pc EXCEPT ![t] = to],
         pc[t] # "wait",
         to # "post" => pc[t] \in {"lock", "access"},
         to = "post" => pc[t] = "unlock",
         UNCHANGED <<empty_slots, filled_slots, count>>
  PROVE  SlotsAccounted'
<1>1. Busy' = Busy
  BY DEF Busy, TypeOK
<1>2. Posting' = Posting
  BY DEF Posting, TypeOK, Thread
<1>3. Consuming' = Consuming
  BY DEF Consuming, TypeOK, Thread
<1> QED
  BY <1>1, <1>2, <1>3 DEF SlotsAccounted

-----------------------------------------------------------------------------
(* Types, mutex and account, step by step.                                 *)

LEMMA Start == Init => IInv
<1> SUFFICES ASSUME Init PROVE IInv
  OBVIOUS
<1>0. BUFFER_SIZE \in Nat \ {0} /\ MaxItem \in Nat
  BY BufferAssumption
<1>1. TypeOK
  <2>1. in \in Index /\ out \in Index /\ count \in 0..BUFFER_SIZE
        /\ empty_slots \in 0..BUFFER_SIZE /\ filled_slots \in 0..BUFFER_SIZE
    BY <1>0 DEF Init, Index
  <2>2. made \in [Producer -> 1..(MaxItem + 1)]
    BY <1>0 DEF Init
  <2> QED
    BY <2>1, <2>2 DEF Init, TypeOK
<1>2. SlotsAccounted
  <2>1. Busy = {} /\ Posting = {} /\ Consuming = 0
    BY DEF Init, Busy, Posting, Consuming, Thread
  <2> QED
    BY <1>0, <2>1, FS_EmptySet DEF Init, SlotsAccounted
<1>3. MutexHeld
  BY ThreadAssumption DEF Init, MutexHeld, Thread
<1>4. RingFilled
  <2>1. Slot(0) = 0
    <3>1. 0 \in 0..BUFFER_SIZE /\ out = 0
      BY <1>0 DEF Init
    <3> QED
      BY <1>0, <1>1, <3>1, SlotWrapped
  <2> QED
    BY <2>1 DEF Init, RingFilled, Thread
<1> QED
  BY <1>1, <1>2, <1>3, <1>4 DEF IInv

LEMMA TypeStep == IInv /\ [Next]_vars => TypeOK'
<1> SUFFICES ASSUME IInv, [Next]_vars PROVE TypeOK'
  OBVIOUS
<1> USE DEF Goes
<1>0. /\ BUFFER_SIZE \in Nat \ {0} /\ MaxItem \in Nat /\ TypeOK /\ SlotsAccounted
      /\ Consumer \in Thread /\ Producer \subseteq Thread
  BY BufferAssumption DEF IInv, Thread
<1>1. CASE UNCHANGED vars
  BY <1>0, <1>1 DEF vars, ring, locks, TypeOK
<1>2. ASSUME NEW t \in Thread, Lock(t) \/ Unlock(t) PROVE TypeOK'
  BY <1>0, <1>2 DEF Lock, Unlock, TypeOK, ring
<1>3. ASSUME NEW p \in Producer, WaitEmpty(p) PROVE TypeOK'
  <2>1. empty_slots - 1 \in 0..BUFFER_SIZE
    BY <1>0, <1>3 DEF WaitEmpty, TypeOK
  <2> QED
    BY <1>0, <1>3, <2>1 DEF WaitEmpty, TypeOK, ring
<1>4. ASSUME NEW p \in Producer, Write(p) PROVE TypeOK'
  <2>1. made[p] \in 1..MaxItem
    BY <1>0, <1>4 DEF Write, IInv, RingFilled, TypeOK
  <2>2. made[p] + 1 \in 1..(MaxItem + 1) /\ <<p, made[p]>> \in Item
    BY <1>0, <2>1 DEF Item
  <2> QED
    BY <1>0, <1>4, <2>2 DEF Write, TypeOK, locks
<1>5. ASSUME NEW p \in Producer, AdvanceIn(p) PROVE TypeOK'
  <2>1. count + 1 \in 0..BUFFER_SIZE
    BY <1>0, <1>5, RoomToProduce DEF AdvanceIn, TypeOK
  <2>2. in' \in Index
    BY <1>0, <1>5 DEF AdvanceIn, TypeOK, Index
  <2> QED
    BY <1>0, <1>5, <2>1, <2>2 DEF AdvanceIn, TypeOK, locks
<1>6. ASSUME NEW p \in Producer, PostFilled(p) PROVE TypeOK'
  <2>1. filled_slots + 1 \in 0..BUFFER_SIZE
    BY <1>0, <1>6, RoomForPost DEF PostFilled, TypeOK
  <2> QED
    BY <1>0, <1>6, <2>1 DEF PostFilled, TypeOK, ring
<1>7. CASE WaitFilled
  <2>1. filled_slots - 1 \in 0..BUFFER_SIZE
    BY <1>0, <1>7 DEF WaitFilled, TypeOK
  <2> QED
    BY <1>0, <1>7, <2>1 DEF WaitFilled, TypeOK, ring
<1>8. CASE Read
  BY <1>0, <1>8 DEF Read, TypeOK, ring, locks
<1>9. CASE AdvanceOut
  <2>1. count - 1 \in 0..BUFFER_SIZE
    BY <1>0, <1>9, ItemToConsume DEF AdvanceOut, TypeOK
  <2>2. out' \in Index
    BY <1>0, <1>9 DEF AdvanceOut, TypeOK, Index
  <2> QED
    BY <1>0, <1>9, <2>1, <2>2 DEF AdvanceOut, TypeOK, locks
<1>10. CASE PostEmpty
  <2>1. empty_slots + 1 \in 0..BUFFER_SIZE
    BY <1>0, <1>10, RoomForPost DEF PostEmpty, TypeOK
  <2> QED
    BY <1>0, <1>10, <2>1 DEF PostEmpty, TypeOK, ring
<1> QED
  BY <1>0, <1>1, <1>2, <1>3, <1>4, <1>5, <1>6, <1>7, <1>8, <1>9, <1>10
     DEF Next, ProducerStep, ConsumerStep

LEMMA MutexStep == IInv /\ [Next]_vars => MutexHeld'
<1> SUFFICES ASSUME IInv, [Next]_vars PROVE MutexHeld'
  OBVIOUS
<1> USE DEF Goes
<1>0. TypeOK /\ MutexHeld /\ Nobody \notin Thread /\ Consumer \in Thread /\ Producer \subseteq Thread
  BY ThreadAssumption DEF IInv, Thread
<1>1. CASE UNCHANGED vars
  BY <1>0, <1>1 DEF vars, locks, MutexHeld
<1>2. ASSUME NEW t \in Thread, Lock(t) PROVE MutexHeld'
  BY <1>0, <1>2 DEF Lock, MutexHeld, TypeOK
<1>3. ASSUME NEW t \in Thread, Unlock(t) PROVE MutexHeld'
  BY <1>0, <1>3 DEF Unlock, MutexHeld, TypeOK
<1>4. ASSUME NEW p \in Producer,
             WaitEmpty(p) \/ Write(p) \/ AdvanceIn(p) \/ PostFilled(p)
      PROVE  MutexHeld'
  BY <1>0, <1>4 DEF WaitEmpty, Write, AdvanceIn, PostFilled, MutexHeld, TypeOK, locks
<1>5. CASE WaitFilled \/ Read \/ AdvanceOut \/ PostEmpty
  BY <1>0, <1>5 DEF WaitFilled, Read, AdvanceOut, PostEmpty, MutexHeld, TypeOK, locks
<1> QED
  BY <1>0, <1>1, <1>2, <1>3, <1>4, <1>5 DEF Next, ProducerStep, ConsumerStep

LEMMA AccountStep == IInv /\ [Next]_vars => SlotsAccounted'
<1> SUFFICES ASSUME IInv, [Next]_vars PROVE SlotsAccounted'
  OBVIOUS
<1> USE DEF Goes
<1>0. /\ TypeOK /\ SlotsAccounted
      /\ Consumer \in Thread /\ Consumer \notin Producer /\ Producer \subseteq Thread
      /\ BUFFER_SIZE \in Nat /\ empty_slots \in Nat /\ filled_slots \in Nat /\ count \in Nat
  BY ThreadAssumption, BufferAssumption DEF IInv, Thread, TypeOK
<1>1. CASE UNCHANGED vars
  BY <1>0, <1>1 DEF vars, ring, locks, SlotsAccounted, Busy, Posting, Consuming
<1>2. ASSUME NEW t \in Thread, Lock(t) PROVE SlotsAccounted'
  BY <1>0, <1>2, SameAccount DEF Lock, ring
<1>3. ASSUME NEW t \in Thread, Unlock(t) PROVE SlotsAccounted'
  BY <1>0, <1>3, SameAccount DEF Unlock, ring
<1>4. ASSUME NEW p \in Producer, WaitEmpty(p) PROVE SlotsAccounted'
  <2>1. Busy' = Busy \cup {p} /\ p \notin Busy
    BY <1>0, <1>4 DEF WaitEmpty, Busy, TypeOK
  <2>2. Posting' = Posting /\ Consuming' = Consuming
    BY <1>0, <1>4 DEF WaitEmpty, Posting, Consuming, TypeOK
  <2>3. Cardinality(Busy') = Cardinality(Busy) + 1
    BY <2>1, Finite, FS_AddElement
  <2>4. empty_slots' = empty_slots - 1 /\ filled_slots' = filled_slots /\ count' = count
    BY <1>4 DEF WaitEmpty, ring
  <2> QED
    BY <1>0, <2>2, <2>3, <2>4, Finite DEF SlotsAccounted
<1>5. ASSUME NEW p \in Producer, Write(p) PROVE SlotsAccounted'
  BY <1>0, <1>5, SameAccount DEF Write, locks
<1>6. ASSUME NEW p \in Producer, AdvanceIn(p) PROVE SlotsAccounted'
  <2>1. Busy' = Busy /\ Consuming' = Consuming
    BY <1>0, <1>6 DEF AdvanceIn, Busy, Consuming, TypeOK
  <2>2. Posting' = Posting \cup {p} /\ p \notin Posting
    BY <1>0, <1>6 DEF AdvanceIn, Posting, TypeOK
  <2>3. Cardinality(Posting') = Cardinality(Posting) + 1
    BY <2>2, Finite, FS_AddElement
  <2>4. empty_slots' = empty_slots /\ filled_slots' = filled_slots /\ count' = count + 1
    BY <1>6 DEF AdvanceIn, locks
  <2>5. Consuming \in {0, 1}
    BY DEF Consuming
  <2> QED
    BY <1>0, <2>1, <2>3, <2>4, <2>5, Finite DEF SlotsAccounted
<1>7. ASSUME NEW p \in Producer, PostFilled(p) PROVE SlotsAccounted'
  <2>1. Busy' = Busy \ {p} /\ p \in Busy /\ Consuming' = Consuming
    BY <1>0, <1>7 DEF PostFilled, Busy, Consuming, TypeOK
  <2>2. Posting' = Posting \ {p} /\ p \in Posting
    BY <1>0, <1>7 DEF PostFilled, Posting, TypeOK
  <2>3. Cardinality(Busy') = Cardinality(Busy) - 1
        /\ Cardinality(Posting') = Cardinality(Posting) - 1
    BY <2>1, <2>2, Finite, FS_RemoveElement
  <2>4. empty_slots' = empty_slots /\ filled_slots' = filled_slots + 1 /\ count' = count
    BY <1>7 DEF PostFilled, ring
  <2>5. Consuming \in {0, 1}
    BY DEF Consuming
  <2> QED
    BY <1>0, <2>1, <2>3, <2>4, <2>5, Finite DEF SlotsAccounted
<1>8. CASE WaitFilled
  <2>1. Busy' = Busy \cup {Consumer} /\ Consumer \notin Busy
    BY <1>0, <1>8 DEF WaitFilled, Busy, TypeOK
  <2>2. Posting' = Posting /\ Consuming = 0 /\ Consuming' = 1
    BY <1>0, <1>8 DEF WaitFilled, Posting, Consuming, TypeOK
  <2>3. Cardinality(Busy') = Cardinality(Busy) + 1
    BY <2>1, Finite, FS_AddElement
  <2>4. empty_slots' = empty_slots /\ filled_slots' = filled_slots - 1 /\ count' = count
    BY <1>8 DEF WaitFilled, ring
  <2> QED
    BY <1>0, <2>2, <2>3, <2>4, Finite DEF SlotsAccounted
<1>9. CASE Read
  BY <1>0, <1>9, SameAccount DEF Read, ring, locks
<1>10. CASE AdvanceOut
  <2>1. Busy' = Busy /\ Posting' = Posting /\ Consuming = 1 /\ Consuming' = 0
    BY <1>0, <1>10 DEF AdvanceOut, Busy, Posting, Consuming, TypeOK
  <2>2. empty_slots' = empty_slots /\ filled_slots' = filled_slots /\ count' = count - 1
    BY <1>10 DEF AdvanceOut, locks
  <2> QED
    BY <1>0, <2>1, <2>2, Finite DEF SlotsAccounted
<1>11. CASE PostEmpty
  <2>1. Busy' = Busy \ {Consumer} /\ Consumer \in Busy
    BY <1>0, <1>11 DEF PostEmpty, Busy, TypeOK
  <2>2. Posting' = Posting /\ Consuming = 0 /\ Consuming' = 0
    BY <1>0, <1>11 DEF PostEmpty, Posting, Consuming, TypeOK
  <2>3. Cardinality(Busy') = Cardinality(Busy) - 1
    BY <2>1, Finite, FS_RemoveElement
  <2>4. empty_slots' = empty_slots + 1 /\ filled_slots' = filled_slots /\ count' = count
    BY <1>11 DEF PostEmpty, ring
  <2> QED
    BY <1>0, <2>2, <2>3, <2>4, Finite DEF SlotsAccounted
<1> QED
  BY <1>0, <1>1, <1>2, <1>3, <1>4, <1>5, <1>6, <1>7, <1>8, <1>9, <1>10, <1>11
     DEF Next, ProducerStep, ConsumerStep

-----------------------------------------------------------------------------
(* The ring, step by step.                                                 *)

(* A producer in the ring keeps the other threads out of it.               *)
LEMMA Alone ==
  ASSUME MutexHeld, NEW t \in Thread, pc[t] \in {"access", "advance", "unlock"},
         NEW u \in Thread, pc[u] \in {"access", "advance", "unlock"}
  PROVE  t = u
BY DEF MutexHeld

(* The slot a producer writes is none of those that wait to be read.       *)
LEMMA WriteStep ==
  ASSUME IInv, NEW p \in Producer, Write(p)
  PROVE  /\ \A k \in 0..(count - 1) : buffer'[Slot(k)] = buffer[Slot(k)]
         /\ buffer'[in] \in Item
<1>0. /\ TypeOK /\ BUFFER_SIZE \in Nat \ {0} /\ count \in Nat /\ count < BUFFER_SIZE
  BY BufferAssumption, RoomToProduce DEF IInv, TypeOK, Write, Goes
<1>1. in = Slot(count) /\ in \in Index
  BY DEF IInv, TypeOK, RingFilled
<1>2. ASSUME NEW k \in 0..(count - 1) PROVE buffer'[Slot(k)] = buffer[Slot(k)]
  <2>1. k \in 0..(BUFFER_SIZE - 1) /\ count \in 0..(BUFFER_SIZE - 1) /\ k # count /\ k \in Nat
    BY <1>0
  <2>2. Slot(k) # in /\ Slot(k) \in Index
    BY <1>0, <1>1, <2>1, SlotsDiffer, SlotType
  <2> QED
    BY <1>0, <2>2 DEF Write, TypeOK
<1>3. <<p, made[p]>> \in Item
  <2>1. made[p] \in 1..MaxItem
    BY <1>0, BufferAssumption DEF Write, Goes, IInv, RingFilled, TypeOK
  <2> QED
    BY <2>1 DEF Item
<1> QED
  BY <1>0, <1>1, <1>2, <1>3 DEF Write, TypeOK

LEMMA RingStep == IInv /\ [Next]_vars => RingFilled'
<1> SUFFICES ASSUME IInv, [Next]_vars PROVE RingFilled'
  OBVIOUS
<1> USE DEF Goes
<1>0. /\ TypeOK /\ MutexHeld /\ RingFilled
      /\ Consumer \in Thread /\ Consumer \notin Producer /\ Producer \subseteq Thread
      /\ BUFFER_SIZE \in Nat \ {0} /\ count \in Nat /\ count <= BUFFER_SIZE
  BY ThreadAssumption, BufferAssumption DEF IInv, Thread, TypeOK
<1>1. CASE UNCHANGED vars
  BY <1>0, <1>1 DEF vars, ring, RingFilled, Slot
<1>2. ASSUME NEW t \in Thread, Lock(t) \/ Unlock(t) PROVE RingFilled'
  BY <1>0, <1>2 DEF Lock, Unlock, ring, RingFilled, Slot, TypeOK
<1>3. ASSUME NEW p \in Producer, WaitEmpty(p) PROVE RingFilled'
  BY <1>0, <1>3 DEF WaitEmpty, ring, RingFilled, Slot, TypeOK
<1>4. ASSUME NEW p \in Producer, Write(p) PROVE RingFilled'
  <2>1. UNCHANGED <<in, out, count>> /\ \A k \in Nat : Slot(k)' = Slot(k)
    BY <1>4 DEF Write, Slot
  <2>2. \A k \in 0..(count - 1) : buffer'[Slot(k)] \in Item
    BY <1>0, <1>4, WriteStep DEF RingFilled
  <2>3. buffer'[in] \in Item
    BY <1>4, WriteStep
  <2>4. \A q \in Producer : pc'[q] \in {"lock", "access"} =>
          q # p /\ pc[q] \in {"lock", "access"} /\ made'[q] = made[q]
    BY <1>0, <1>4 DEF Write, TypeOK
  <2> QED
    BY <1>0, <2>1, <2>2, <2>3, <2>4 DEF RingFilled
<1>5. ASSUME NEW p \in Producer, AdvanceIn(p) PROVE RingFilled'
  <2>1. /\ in' = (in + 1) % BUFFER_SIZE /\ count' = count + 1
        /\ UNCHANGED <<buffer, out, made>>
    BY <1>5 DEF AdvanceIn
  <2>2. count < BUFFER_SIZE
    BY <1>0, <1>5, RoomToProduce DEF AdvanceIn, IInv
  <2>3. in' = Slot(count + 1)
    <3>1. /\ out \in Int /\ 0 <= out /\ out < BUFFER_SIZE /\ in \in Int /\ 0 <= in /\ in < BUFFER_SIZE
      BY <1>0 DEF TypeOK, Index
    <3>2. in = IF out + count < BUFFER_SIZE THEN out + count ELSE out + count - BUFFER_SIZE
      BY <1>0, SlotWrapped DEF RingFilled
    <3>3. count + 1 \in 0..BUFFER_SIZE
      BY <1>0, <2>2
    <3>4. Slot(count + 1) = IF out + (count + 1) < BUFFER_SIZE THEN out + (count + 1)
                            ELSE out + (count + 1) - BUFFER_SIZE
      BY <1>0, <3>3, SlotWrapped
    <3>5. (in + 1) % BUFFER_SIZE = IF in + 1 < BUFFER_SIZE THEN in + 1 ELSE in + 1 - BUFFER_SIZE
      <4>1. PICK x \in Int : x = in + 1
        BY <3>1
      <4>2. 0 <= x /\ x < 2 * BUFFER_SIZE
        BY <1>0, <3>1, <4>1
      <4>3. x % BUFFER_SIZE = IF x < BUFFER_SIZE THEN x ELSE x - BUFFER_SIZE
        BY <4>2, Wrapped
      <4> QED
        BY <1>0, <3>1, <4>1, <4>3
    <3> QED
      BY <1>0, <2>1, <2>2, <3>1, <3>2, <3>4, <3>5
  <2>4. \A k \in 0..count : buffer[Slot(k)] \in Item
    <3>1. buffer[Slot(count)] \in Item
      BY <1>0, <1>5 DEF AdvanceIn, RingFilled
    <3>2. \A k \in 0..count : k = count \/ k \in 0..(count - 1)
      BY <1>0
    <3> QED
      BY <1>0, <3>1, <3>2 DEF RingFilled
  <2>5. \A k \in Nat : Slot(k)' = Slot(k)
    BY <2>1 DEF Slot
  <2>6. \A q \in Producer : pc'[q] # "advance"
    BY <1>0, <1>5, Alone DEF AdvanceIn, TypeOK
  <2>7. \A q \in Producer : pc'[q] \in {"lock", "access"} => pc[q] \in {"lock", "access"}
    BY <1>0, <1>5 DEF AdvanceIn, TypeOK
  <2>8. count' \in Nat /\ count' - 1 = count
    BY <1>0, <2>1
  <2>9. in' = Slot(count)'
    BY <2>1, <2>3 DEF Slot
  <2>10. \A k \in 0..(count' - 1) : buffer'[Slot(k)'] \in Item
    BY <1>0, <2>1, <2>4, <2>5, <2>8
  <2> QED
    BY <1>0, <2>1, <2>6, <2>7, <2>9, <2>10 DEF RingFilled
<1>6. ASSUME NEW p \in Producer, PostFilled(p) PROVE RingFilled'
  BY <1>0, <1>6 DEF PostFilled, ring, RingFilled, Slot, TypeOK
<1>7. CASE WaitFilled \/ Read \/ PostEmpty
  BY <1>0, <1>7 DEF WaitFilled, Read, PostEmpty, ring, RingFilled, Slot, TypeOK
<1>8. CASE AdvanceOut
  <2>1. out' = (out + 1) % BUFFER_SIZE /\ count' = count - 1 /\ UNCHANGED <<buffer, in, made>>
    BY <1>8 DEF AdvanceOut
  <2>2. count > 0
    BY <1>0, <1>8, ItemToConsume DEF AdvanceOut, IInv
  <2>3. \A k \in 0..(count - 1) : Slot(k)' = Slot(k + 1)
    <3> TAKE k \in 0..(count - 1)
    <3>1. k \in 0..(BUFFER_SIZE - 1)
      BY <1>0
    <3> QED
      BY <1>0, <2>1, <3>1, SlotsStay
  <2>4. in' = Slot(count)'
    <3>1. count - 1 \in 0..(count - 1) /\ count - 1 + 1 = count
      BY <1>0, <2>2
    <3>2. (out' + (count - 1)) % BUFFER_SIZE = Slot(count)
      <4>1. PICK k \in 0..(count - 1) : k = count - 1
        BY <3>1
      <4>2. Slot(k)' = (out' + k) % BUFFER_SIZE
        BY DEF Slot
      <4> QED
        BY <2>3, <3>1, <4>1, <4>2
    <3>3. Slot(count)' = (out' + (count - 1)) % BUFFER_SIZE
      BY <2>1 DEF Slot
    <3> QED
      BY <1>0, <2>1, <3>2, <3>3 DEF RingFilled
  <2>5. \A k \in 0..(count' - 1) : buffer'[Slot(k)'] \in Item
    <3> TAKE k \in 0..(count' - 1)
    <3>1. k \in 0..(count - 1) /\ k + 1 \in 0..(count - 1)
      BY <1>0, <2>1
    <3> QED
      BY <1>0, <2>1, <2>3, <3>1 DEF RingFilled
  <2>6. \A q \in Producer : pc'[q] = pc[q]
    BY <1>0, <1>8 DEF AdvanceOut, TypeOK
  <2> QED
    BY <1>0, <2>1, <2>4, <2>5, <2>6 DEF RingFilled
<1> QED
  BY <1>0, <1>1, <1>2, <1>3, <1>4, <1>5, <1>6, <1>7, <1>8
     DEF Next, ProducerStep, ConsumerStep

-----------------------------------------------------------------------------
(* What threads, semaphores and ring know at each position                 *)
(* (product_consume_model.c:16-60).                                        *)
THEOREM Invariant == Spec => []IInv
<1>1. IInv /\ [Next]_vars => IInv'
  BY TypeStep, AccountStep, MutexStep, RingStep DEF IInv
<1> QED
  BY <1>1, Start, PTL DEF Spec

(* The semaphores account for every slot of the ring                       *)
(* (product_consume_model.c:20-36, 43-58).                                 *)
THEOREM Accounted == Spec => []SlotsAccounted
BY Invariant, PTL DEF IInv

(* However many threads there are, some thread can go on: who has the      *)
(* mutex is past its waits, and when nobody is, one semaphore is positive  *)
(* (product_consume_model.c:20-36, 43-60).                                 *)
THEOREM DeadlockFree == Spec => []NeverStuck
<1>1. ASSUME IInv, NEW p \in Producer PROVE \E t \in Thread : ~Blocked(t)
  <2>1. CASE mutex # Nobody
    <3>1. PICK t \in Thread : mutex = t
      BY <1>1, <2>1 DEF IInv, TypeOK
    <3>2. pc[t] \in {"access", "advance", "unlock"}
      BY <1>1, <3>1 DEF IInv, MutexHeld
    <3> QED
      BY <3>2 DEF Blocked
  <2>2. CASE mutex = Nobody /\ \E t \in Thread : pc[t] # "wait"
    BY <2>2 DEF Blocked
  <2>3. CASE \A t \in Thread : pc[t] = "wait"
    <3>1. Busy = {}
      BY <2>3 DEF Busy
    <3>2. Cardinality(Busy) = 0
      BY <3>1, FS_EmptySet
    <3>3. filled_slots > 0 \/ empty_slots > 0
      BY <1>1, <3>2, BufferAssumption DEF IInv, SlotsAccounted, TypeOK
    <3>4. p \in Thread /\ p # Consumer /\ Consumer \in Thread
      BY ThreadAssumption DEF Thread
    <3>5. ~Blocked(p) \/ ~Blocked(Consumer)
      BY <1>1, <2>3, <3>3, <3>4 DEF Blocked, IInv, TypeOK
    <3> QED
      BY <3>4, <3>5
  <2> QED
    BY <2>1, <2>2, <2>3
<1>2. IInv => NeverStuck
  BY <1>1 DEF NeverStuck
<1> QED
  BY <1>2, Invariant, PTL

-----------------------------------------------------------------------------
(* The ring as a queue.                                                    *)

LEMMA FunctionIsSeq ==
  ASSUME NEW S, NEW n \in Nat, NEW f \in [1..n -> S]
  PROVE  f \in Seq(S) /\ Len(f) = n
OBVIOUS

(* What waits is a sequence of items.                                      *)
QueueType ==
  /\ Handed \in {0, 1} /\ count - Handed \in Nat
  /\ Waiting \in Seq(Item) /\ Len(Waiting) = count - Handed

LEMMA WaitingSeq == IInv => QueueType
<1> SUFFICES ASSUME IInv PROVE QueueType
  OBVIOUS
<1>1. Handed \in {0, 1} /\ count \in Nat /\ (Handed = 1 => count > 0)
  BY BufferAssumption, ItemToConsume DEF Handed, IInv, TypeOK
<1>2. count - Handed \in Nat
  BY <1>1
<1>3. ASSUME NEW k \in 1..(count - Handed) PROVE buffer[Slot(Handed + k - 1)] \in Item
  <2>1. Handed + k - 1 \in 0..(count - 1)
    BY <1>1
  <2> QED
    BY <2>1 DEF IInv, RingFilled
<1>4. Waiting \in [1..(count - Handed) -> Item]
  BY <1>3 DEF Waiting
<1> QED
  BY <1>1, <1>2, <1>4, FunctionIsSeq DEF QueueType

LEMMA WaitingSeqNext == IInv' => QueueType'
BY WaitingSeq, PTL

(* Most steps leave the queue alone.                                       *)
LEMMA QueueStays ==
  ASSUME UNCHANGED <<ring, item>>, Handed' = Handed
  PROVE  UNCHANGED <<Waiting, Given>>
<1>1. UNCHANGED <<buffer, out, count, item>>
  BY DEF ring
<1>2. Waiting' = Waiting
  BY <1>1 DEF Waiting, Slot
<1>3. Given' = Given
  BY <1>1 DEF Given
<1> QED
  BY <1>2, <1>3

(* An item is put when its producer moves in.                              *)
LEMMA PutStep ==
  ASSUME IInv, IInv', NEW p \in Producer, AdvanceIn(p)
  PROVE  Queue!Put(buffer[in])
<1>0. /\ BUFFER_SIZE \in Nat \ {0} /\ count \in Nat /\ count < BUFFER_SIZE
      /\ count' = count + 1 /\ UNCHANGED <<buffer, out, item>>
      /\ in = Slot(count) /\ buffer[in] \in Item
  BY BufferAssumption, RoomToProduce DEF IInv, TypeOK, AdvanceIn, Goes, RingFilled
<1>1. Handed = 0 /\ Handed' = 0
  BY Alone, ThreadAssumption DEF IInv, TypeOK, AdvanceIn, Goes, Handed, Thread
<1>2. /\ Waiting \in Seq(Item) /\ Len(Waiting) = count
      /\ Waiting' \in Seq(Item) /\ Len(Waiting') = count + 1
  BY <1>0, <1>1, WaitingSeq, WaitingSeqNext DEF QueueType
<1>3. /\ Append(Waiting, buffer[in]) \in Seq(Item)
      /\ Len(Append(Waiting, buffer[in])) = count + 1
      /\ \A k \in 1..count : Append(Waiting, buffer[in])[k] = Waiting[k]
      /\ Append(Waiting, buffer[in])[count + 1] = buffer[in]
  BY <1>0, <1>2, AppendProperties
<1>4. ASSUME NEW k \in 1..(count + 1)
      PROVE  Waiting'[k] = Append(Waiting, buffer[in])[k]
  <2>1. Waiting'[k] = buffer[(out + (k - 1)) % BUFFER_SIZE]
    BY <1>0, <1>1 DEF Waiting, Slot
  <2>2. CASE k = count + 1
    BY <1>0, <1>3, <2>1, <2>2 DEF Slot
  <2>3. CASE k \in 1..count
    BY <1>0, <1>1, <1>3, <2>1, <2>3 DEF Waiting, Slot
  <2>4. k = count + 1 \/ k \in 1..count
    BY <1>0
  <2> QED
    BY <2>2, <2>3, <2>4
<1>5. Waiting' = Append(Waiting, buffer[in])
  BY <1>2, <1>3, <1>4, SeqEqual
<1>6. Given' = Given
  BY <1>0 DEF Given
<1> QED
  BY <1>0, <1>2, <1>5, <1>6 DEF Queue!Put

(* The item is got when the consumer has read it.                          *)
LEMMA GetStep ==
  ASSUME IInv, IInv', Read
  PROVE  Queue!Get
<1>0. /\ BUFFER_SIZE \in Nat \ {0} /\ count \in Nat /\ count > 0
      /\ UNCHANGED <<buffer, out, count>> /\ item' = buffer[out]
  BY BufferAssumption, ItemToConsume DEF IInv, TypeOK, Read, Goes, ring
<1>1. Handed = 0 /\ Handed' = 1
  BY DEF IInv, TypeOK, Read, Goes, Handed, Thread
<1>2. /\ Waiting \in Seq(Item) /\ Len(Waiting) = count /\ Waiting # <<>>
      /\ Waiting' \in Seq(Item) /\ Len(Waiting') = count - 1
  BY <1>0, <1>1, WaitingSeq, WaitingSeqNext, EmptySeq DEF QueueType
<1>3. /\ Tail(Waiting) \in Seq(Item) /\ Len(Tail(Waiting)) = count - 1
      /\ \A k \in 1..(count - 1) : Tail(Waiting)[k] = Waiting[k + 1]
  BY <1>0, <1>2, HeadTailProperties
<1>4. ASSUME NEW k \in 1..(count - 1)
      PROVE  Waiting'[k] = Tail(Waiting)[k]
  <2>1. Waiting'[k] = buffer[(out + k) % BUFFER_SIZE]
    BY <1>0, <1>1 DEF Waiting, Slot
  <2>2. Waiting[k + 1] = buffer[(out + k) % BUFFER_SIZE]
    BY <1>0, <1>1 DEF Waiting, Slot
  <2> QED
    BY <1>3, <2>1, <2>2
<1>5. Waiting' = Tail(Waiting)
  BY <1>2, <1>3, <1>4, SeqEqual
<1>6. Given' = {Head(Waiting)}
  <2>1. Slot(0) = out
    <3>1. out \in Int /\ 0 <= out /\ out < BUFFER_SIZE /\ 0 \in 0..BUFFER_SIZE /\ TypeOK
      BY <1>0 DEF IInv, TypeOK, Index
    <3> QED
      BY <1>0, <3>1, SlotWrapped
  <2>2. Head(Waiting) = buffer[Slot(0)]
    BY <1>0, <1>1, <1>2 DEF Waiting
  <2>3. Head(Waiting) \in Item
    BY <1>2, HeadTailProperties
  <2> QED
    BY <1>0, <2>1, <2>2, <2>3, NullAssumption DEF Given
<1> QED
  BY <1>2, <1>5, <1>6 DEF Queue!Get

(* Moving out only forgets the item that has been handed over.             *)
LEMMA AdvanceOutStays ==
  ASSUME IInv, IInv', AdvanceOut
  PROVE  UNCHANGED <<Waiting, Given>>
<1>0. /\ BUFFER_SIZE \in Nat \ {0} /\ count \in 0..BUFFER_SIZE /\ count > 0 /\ TypeOK
      /\ out' = (out + 1) % BUFFER_SIZE /\ count' = count - 1 /\ UNCHANGED <<buffer, item>>
  BY BufferAssumption, ItemToConsume DEF IInv, TypeOK, AdvanceOut, Goes
<1>1. Handed = 1 /\ Handed' = 0
  BY DEF IInv, TypeOK, AdvanceOut, Goes, Handed, Thread
<1>2. /\ Waiting \in Seq(Item) /\ Len(Waiting) = count - 1
      /\ Waiting' \in Seq(Item) /\ Len(Waiting') = count - 1
  BY <1>0, <1>1, WaitingSeq, WaitingSeqNext DEF QueueType
<1>3. ASSUME NEW k \in 1..(count - 1) PROVE Waiting'[k] = Waiting[k]
  <2>1. PICK j \in 0..(BUFFER_SIZE - 1) : j = k - 1
    BY <1>0
  <2>2. Slot(j)' = Slot(j + 1)
    BY <1>0, SlotsStay
  <2>3. (out' + j) % BUFFER_SIZE = Slot(k)
    BY <2>1, <2>2 DEF Slot
  <2>4. Waiting'[k] = buffer[(out' + j) % BUFFER_SIZE]
    BY <1>0, <1>1, <2>1 DEF Waiting, Slot
  <2>5. Waiting[k] = buffer[Slot(k)]
    BY <1>0, <1>1 DEF Waiting
  <2> QED
    BY <2>3, <2>4, <2>5
<1>4. Waiting' = Waiting
  BY <1>2, <1>3, SeqEqual
<1> QED
  BY <1>0, <1>4 DEF Given

(* Writing a slot changes no item that waits.                              *)
LEMMA WriteStays ==
  ASSUME IInv, IInv', NEW p \in Producer, Write(p)
  PROVE  UNCHANGED <<Waiting, Given>>
<1>0. /\ BUFFER_SIZE \in Nat \ {0} /\ count \in Nat
      /\ UNCHANGED <<out, count, item>>
  BY BufferAssumption DEF IInv, TypeOK, Write, Goes
<1>1. Handed = 0 /\ Handed' = 0
  BY Alone, ThreadAssumption DEF IInv, TypeOK, Write, Goes, Handed, Thread
<1>2. /\ Waiting \in Seq(Item) /\ Len(Waiting) = count
      /\ Waiting' \in Seq(Item) /\ Len(Waiting') = count
  BY <1>0, <1>1, WaitingSeq, WaitingSeqNext DEF QueueType
<1>3. ASSUME NEW k \in 1..count PROVE Waiting'[k] = Waiting[k]
  <2>1. PICK j \in 0..(count - 1) : j = k - 1
    BY <1>0
  <2>2. buffer'[Slot(j)] = buffer[Slot(j)]
    BY WriteStep
  <2>3. Waiting'[k] = buffer'[Slot(j)]
    BY <1>0, <1>1, <2>1 DEF Waiting, Slot
  <2>4. Waiting[k] = buffer[Slot(j)]
    BY <1>0, <1>1, <2>1 DEF Waiting, Slot
  <2> QED
    BY <2>2, <2>3, <2>4
<1>4. Waiting' = Waiting
  BY <1>2, <1>3, SeqEqual
<1> QED
  BY <1>0, <1>4 DEF Given

LEMMA QueueStep == IInv /\ IInv' /\ [Next]_vars => [Queue!Next]_(Queue!vars)
<1> SUFFICES ASSUME IInv, IInv', [Next]_vars PROVE [Queue!Next]_(Queue!vars)
  OBVIOUS
<1>0. Consumer \in Thread /\ Consumer \notin Producer /\ Producer \subseteq Thread /\ TypeOK
  BY ThreadAssumption DEF Thread, IInv
<1>1. ASSUME UNCHANGED <<Waiting, Given>> PROVE [Queue!Next]_(Queue!vars)
  BY <1>1 DEF Queue!vars
<1>2. CASE UNCHANGED vars
  BY <1>1, <1>2, QueueStays DEF vars, Handed
<1>3. ASSUME NEW t \in Thread, Lock(t) \/ Unlock(t) PROVE [Queue!Next]_(Queue!vars)
  <2>1. UNCHANGED <<ring, item>> /\ Handed' = Handed
    BY <1>0, <1>3 DEF Lock, Unlock, Goes, Handed, TypeOK
  <2> QED
    BY <1>1, <2>1, QueueStays
<1>4. ASSUME NEW p \in Producer, WaitEmpty(p) \/ PostFilled(p) PROVE [Queue!Next]_(Queue!vars)
  <2>1. UNCHANGED <<ring, item>> /\ Handed' = Handed
    BY <1>0, <1>4 DEF WaitEmpty, PostFilled, Goes, Handed, TypeOK
  <2> QED
    BY <1>1, <2>1, QueueStays
<1>5. ASSUME NEW p \in Producer, Write(p) PROVE [Queue!Next]_(Queue!vars)
  BY <1>1, <1>5, WriteStays
<1>6. ASSUME NEW p \in Producer, AdvanceIn(p) PROVE [Queue!Next]_(Queue!vars)
  <2>1. Queue!Put(buffer[in])
    BY <1>6, PutStep
  <2>2. buffer[in] \in Item
    BY <1>6 DEF IInv, RingFilled, AdvanceIn, Goes
  <2> QED
    BY <2>1, <2>2 DEF Queue!Next
<1>7. CASE WaitFilled \/ PostEmpty
  <2>1. UNCHANGED <<ring, item>> /\ Handed' = Handed
    BY <1>0, <1>7 DEF WaitFilled, PostEmpty, Goes, Handed, TypeOK
  <2> QED
    BY <1>1, <2>1, QueueStays
<1>8. CASE Read
  BY <1>8, GetStep DEF Queue!Next
<1>9. CASE AdvanceOut
  BY <1>1, <1>9, AdvanceOutStays
<1> QED
  BY <1>0, <1>2, <1>3, <1>4, <1>5, <1>6, <1>7, <1>8, <1>9 DEF Next, ProducerStep, ConsumerStep

(* The ring implements a FIFO queue of BUFFER_SIZE items, for every size   *)
(* and any number of producers (product_consume_model.c:16-60).            *)
THEOREM Implementation == Spec => RingIsQueue
<1>1. Init => Queue!Init
  <2> SUFFICES ASSUME Init PROVE Queue!Init
    OBVIOUS
  <2>1. QueueType /\ count = 0 /\ item = NULL
    BY Start, WaitingSeq DEF Init
  <2>2. Waiting = <<>>
    BY <2>1, EmptySeq DEF QueueType
  <2> QED
    BY <2>1, <2>2 DEF Queue!Init, Given
<1> QED
  BY <1>1, QueueStep, Invariant, PTL DEF Spec, RingIsQueue, Queue!Spec
=============================================================================
