------------------------- MODULE TripleBufferProofs -------------------------
(***************************************************************************)
(* Proofs about TripleBuffer, for any set of producers and any size.       *)
(***************************************************************************)
EXTENDS TripleBuffer, TLAPS

LEMMA Start == Init => IInv
<1> SUFFICES ASSUME Init PROVE IInv
  OBVIOUS
<1>1. TypeOK
  BY BufferAssumption DEF Init, TypeOK
<1>2. MutexHeld
  BY ThreadAssumption DEF Init, MutexHeld, Thread
<1>3. ReadOnceAfterWrite
  BY BufferAssumption DEF Init, ReadOnceAfterWrite
<1>4. NoWakeupLost
  BY DEF Init, NoWakeupLost, Thread
<1> QED
  BY <1>1, <1>2, <1>3, <1>4 DEF IInv

(* Whoever is woken, only t gives up the mutex, nobody starts to wait, and *)
(* the only thread that may be woken is.                                   *)
LEMMA Signalled ==
  ASSUME IInv, NEW t \in Thread, pc[t] = "locked",
         NEW waiters \in SUBSET Thread, SignalAndUnlock(t, waiters)
  PROVE  /\ pc' \in [Thread -> {"lock", "locked", "waiting"}]
         /\ mutex' \in Thread \cup {Nobody}
         /\ MutexHeld'
         /\ \A u \in Thread : pc'[u] = "waiting" => pc[u] = "waiting" /\ waiters # {u}
<1> DEFINE waiting == {w \in waiters : pc[w] = "waiting"}
<1>1. mutex' = Nobody
  BY DEF SignalAndUnlock
<1>2. \A u \in Thread : pc[u] = "locked" => u = t
  BY DEF IInv, MutexHeld
<1>3. CASE waiting = {}
  <2>1. pc' = [pc EXCEPT ![t] = "lock"]
    BY <1>3 DEF SignalAndUnlock
  <2>2. \A u \in Thread : pc'[u] = "waiting" => pc[u] = "waiting" /\ waiters # {u}
    BY <1>3, <2>1 DEF IInv, TypeOK
  <2> QED
    BY <1>1, <1>2, <2>1, <2>2, ThreadAssumption DEF IInv, TypeOK, MutexHeld, Thread
<1>4. CASE waiting # {}
  <2>1. PICK w \in waiting : pc' = [pc EXCEPT ![t] = "lock", ![w] = "lock"]
    BY <1>4 DEF SignalAndUnlock
  <2>2. \A u \in Thread : pc'[u] = "waiting" => pc[u] = "waiting" /\ waiters # {u}
    BY <2>1 DEF IInv, TypeOK
  <2> QED
    BY <1>1, <1>2, <2>1, <2>2, ThreadAssumption DEF IInv, TypeOK, MutexHeld, Thread
<1> QED
  BY <1>3, <1>4

LEMMA LockStep == ASSUME IInv, NEW t \in Thread, Lock(t) PROVE IInv'
<1>1. TypeOK'
  BY DEF IInv, TypeOK, Lock, counters
<1>2. MutexHeld'
  BY ThreadAssumption DEF IInv, TypeOK, MutexHeld, Lock, Thread
<1>3. ReadOnceAfterWrite'
  BY DEF IInv, ReadOnceAfterWrite, Lock, counters
<1>4. NoWakeupLost'
  BY DEF IInv, TypeOK, NoWakeupLost, NothingToRead, Lock, counters, Thread
<1> QED
  BY <1>1, <1>2, <1>3, <1>4 DEF IInv

(* A thread only waits when its test has told it to.                       *)
LEMMA WaitStep ==
  ASSUME IInv, NEW t \in Thread, Wait(t),
         t = Consumer => NothingToRead, t \in Producer => count = BUFFER_SIZE
  PROVE  IInv'
<1>1. TypeOK'
  BY DEF IInv, TypeOK, Wait, counters
<1>2. MutexHeld'
  BY ThreadAssumption DEF IInv, TypeOK, MutexHeld, Wait, Thread
<1>3. ReadOnceAfterWrite'
  BY DEF IInv, ReadOnceAfterWrite, Wait, counters
<1>4. NoWakeupLost'
  BY DEF IInv, TypeOK, NoWakeupLost, NothingToRead, Wait, counters, Thread
<1> QED
  BY <1>1, <1>2, <1>3, <1>4 DEF IInv

LEMMA WakeupStep == ASSUME IInv, NEW t \in Thread, SpuriousWakeup(t) PROVE IInv'
<1>1. TypeOK'
  BY DEF IInv, TypeOK, SpuriousWakeup, counters
<1>2. MutexHeld'
  BY DEF IInv, TypeOK, MutexHeld, SpuriousWakeup
<1>3. ReadOnceAfterWrite'
  BY DEF IInv, ReadOnceAfterWrite, SpuriousWakeup, counters
<1>4. NoWakeupLost'
  BY DEF IInv, TypeOK, NoWakeupLost, NothingToRead, SpuriousWakeup, counters, Thread
<1> QED
  BY <1>1, <1>2, <1>3, <1>4 DEF IInv

(* The producer leaves the length it has tested within the buffer.         *)
LEMMA ProduceStep == ASSUME IInv, NEW p \in Producer, Produce(p) PROVE IInv'
<1>1. /\ pc' \in [Thread -> {"lock", "locked", "waiting"}]
      /\ mutex' \in Thread \cup {Nobody}
      /\ MutexHeld'
      /\ \A u \in Thread : pc'[u] = "waiting" => pc[u] = "waiting" /\ {Consumer} # {u}
  <2>1. p \in Thread /\ {Consumer} \in SUBSET Thread
    BY DEF Thread
  <2> QED
    BY <2>1, Signalled DEF Produce
<1>2. count' \in 0..BUFFER_SIZE /\ prod_count' \in Nat /\ cons_count' \in Nat
  BY BufferAssumption DEF IInv, TypeOK, Produce
<1>3. ReadOnceAfterWrite'
  BY BufferAssumption DEF IInv, TypeOK, ReadOnceAfterWrite, Produce
<1>4. NoWakeupLost'
  <2>1. pc'[Consumer] # "waiting"
    BY <1>1 DEF Thread
  <2>2. \A q \in Producer : pc'[q] # "waiting"
    BY <1>1 DEF Thread, IInv, NoWakeupLost, Produce
  <2> QED
    BY <2>1, <2>2 DEF NoWakeupLost
<1> QED
  BY <1>1, <1>2, <1>3, <1>4 DEF IInv, TypeOK

(* The consumer stays behind the producers.                                *)
LEMMA ConsumeStep == ASSUME IInv, Consume PROVE IInv'
<1>1. /\ pc' \in [Thread -> {"lock", "locked", "waiting"}]
      /\ mutex' \in Thread \cup {Nobody}
      /\ MutexHeld'
      /\ \A u \in Thread : pc'[u] = "waiting" => pc[u] = "waiting"
  <2>1. Consumer \in Thread /\ Producer \in SUBSET Thread
    BY DEF Thread
  <2> QED
    BY <2>1, Signalled DEF Consume
<1>2. count' \in 0..BUFFER_SIZE /\ prod_count' \in Nat /\ cons_count' \in Nat
  BY DEF IInv, TypeOK, Consume
<1>3. ReadOnceAfterWrite'
  BY BufferAssumption DEF IInv, TypeOK, ReadOnceAfterWrite, Consume, NothingToRead
<1>4. NoWakeupLost'
  <2>1. pc'[Consumer] # "waiting"
    BY <1>1 DEF Thread, Consume
  <2>2. \A q \in Producer : pc'[q] = "waiting" => count = BUFFER_SIZE
    BY <1>1 DEF Thread, IInv, NoWakeupLost
  <2> QED
    BY <2>1, <2>2 DEF NoWakeupLost, Consume
<1> QED
  BY <1>1, <1>2, <1>3, <1>4 DEF IInv, TypeOK

-----------------------------------------------------------------------------
(* Mutex and counters agree for any number of threads and any buffer size  *)
(* (triple_buffer_model.c:15-63).                                          *)
THEOREM Invariant == Spec => []IInv
<1>1. ASSUME IInv, [Next]_vars PROVE IInv'
  <2>1. CASE UNCHANGED vars
    BY <1>1, <2>1 DEF vars, counters, IInv, TypeOK, MutexHeld, ReadOnceAfterWrite,
                      NoWakeupLost, NothingToRead
  <2>2. ASSUME NEW p \in Producer, ProducerStep(p) PROVE IInv'
    <3>1. p \in Thread /\ p # Consumer
      BY ThreadAssumption DEF Thread
    <3> QED
      BY <1>1, <2>2, <3>1, LockStep, WaitStep, ProduceStep DEF ProducerStep, ProducerWait
  <2>3. CASE ConsumerStep
    <3>1. Consumer \in Thread \ Producer
      BY ThreadAssumption DEF Thread
    <3> QED
      BY <1>1, <2>3, <3>1, LockStep, WaitStep, ConsumeStep DEF ConsumerStep, ConsumerWait
  <2> QED
    BY <1>1, <2>1, <2>2, <2>3, WakeupStep DEF Next
<1> QED
  BY <1>1, Start, PTL DEF Spec

(* Each slot is read once, after it was written, and none is overwritten   *)
(* (triple_buffer_model.c:23-31, 48-54).                                   *)
THEOREM NothingOverwritten == Spec => []ReadOnceAfterWrite
BY Invariant, PTL DEF IInv

(* Every thread that waits for a signal still has its reason to: waking    *)
(* only one thread at a time is enough, however many producers there are   *)
(* (triple_buffer_model.c:33, 58).                                         *)
THEOREM SignalsSuffice == Spec => []NoWakeupLost
BY Invariant, PTL DEF IInv

(* What the finding of the run triple_buffer_full shows for one instance:  *)
(* once the buffer is full it stays full, whatever the consumer consumes,  *)
(* and no producer ever produces again (lines 23-29, 53).                  *)
THEOREM FullForEver ==
  Spec => [](count = BUFFER_SIZE => [](count = BUFFER_SIZE /\ prod_count = BUFFER_SIZE))
<1> DEFINE Full == count = BUFFER_SIZE
<1>1. ASSUME Full, [Next]_vars PROVE Full'
  BY <1>1 DEF Next, vars, counters, ProducerStep, ConsumerStep, Lock, ProducerWait,
              ConsumerWait, Wait, Produce, Consume, SpuriousWakeup
<1>2. IInv => (Full => count = BUFFER_SIZE /\ prod_count = BUFFER_SIZE)
  BY DEF IInv, ReadOnceAfterWrite
<1> HIDE DEF Full
<1>3. Spec => [](Full => [](count = BUFFER_SIZE /\ prod_count = BUFFER_SIZE))
  BY <1>1, <1>2, Invariant, PTL DEF Spec
<1> QED
  BY <1>3 DEF Full
=============================================================================
