---------------------------- MODULE TripleBuffer ----------------------------
(***************************************************************************)
(* The producers and the consumer of examples/input_show/                  *)
(* triple_buffer_model.c: a buffer guarded by one mutex and two condition  *)
(* variables.  Everything between lock and unlock is one step, because all *)
(* of it runs under the mutex; the items themselves are left out.          *)
(***************************************************************************)
EXTENDS Integers, FiniteSets

CONSTANTS Producer,    \* the producer threads
          Consumer,    \* the consumer thread
          Nobody,      \* the owner of a free mutex
          BUFFER_SIZE  \* slots of the buffer

ASSUME BufferAssumption == BUFFER_SIZE \in Nat \ {0}
ASSUME ThreadAssumption == Consumer \notin Producer /\ Nobody \notin Producer \cup {Consumer}

Thread == Producer \cup {Consumer}

VARIABLES count, prod_count, cons_count, mutex,
          pc  \* each thread: about to lock, past its lock, or in pthread_cond_wait

counters == <<count, prod_count, cons_count>>
vars == <<counters, mutex, pc>>

TypeOK ==
  /\ count \in 0..BUFFER_SIZE /\ prod_count \in Nat /\ cons_count \in Nat
  /\ mutex \in Thread \cup {Nobody}
  /\ pc \in [Thread -> {"lock", "locked", "waiting"}]

Init ==
  /\ count = 0 /\ prod_count = 0 /\ cons_count = 0
  /\ mutex = Nobody
  /\ pc = [t \in Thread |-> "lock"]

(* Taking the mutex, at the top of the loop or on the way out of           *)
(* pthread_cond_wait: either way the condition is tested next.             *)
Lock(t) ==
  /\ pc[t] = "lock" /\ mutex = Nobody
  /\ mutex' = t
  /\ pc' = [pc EXCEPT ![t] = "locked"]
  /\ UNCHANGED counters

(* pthread_cond_wait releases the mutex.                                   *)
Wait(t) ==
  /\ pc[t] = "locked"
  /\ mutex' = Nobody
  /\ pc' = [pc EXCEPT ![t] = "waiting"]
  /\ UNCHANGED counters

(* pthread_cond_wait may return without a signal.                          *)
SpuriousWakeup(t) ==
  /\ pc[t] = "waiting"
  /\ pc' = [pc EXCEPT ![t] = "lock"]
  /\ UNCHANGED <<counters, mutex>>

(* t unlocks; one of the waiting threads, if there is any, is woken.       *)
SignalAndUnlock(t, waiters) ==
  LET waiting == {w \in waiters : pc[w] = "waiting"}
  IN /\ mutex' = Nobody
     /\ IF waiting = {} THEN pc' = [pc EXCEPT ![t] = "lock"]
        ELSE \E w \in waiting : pc' = [pc EXCEPT ![t] = "lock", ![w] = "lock"]

ProducerWait(p) == count = BUFFER_SIZE /\ Wait(p)

(* Mutant: the producer forgets to signal the consumer.                    *)
ProduceSilently(p) ==
  /\ pc[p] = "locked" /\ count # BUFFER_SIZE
  /\ count' = count + 1 /\ prod_count' = prod_count + 1
  /\ SignalAndUnlock(p, {})
  /\ UNCHANGED cons_count

(* Mutant: the producer does not look at the length of the queue.          *)
ProduceBlindly(p) ==
  /\ pc[p] = "locked"
  /\ count' = count + 1 /\ prod_count' = prod_count + 1
  /\ SignalAndUnlock(p, {Consumer})
  /\ UNCHANGED cons_count

Produce(p) ==
  /\ pc[p] = "locked" /\ count # BUFFER_SIZE
  /\ count' = count + 1 /\ prod_count' = prod_count + 1
  /\ SignalAndUnlock(p, {Consumer})
  /\ UNCHANGED cons_count

(* Mutant: only the length of the queue is tested.                         *)
NothingToReadByCount == count = 0

NothingToRead == count = 0 \/ cons_count >= prod_count

ConsumerWait == NothingToRead /\ Wait(Consumer)

(* The consumer counts what it has read but leaves count alone.            *)
Consume ==
  /\ pc[Consumer] = "locked" /\ ~NothingToRead
  /\ cons_count' = cons_count + 1
  /\ SignalAndUnlock(Consumer, Producer)
  /\ UNCHANGED <<count, prod_count>>

ProducerStep(p) == Lock(p) \/ ProducerWait(p) \/ Produce(p)
ConsumerStep == Lock(Consumer) \/ ConsumerWait \/ Consume

Next == \/ \E p \in Producer : ProducerStep(p)
        \/ ConsumerStep
        \/ \E t \in Thread : SpuriousWakeup(t)

Spec == Init /\ [][Next]_vars

(* Every thread runs and gets the mutex in the end; wake-ups that nobody   *)
(* signalled cannot be relied on.                                          *)
FairSpec == /\ Spec
            /\ \A p \in Producer : WF_vars(ProducerStep(p)) /\ SF_vars(Lock(p))
            /\ WF_vars(ConsumerStep) /\ SF_vars(Lock(Consumer))

-----------------------------------------------------------------------------
(* The consumer reads each item once, after it was written, and no item is *)
(* overwritten before it is read, although the two sides use different     *)
(* counters for their slots (lines 28 and 53) and neither ever wraps.      *)
ReadOnceAfterWrite == cons_count <= prod_count /\ prod_count = count /\ count <= BUFFER_SIZE

(* No wake-up of the consumer is lost: everything produced is consumed.    *)
AllConsumed == <>[](cons_count = BUFFER_SIZE)

(* A producer that finds the queue full waits for the consumer to consume  *)
(* and then goes on to produce (the comment on line 24).                   *)
ProducesAfterFull ==
  \A p \in Producer : (pc[p] = "waiting") ~> (mutex = p /\ count # BUFFER_SIZE)

-----------------------------------------------------------------------------
(* The inductive invariant.                                                *)

(* The mutex is held by the thread past its lock, and given up while it    *)
(* waits for a signal (lines 21-37, 46-60).                                *)
MutexHeld == \A t \in Thread : (mutex = t) <=> (pc[t] = "locked")

(* No wake-up is lost: a thread that still waits for its signal still has  *)
(* its reason to, since the other side signals whenever it changes what    *)
(* the thread has tested (lines 23-27, 32-33, 48-50, 57-58).               *)
NoWakeupLost ==
  /\ pc[Consumer] = "waiting" => NothingToRead
  /\ \A p \in Producer : pc[p] = "waiting" => count = BUFFER_SIZE

(* The invariant of the proofs (triple_buffer_model.c:15-63).              *)
IInv == TypeOK /\ MutexHeld /\ ReadOnceAfterWrite /\ NoWakeupLost
=============================================================================
