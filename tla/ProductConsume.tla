--------------------------- MODULE ProductConsume ---------------------------
(***************************************************************************)
(* The bounded buffer of examples/input_show/product_consume_model.c: two  *)
(* semaphores count the empty and the filled slots and a mutex guards the  *)
(* ring.  One action is one call, or the part of a critical section after  *)
(* which another thread could see a difference if the lock failed it.      *)
(***************************************************************************)
EXTENDS Integers, Sequences, FiniteSets

CONSTANTS Producer,     \* the producer threads
          Consumer,     \* the consumer thread
          Nobody,       \* the owner of a free mutex
          BUFFER_SIZE,  \* slots of the ring
          MaxItem,      \* bound on the items of one producer
          NULL          \* a slot never written

ASSUME BufferAssumption == BUFFER_SIZE \in Nat \ {0} /\ MaxItem \in Nat
ASSUME ThreadAssumption ==
  /\ IsFiniteSet(Producer)
  /\ Consumer \notin Producer /\ Nobody \notin Producer \cup {Consumer}

Index == 0..(BUFFER_SIZE - 1)
Thread == Producer \cup {Consumer}
(* An item, with the thread that made it to tell equal numbers apart.      *)
Item == Producer \X (1..MaxItem)

ASSUME NullAssumption == NULL \notin Item

VARIABLES buffer, in, out, count,  \* the ring
          empty_slots, filled_slots, mutex,
          pc,
          made,                    \* the next item of each producer
          item                     \* the item the consumer has read

ring == <<buffer, in, out, count>>
locks == <<empty_slots, filled_slots, mutex>>
vars == <<ring, locks, pc, made, item>>

TypeOK ==
  /\ buffer \in [Index -> Item \cup {NULL}]
  /\ in \in Index /\ out \in Index /\ count \in 0..BUFFER_SIZE
  /\ empty_slots \in 0..BUFFER_SIZE /\ filled_slots \in 0..BUFFER_SIZE
  /\ mutex \in Thread \cup {Nobody}
  /\ pc \in [Thread -> {"wait", "lock", "access", "advance", "unlock", "post"}]
  /\ made \in [Producer -> 1..(MaxItem + 1)]
  /\ item \in Item \cup {NULL}

Init ==
  /\ buffer = [k \in Index |-> NULL] /\ in = 0 /\ out = 0 /\ count = 0
  /\ empty_slots = BUFFER_SIZE /\ filled_slots = 0 /\ mutex = Nobody
  /\ pc = [t \in Thread |-> "wait"]
  /\ made = [p \in Producer |-> 1]
  /\ item = NULL

Goes(t, from, to) == pc[t] = from /\ pc' = [pc EXCEPT ![t] = to]

(* Mutant: the mutex is not waited for.                                    *)
LockNot(t) ==
  /\ Goes(t, "lock", "access")
  /\ mutex' = t
  /\ UNCHANGED <<ring, empty_slots, filled_slots, made, item>>

Lock(t) ==
  /\ Goes(t, "lock", "access") /\ mutex = Nobody
  /\ mutex' = t
  /\ UNCHANGED <<ring, empty_slots, filled_slots, made, item>>

Unlock(t) ==
  /\ Goes(t, "unlock", "post")
  /\ mutex' = Nobody
  /\ UNCHANGED <<ring, empty_slots, filled_slots, made, item>>

-----------------------------------------------------------------------------
(* producer.  The bound MaxItem stops it; the code goes on.                *)
WaitEmpty(p) ==
  /\ Goes(p, "wait", "lock") /\ empty_slots > 0 /\ made[p] <= MaxItem
  /\ empty_slots' = empty_slots - 1
  /\ UNCHANGED <<ring, filled_slots, mutex, made, item>>

Write(p) ==
  /\ Goes(p, "access", "advance")
  /\ buffer' = [buffer EXCEPT ![in] = <<p, made[p]>>]
  /\ made' = [made EXCEPT ![p] = @ + 1]
  /\ UNCHANGED <<in, out, count, locks, item>>

AdvanceIn(p) ==
  /\ Goes(p, "advance", "unlock")
  /\ in' = (in + 1) % BUFFER_SIZE /\ count' = count + 1
  /\ UNCHANGED <<buffer, out, locks, made, item>>

PostFilled(p) ==
  /\ Goes(p, "post", "wait")
  /\ filled_slots' = filled_slots + 1
  /\ UNCHANGED <<ring, empty_slots, mutex, made, item>>

(* consumer.                                                               *)
WaitFilled ==
  /\ Goes(Consumer, "wait", "lock") /\ filled_slots > 0
  /\ filled_slots' = filled_slots - 1
  /\ UNCHANGED <<ring, empty_slots, mutex, made, item>>

Read ==
  /\ Goes(Consumer, "access", "advance")
  /\ item' = buffer[out]
  /\ UNCHANGED <<ring, locks, made>>

AdvanceOut ==
  /\ Goes(Consumer, "advance", "unlock")
  /\ out' = (out + 1) % BUFFER_SIZE /\ count' = count - 1
  /\ UNCHANGED <<buffer, in, locks, made, item>>

(* Mutant: the consumer posts the wrong semaphore.                         *)
PostEmptyWrong ==
  /\ Goes(Consumer, "post", "wait")
  /\ filled_slots' = filled_slots + 1
  /\ UNCHANGED <<ring, empty_slots, mutex, made, item>>

(* Mutant: the consumer posts nothing.                                     *)
PostEmptyForgotten ==
  /\ Goes(Consumer, "post", "wait")
  /\ UNCHANGED <<ring, locks, made, item>>

PostEmpty ==
  /\ Goes(Consumer, "post", "wait")
  /\ empty_slots' = empty_slots + 1
  /\ UNCHANGED <<ring, filled_slots, mutex, made, item>>

-----------------------------------------------------------------------------
ProducerStep(p) == \/ WaitEmpty(p) \/ Lock(p) \/ Write(p) \/ AdvanceIn(p) \/ Unlock(p)
                   \/ PostFilled(p)
ConsumerStep == \/ WaitFilled \/ Lock(Consumer) \/ Read \/ AdvanceOut \/ Unlock(Consumer)
                \/ PostEmpty

Next == ConsumerStep \/ \E p \in Producer : ProducerStep(p)

Spec == Init /\ [][Next]_vars

(* Every thread runs; one that waits for a semaphore or the mutex gets it  *)
(* in the end if it is free again and again.                               *)
FairSpec == /\ Spec
            /\ \A p \in Producer : /\ WF_vars(ProducerStep(p))
                                   /\ SF_vars(WaitEmpty(p)) /\ SF_vars(Lock(p))
            /\ WF_vars(ConsumerStep) /\ SF_vars(Lock(Consumer))

-----------------------------------------------------------------------------
(* The ring as a queue: an item leaves it when the consumer has read it,   *)
(* a step before the consumer moves out.                                   *)
Handed == IF pc[Consumer] = "advance" THEN 1 ELSE 0
Slot(k) == (out + k) % BUFFER_SIZE

(* The items that wait, oldest first, and the item the consumer was given. *)
Waiting == [k \in 1..(count - Handed) |-> buffer[Slot(Handed + k - 1)]]
Given == IF item = NULL THEN {} ELSE {item}

Queue == INSTANCE BoundedQueue WITH N <- BUFFER_SIZE, queue <- Waiting, taken <- Given

(* The ring is a FIFO queue of at most BUFFER_SIZE items: none is          *)
(* overwritten before it is read and none is read twice, however many      *)
(* threads are between a semaphore and the mutex (lines 20-36, 43-58).     *)
RingIsQueue == Queue!Spec

Busy == {t \in Thread : pc[t] # "wait"}
Posting == {p \in Producer : pc[p] \in {"unlock", "post"}}
Consuming == IF pc[Consumer] \in {"lock", "access", "advance"} THEN 1 ELSE 0

(* Every slot is counted by one of the semaphores or on its way from one   *)
(* to the other with a thread that has waited and not posted yet, and      *)
(* count, which no code reads, agrees.                                     *)
SlotsAccounted ==
  /\ empty_slots + filled_slots + Cardinality(Busy) = BUFFER_SIZE
  /\ count = filled_slots + Cardinality(Posting) + Consuming

(* A thread that waits in a call: for the mutex, or for a slot.  The bound *)
(* MaxItem, which the code does not have, blocks nobody.                   *)
Blocked(t) ==
  \/ pc[t] = "lock" /\ mutex # Nobody
  \/ pc[t] = "wait" /\ IF t = Consumer THEN filled_slots = 0 ELSE empty_slots = 0

(* The threads are never all blocked: not by the order in which they take  *)
(* the semaphore and then the mutex (lines 20-21, 43-44), and not because  *)
(* no slot is counted by either semaphore.                                 *)
NeverStuck == Producer # {} => \E t \in Thread : ~Blocked(t)

(* No item is lost and no thread waits for ever: each item of each         *)
(* producer is consumed.                                                   *)
EveryItemConsumed == \A v \in Item : <>(item = v)

-----------------------------------------------------------------------------
(* The inductive invariant.                                                *)

MutexHeld ==
  \A t \in Thread : (mutex = t) <=> pc[t] \in {"access", "advance", "unlock"}

(* count, which no code reads, takes the one side of the ring to the other *)
(* (lines 29-30, 51-52), and the slots between them have been written.     *)
RingFilled ==
  /\ in = Slot(count)
  /\ \A k \in 0..(count - 1) : buffer[Slot(k)] \in Item
  /\ \A p \in Producer : pc[p] = "advance" => buffer[in] \in Item
  /\ \A p \in Producer : pc[p] \in {"lock", "access"} => made[p] <= MaxItem

(* The invariant of the proofs (product_consume_model.c:16-60).            *)
IInv == TypeOK /\ SlotsAccounted /\ MutexHeld /\ RingFilled
=============================================================================
