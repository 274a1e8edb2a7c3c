--------------------------- MODULE MBufferProofs ---------------------------
(***************************************************************************)
(* Proofs about MBuffer and MBufferOrder, for any number of produce        *)
(* threads, frames and semaphore tokens.                                   *)
(***************************************************************************)
EXTENDS MBufferOrder, SequenceTheorems, FiniteSetTheorems, TLAPS

-----------------------------------------------------------------------------
(* What pop() leaves of a queue.                                           *)
LEMMA PopFacts ==
  ASSUME NEW S, NEW s \in Seq(S), s # <<>>
  PROVE  /\ Tail(s) \in Seq(S)
         /\ Head(s) \in S
         /\ Range(s) = {Head(s)} \cup Range(Tail(s))
         /\ IsInjective(s) => IsInjective(Tail(s)) /\ Head(s) \notin Range(Tail(s))
<1>1. /\ Tail(s) \in Seq(S) /\ Len(s) \in Nat \ {0} /\ Len(Tail(s)) = Len(s) - 1
      /\ Head(s) = s[1] /\ Head(s) \in S
      /\ \A k \in 1..Len(Tail(s)) : Tail(s)[k] = s[k + 1]
  BY HeadTailProperties
<1>2. DOMAIN s = 1..Len(s) /\ DOMAIN Tail(s) = 1..Len(Tail(s))
  BY <1>1, LenProperties
<1>3. Range(s) = {Head(s)} \cup Range(Tail(s))
  <2>1. ASSUME NEW k \in DOMAIN s
        PROVE  s[k] \in {Head(s)} \cup Range(Tail(s))
    <3>1. CASE k = 1
      BY <3>1, <1>1
    <3>2. CASE k # 1
      <4>1. k - 1 \in 1..Len(Tail(s)) /\ (k - 1) + 1 = k
        BY <3>2, <1>1, <1>2
      <4>2. Tail(s)[k - 1] = s[k]
        BY <4>1, <1>1
      <4> QED
        BY <4>1, <4>2, <1>2 DEF Range
    <3> QED
      BY <3>1, <3>2
  <2>2. ASSUME NEW k \in DOMAIN Tail(s)
        PROVE  Tail(s)[k] \in Range(s)
    <3>1. k + 1 \in DOMAIN s /\ Tail(s)[k] = s[k + 1]
      BY <1>1, <1>2
    <3> QED
      BY <3>1 DEF Range
  <2>3. Head(s) \in Range(s)
    BY <1>1, <1>2 DEF Range
  <2> QED
    BY <2>1, <2>2, <2>3 DEF Range
<1>4. ASSUME IsInjective(s)
      PROVE  IsInjective(Tail(s)) /\ Head(s) \notin Range(Tail(s))
  <2>1. \A k \in DOMAIN Tail(s) : k + 1 \in DOMAIN s /\ k + 1 # 1 /\ Tail(s)[k] = s[k + 1]
    BY <1>1, <1>2
  <2>2. Head(s) \notin Range(Tail(s))
    BY <1>1, <1>2, <1>4, <2>1 DEF Range, IsInjective
  <2>3. ASSUME NEW k \in DOMAIN Tail(s), NEW l \in DOMAIN Tail(s), Tail(s)[k] = Tail(s)[l]
        PROVE  k = l
    <3>1. k + 1 = l + 1
      BY <1>4, <2>1, <2>3 DEF IsInjective
    <3> QED
      BY <3>1, <1>1, <1>2
  <2> QED
    BY <2>2, <2>3 DEF IsInjective
<1> QED
  BY <1>1, <1>3, <1>4

(* What push() makes of a queue.                                           *)
LEMMA PushFacts ==
  ASSUME NEW S, NEW s \in Seq(S), NEW e \in S
  PROVE  /\ Append(s, e) \in Seq(S)
         /\ Append(s, e) # <<>>
         /\ s # <<>> => Head(Append(s, e)) = Head(s)
         /\ Range(Append(s, e)) = Range(s) \cup {e}
         /\ IsInjective(s) /\ e \notin Range(s) => IsInjective(Append(s, e))
<1>1. /\ Append(s, e) \in Seq(S) /\ Append(s, e) # <<>>
      /\ Len(Append(s, e)) = Len(s) + 1 /\ Len(s) \in Nat
      /\ \A k \in 1..Len(s) : Append(s, e)[k] = s[k]
      /\ Append(s, e)[Len(s) + 1] = e
  BY AppendProperties, LenProperties
<1>2. DOMAIN s = 1..Len(s) /\ DOMAIN Append(s, e) = 1..(Len(s) + 1)
  BY <1>1, LenProperties
<1>3. s # <<>> => Head(Append(s, e)) = Head(s)
  BY HeadTailAppend
<1>4. Range(Append(s, e)) = Range(s) \cup {e}
  BY <1>1, <1>2 DEF Range
<1>5. IsInjective(s) /\ e \notin Range(s) => IsInjective(Append(s, e))
  BY <1>1, <1>2 DEF Range, IsInjective
<1> QED
  BY <1>1, <1>3, <1>4, <1>5

-----------------------------------------------------------------------------
(* The part of the invariant that does not compare frames: types, owners   *)
(* of the mutexes, local variables, order of the start.                    *)
LocalInv == TypeOK /\ LockOwnership /\ HeldFrame /\ NotStarted

(* No step of a thread of m_buffer.cpp breaks the part of the invariant    *)
(* that is local to the threads and their mutexes.                         *)
LEMMA LocalStep == LocalInv /\ [Next]_vars => LocalInv'
<1> SUFFICES ASSUME LocalInv, [Next]_vars PROVE LocalInv'
  OBVIOUS
<1> USE IdAssumption DEF LocalInv, ProducePc, ConsumePc, StartPc,
        queues, mutexes, semaphores, producers, consumer, starter, others,
        Goes, ConsumerGoes
<1>1. CASE StartRefused
  <2> USE <1>1 DEF StartRefused
  <2>1. TypeOK'
    BY NumAssumption DEF TypeOK, Producer
  <2>2. LockOwnership'
    BY DEF LockOwnership
  <2>3. HeldFrame'
    BY DEF HeldFrame
  <2>4. NotStarted'
    BY NumAssumption DEF TypeOK, NotStarted, Producer
  <2> QED
    BY <2>1, <2>2, <2>3, <2>4
<1>2. CASE StartConsumer
  <2> USE <1>2 DEF StartConsumer
  <2>1. TypeOK'
    BY NumAssumption DEF TypeOK, Producer
  <2>2. LockOwnership'
    BY DEF NotStarted, LockOwnership, Producer
  <2>3. HeldFrame'
    BY DEF HeldFrame
  <2>4. NotStarted'
    BY NumAssumption DEF TypeOK, NotStarted, Producer
  <2> QED
    BY <2>1, <2>2, <2>3, <2>4
<1>3. CASE StartProducer
  <2> USE <1>3 DEF StartProducer
  <2>1. TypeOK'
    <3>1. m_i \in Producer /\ m_i' \in 1..(MaxProduceThreadNum + 1)
      BY NumAssumption DEF TypeOK, Producer
    <3>2. p_pc' \in [Producer -> ProducePc]
      BY <3>1 DEF TypeOK, ProducePc
    <3> QED
      BY <3>1, <3>2 DEF TypeOK
  <2>2. LockOwnership'
    <3>1. m_i \in Producer /\ p_pc[m_i] = "none"
      BY NumAssumption DEF TypeOK, NotStarted, Producer
    <3> QED
      BY <3>1 DEF TypeOK, LockOwnership
  <2>3. HeldFrame'
    BY DEF TypeOK, HeldFrame
  <2>4. NotStarted'
    BY NumAssumption DEF TypeOK, NotStarted, Producer
  <2> QED
    BY <2>1, <2>2, <2>3, <2>4
<1>4. CASE StartProducersDone
  <2> USE <1>4 DEF StartProducersDone
  <2>1. TypeOK'
    BY NumAssumption DEF TypeOK, Producer
  <2>2. LockOwnership'
    BY DEF LockOwnership
  <2>3. HeldFrame'
    BY DEF HeldFrame
  <2>4. NotStarted'
    BY NumAssumption DEF TypeOK, NotStarted, Producer
  <2> QED
    BY <2>1, <2>2, <2>3, <2>4
<1>5. CASE StartTimetick
  <2> USE <1>5 DEF StartTimetick
  <2>1. TypeOK'
    BY NumAssumption DEF TypeOK, Producer
  <2>2. LockOwnership'
    BY DEF LockOwnership
  <2>3. HeldFrame'
    BY DEF HeldFrame
  <2>4. NotStarted'
    BY NumAssumption DEF TypeOK, NotStarted, Producer
  <2> QED
    BY <2>1, <2>2, <2>3, <2>4
<1>6. CASE TickProducer
  <2> USE <1>6 DEF TickProducer
  <2>1. TypeOK'
    BY NumAssumption DEF TypeOK, Producer, Posted
  <2>2. LockOwnership'
    BY DEF LockOwnership
  <2>3. HeldFrame'
    BY DEF HeldFrame
  <2>4. NotStarted'
    BY NumAssumption DEF TypeOK, NotStarted, Producer
  <2> QED
    BY <2>1, <2>2, <2>3, <2>4
<1>7. CASE TickConsumer
  <2> USE <1>7 DEF TickConsumer
  <2>1. TypeOK'
    BY NumAssumption DEF TypeOK, Producer, Posted
  <2>2. LockOwnership'
    BY DEF LockOwnership
  <2>3. HeldFrame'
    BY DEF HeldFrame
  <2>4. NotStarted'
    BY NumAssumption DEF TypeOK, NotStarted, Producer
  <2> QED
    BY <2>1, <2>2, <2>3, <2>4
<1>8. ASSUME NEW i \in Producer, Produce(i) PROVE LocalInv'
  <2>1. CASE ProduceWait(i)
    <3> USE <2>1 DEF ProduceWait
    <3>1. TypeOK'
      BY NumAssumption DEF TypeOK, HeldFrame
    <3>2. LockOwnership'
      BY DEF TypeOK, LockOwnership
    <3>3. HeldFrame'
      BY DEF TypeOK, LockOwnership, HeldFrame
    <3>4. NotStarted'
      BY DEF TypeOK, NotStarted
    <3> QED
      BY <3>1, <3>2, <3>3, <3>4
  <2>2. CASE ProduceTryLock(i)
    <3> USE <2>2 DEF ProduceTryLock
    <3>1. TypeOK'
      BY DEF TypeOK, HeldFrame
    <3>2. LockOwnership'
      BY DEF TypeOK, LockOwnership
    <3>3. HeldFrame'
      BY DEF TypeOK, LockOwnership, HeldFrame
    <3>4. NotStarted'
      BY DEF TypeOK, NotStarted
    <3> QED
      BY <3>1, <3>2, <3>3, <3>4
  <2>3. CASE ProduceTryLockBusy(i)
    <3> USE <2>3 DEF ProduceTryLockBusy
    <3>1. TypeOK'
      BY DEF TypeOK, HeldFrame
    <3>2. LockOwnership'
      BY DEF TypeOK, LockOwnership
    <3>3. HeldFrame'
      BY DEF TypeOK, LockOwnership, HeldFrame
    <3>4. NotStarted'
      BY DEF TypeOK, NotStarted
    <3> QED
      BY <3>1, <3>2, <3>3, <3>4
  <2>4. CASE ProduceFront(i)
    <3> USE <2>4 DEF ProduceFront
    <3>1. TypeOK'
      <4>1. CASE p_queue = <<>>
        BY <4>1 DEF TypeOK
      <4>2. CASE p_queue # <<>>
        <5>1. Head(p_queue) \in Task
          BY <4>2, PopFacts DEF TypeOK
        <5>2. p_pc' \in [Producer -> ProducePc]
          BY <4>2 DEF TypeOK, ProducePc
        <5>3. p_task' \in [Producer -> Task \cup {NULL}]
          BY <4>2, <5>1 DEF TypeOK
        <5> QED
          BY <5>2, <5>3 DEF TypeOK
      <4> QED
        BY <4>1, <4>2
    <3>2. LockOwnership'
      BY DEF TypeOK, LockOwnership
    <3>3. HeldFrame'
      BY PopFacts DEF TypeOK, LockOwnership, HeldFrame
    <3>4. NotStarted'
      BY DEF TypeOK, NotStarted
    <3> QED
      BY <3>1, <3>2, <3>3, <3>4
  <2>5. CASE ProducePop(i)
    <3> USE <2>5 DEF ProducePop
    <3>1. TypeOK'
      BY PopFacts DEF TypeOK, HeldFrame
    <3>2. LockOwnership'
      BY DEF TypeOK, LockOwnership
    <3>3. HeldFrame'
      BY PopFacts DEF TypeOK, LockOwnership, HeldFrame
    <3>4. NotStarted'
      BY DEF TypeOK, NotStarted
    <3> QED
      BY <3>1, <3>2, <3>3, <3>4
  <2>6. CASE ProduceUnlock(i)
    <3> USE <2>6 DEF ProduceUnlock
    <3>1. TypeOK'
      BY DEF TypeOK, HeldFrame
    <3>2. LockOwnership'
      BY DEF TypeOK, LockOwnership
    <3>3. HeldFrame'
      BY DEF TypeOK, LockOwnership, HeldFrame
    <3>4. NotStarted'
      BY DEF TypeOK, NotStarted
    <3> QED
      BY <3>1, <3>2, <3>3, <3>4
  <2>7. CASE ProduceTask(i)
    <3> USE <2>7 DEF ProduceTask
    <3>1. TypeOK'
      BY DEF TypeOK, HeldFrame
    <3>2. LockOwnership'
      BY DEF TypeOK, LockOwnership
    <3>3. HeldFrame'
      BY DEF TypeOK, LockOwnership, HeldFrame
    <3>4. NotStarted'
      BY DEF TypeOK, NotStarted
    <3> QED
      BY <3>1, <3>2, <3>3, <3>4
  <2>8. CASE ProduceLockC(i)
    <3> USE <2>8 DEF ProduceLockC
    <3>1. TypeOK'
      BY DEF TypeOK, HeldFrame
    <3>2. LockOwnership'
      BY DEF TypeOK, LockOwnership
    <3>3. HeldFrame'
      BY DEF TypeOK, LockOwnership, HeldFrame
    <3>4. NotStarted'
      BY DEF TypeOK, NotStarted
    <3> QED
      BY <3>1, <3>2, <3>3, <3>4
  <2>9. CASE ProducePush(i)
    <3> USE <2>9 DEF ProducePush
    <3>1. TypeOK'
      BY PushFacts DEF TypeOK, HeldFrame
    <3>2. LockOwnership'
      BY DEF TypeOK, LockOwnership
    <3>3. HeldFrame'
      BY PushFacts DEF TypeOK, LockOwnership, HeldFrame
    <3>4. NotStarted'
      BY DEF TypeOK, NotStarted
    <3> QED
      BY <3>1, <3>2, <3>3, <3>4
  <2>10. CASE ProduceUnlockC(i)
    <3> USE <2>10 DEF ProduceUnlockC
    <3>1. TypeOK'
      BY DEF TypeOK, HeldFrame
    <3>2. LockOwnership'
      BY DEF TypeOK, LockOwnership
    <3>3. HeldFrame'
      BY DEF TypeOK, LockOwnership, HeldFrame
    <3>4. NotStarted'
      BY DEF TypeOK, NotStarted
    <3> QED
      BY <3>1, <3>2, <3>3, <3>4
  <2> QED
    BY <1>8, <2>1, <2>2, <2>3, <2>4, <2>5, <2>6, <2>7, <2>8, <2>9, <2>10 DEF Produce
<1>9. CASE ConsumeWait
  <2> USE <1>9 DEF ConsumeWait
  <2>1. TypeOK'
    BY NumAssumption DEF TypeOK, HeldFrame
  <2>2. LockOwnership'
    BY DEF TypeOK, LockOwnership
  <2>3. HeldFrame'
    BY DEF TypeOK, LockOwnership, HeldFrame
  <2>4. NotStarted'
    BY DEF TypeOK, NotStarted
  <2> QED
    BY <2>1, <2>2, <2>3, <2>4
<1>10. CASE ConsumeLockC
  <2> USE <1>10 DEF ConsumeLockC
  <2>1. TypeOK'
    BY DEF TypeOK, HeldFrame
  <2>2. LockOwnership'
    BY DEF TypeOK, LockOwnership
  <2>3. HeldFrame'
    BY DEF TypeOK, LockOwnership, HeldFrame
  <2>4. NotStarted'
    BY DEF TypeOK, NotStarted
  <2> QED
    BY <2>1, <2>2, <2>3, <2>4
<1>11. CASE ConsumeFront
  <2> USE <1>11 DEF ConsumeFront
  <2>1. TypeOK'
    BY PopFacts DEF TypeOK, HeldFrame
  <2>2. LockOwnership'
    BY DEF TypeOK, LockOwnership
  <2>3. HeldFrame'
    BY PopFacts DEF TypeOK, LockOwnership, HeldFrame
  <2>4. NotStarted'
    BY DEF TypeOK, NotStarted
  <2> QED
    BY <2>1, <2>2, <2>3, <2>4
<1>12. CASE ConsumePop
  <2> USE <1>12 DEF ConsumePop
  <2>1. TypeOK'
    BY PopFacts DEF TypeOK, HeldFrame
  <2>2. LockOwnership'
    BY DEF TypeOK, LockOwnership
  <2>3. HeldFrame'
    BY PopFacts DEF TypeOK, LockOwnership, HeldFrame
  <2>4. NotStarted'
    BY DEF TypeOK, NotStarted
  <2> QED
    BY <2>1, <2>2, <2>3, <2>4
<1>13. CASE ConsumeUnlockC
  <2> USE <1>13 DEF ConsumeUnlockC
  <2>1. TypeOK'
    BY DEF TypeOK, HeldFrame
  <2>2. LockOwnership'
    BY DEF TypeOK, LockOwnership
  <2>3. HeldFrame'
    BY DEF TypeOK, LockOwnership, HeldFrame
  <2>4. NotStarted'
    BY DEF TypeOK, NotStarted
  <2> QED
    BY <2>1, <2>2, <2>3, <2>4
<1>14. CASE ConsumeTask
  <2> USE <1>14 DEF ConsumeTask
  <2>1. TypeOK'
    BY DEF TypeOK, HeldFrame
  <2>2. LockOwnership'
    BY DEF TypeOK, LockOwnership
  <2>3. HeldFrame'
    BY DEF TypeOK, LockOwnership, HeldFrame
  <2>4. NotStarted'
    BY DEF TypeOK, NotStarted
  <2> QED
    BY <2>1, <2>2, <2>3, <2>4
<1>15. CASE ConsumeLockP
  <2> USE <1>15 DEF ConsumeLockP
  <2>1. TypeOK'
    BY DEF TypeOK, HeldFrame
  <2>2. LockOwnership'
    BY DEF TypeOK, LockOwnership
  <2>3. HeldFrame'
    BY DEF TypeOK, LockOwnership, HeldFrame
  <2>4. NotStarted'
    BY DEF TypeOK, NotStarted
  <2> QED
    BY <2>1, <2>2, <2>3, <2>4
<1>16. CASE ConsumePush
  <2> USE <1>16 DEF ConsumePush
  <2>1. TypeOK'
    BY PushFacts DEF TypeOK, HeldFrame
  <2>2. LockOwnership'
    BY DEF TypeOK, LockOwnership
  <2>3. HeldFrame'
    BY PushFacts DEF TypeOK, LockOwnership, HeldFrame
  <2>4. NotStarted'
    BY DEF TypeOK, NotStarted
  <2> QED
    BY <2>1, <2>2, <2>3, <2>4
<1>17. CASE ConsumeUnlockP
  <2> USE <1>17 DEF ConsumeUnlockP
  <2>1. TypeOK'
    BY DEF TypeOK, HeldFrame
  <2>2. LockOwnership'
    BY DEF TypeOK, LockOwnership
  <2>3. HeldFrame'
    BY DEF TypeOK, LockOwnership, HeldFrame
  <2>4. NotStarted'
    BY DEF TypeOK, NotStarted
  <2> QED
    BY <2>1, <2>2, <2>3, <2>4
<1>18. CASE UNCHANGED vars
  BY <1>18 DEF vars, TypeOK, LockOwnership, HeldFrame, NotStarted
<1> QED
  BY <1>1, <1>2, <1>3, <1>4, <1>5, <1>6, <1>7, <1>8, <1>9, <1>10, <1>11, <1>12, <1>13,
     <1>14, <1>15, <1>16, <1>17, <1>18
     DEF Next, Start, Timetick, Consume

-----------------------------------------------------------------------------
(* What a step does to the frames: nothing but forget some that lack a     *)
(* callback, or move one frame from a queue to a thread or back.           *)
Stay ==
  /\ UNCHANGED <<p_queue, c_queue>>
  /\ \A j \in Producer :
       /\ Drawing(j)' \subseteq Drawing(j)
       /\ Drawing(j) \ NoProduce \subseteq Drawing(j)'
  /\ Showing' \subseteq Showing
  /\ Showing \ NoConsume \subseteq Showing'

MoveToDrawing(i, f) ==
  /\ p_queue # <<>> /\ f = Head(p_queue) /\ p_queue' = Tail(p_queue)
  /\ Drawing(i) = {} /\ Drawing(i)' = {f}
  /\ \A j \in Producer \ {i} : Drawing(j)' = Drawing(j)
  /\ c_queue' = c_queue /\ Showing' = Showing

MoveToReady(i, f) ==
  /\ Drawing(i) = {f} /\ f \notin NoProduce /\ Drawing(i)' = {}
  /\ c_queue' = Append(c_queue, f)
  /\ \A j \in Producer \ {i} : Drawing(j)' = Drawing(j)
  /\ p_queue' = p_queue /\ Showing' = Showing

MoveToShowing(f) ==
  /\ c_queue # <<>> /\ f = Head(c_queue) /\ c_queue' = Tail(c_queue)
  /\ Showing = {} /\ Showing' = {f}
  /\ \A j \in Producer : Drawing(j)' = Drawing(j)
  /\ p_queue' = p_queue

MoveToFree(f) ==
  /\ Showing = {f} /\ f \notin NoConsume /\ Showing' = {}
  /\ p_queue' = Append(p_queue, f)
  /\ \A j \in Producer : Drawing(j)' = Drawing(j)
  /\ c_queue' = c_queue

Move ==
  \/ Stay
  \/ \E i \in Producer, f \in Task : MoveToDrawing(i, f) \/ MoveToReady(i, f)
  \/ \E f \in Task : MoveToShowing(f) \/ MoveToFree(f)

(* Every step moves at most one frame, from one place to the next one of   *)
(* the cycle, or drops a frame without a callback.                         *)
LEMMA FrameMoves == LocalInv /\ [Next]_vars => Move /\ buffer_task_size' = buffer_task_size
<1> SUFFICES ASSUME LocalInv, [Next]_vars
             PROVE  Move /\ buffer_task_size' = buffer_task_size
  OBVIOUS
<1> USE IdAssumption DEF LocalInv, TypeOK, HeldFrame,
        queues, mutexes, semaphores, producers, consumer, starter, others,
        Goes, ConsumerGoes
<1>1. CASE Start \/ Timetick \/ UNCHANGED vars
  BY <1>1 DEF Move, Stay, Drawing, Showing, Start, StartRefused, StartConsumer, StartProducer,
     StartProducersDone, StartTimetick, Timetick, TickProducer, TickConsumer, NotStarted, vars
<1>2. ASSUME NEW i \in Producer, Produce(i)
      PROVE  Move /\ buffer_task_size' = buffer_task_size
  <2>1. CASE ProducePop(i)
    <3>1. MoveToDrawing(i, Head(p_queue)) /\ Head(p_queue) \in Task
      BY <2>1, PopFacts DEF ProducePop, MoveToDrawing, Drawing, Showing
    <3> QED
      BY <2>1, <3>1 DEF Move, ProducePop
  <2>2. CASE ProducePush(i)
    <3>1. MoveToReady(i, p_task[i]) /\ p_task[i] \in Task
      BY <2>2 DEF ProducePush, MoveToReady, Drawing, Showing
    <3> QED
      BY <2>2, <3>1 DEF Move, ProducePush
  <2>3. CASE ProduceWait(i) \/ ProduceTryLock(i) \/ ProduceTryLockBusy(i) \/ ProduceFront(i)
    BY <2>3 DEF Move, Stay, Drawing, Showing,
       ProduceWait, ProduceTryLock, ProduceTryLockBusy, ProduceFront
  <2>4. CASE ProduceUnlock(i) \/ ProduceTask(i) \/ ProduceLockC(i) \/ ProduceUnlockC(i)
    BY <2>4 DEF Move, Stay, Drawing, Showing,
       ProduceUnlock, ProduceTask, ProduceLockC, ProduceUnlockC
  <2> QED
    BY <1>2, <2>1, <2>2, <2>3, <2>4 DEF Produce
<1>3. ASSUME Consume
      PROVE  Move /\ buffer_task_size' = buffer_task_size
  <2>1. CASE ConsumePop
    <3>1. MoveToShowing(Head(c_queue)) /\ Head(c_queue) \in Task
      BY <2>1, PopFacts DEF ConsumePop, MoveToShowing, Drawing, Showing
    <3> QED
      BY <2>1, <3>1 DEF Move, ConsumePop
  <2>2. CASE ConsumePush
    <3>1. MoveToFree(c_task) /\ c_task \in Task
      BY <2>2 DEF ConsumePush, MoveToFree, Drawing, Showing
    <3> QED
      BY <2>2, <3>1 DEF Move, ConsumePush
  <2>3. CASE ConsumeWait \/ ConsumeLockC \/ ConsumeFront \/ ConsumeUnlockC
    BY <2>3 DEF Move, Stay, Drawing, Showing,
       ConsumeWait, ConsumeLockC, ConsumeFront, ConsumeUnlockC
  <2>4. CASE ConsumeTask \/ ConsumeLockP \/ ConsumeUnlockP
    BY <2>4 DEF Move, Stay, Drawing, Showing, ConsumeTask, ConsumeLockP, ConsumeUnlockP
  <2> QED
    BY <1>3, <2>1, <2>2, <2>3, <2>4 DEF Consume
<1> QED
  BY <1>1, <1>2, <1>3 DEF Next

-----------------------------------------------------------------------------
(* No such move puts a frame in two places.                                *)
LEMMA ExclusionStep == TypeOK /\ FrameExclusive /\ Move => FrameExclusive'
<1> SUFFICES ASSUME TypeOK, FrameExclusive, Move PROVE FrameExclusive'
  OBVIOUS
<1>1. CASE Stay
  BY <1>1 DEF FrameExclusive, Stay
<1>2. ASSUME NEW i \in Producer, NEW f \in Task, MoveToDrawing(i, f)
      PROVE  FrameExclusive'
  <2>1. /\ Range(p_queue) = {f} \cup Range(Tail(p_queue))
        /\ IsInjective(Tail(p_queue)) /\ f \notin Range(Tail(p_queue))
    BY <1>2, PopFacts DEF TypeOK, FrameExclusive, MoveToDrawing
  <2> QED
    BY <1>2, <2>1 DEF FrameExclusive, MoveToDrawing
<1>3. ASSUME NEW i \in Producer, NEW f \in Task, MoveToReady(i, f)
      PROVE  FrameExclusive'
  <2>1. /\ f \notin Range(c_queue)
        /\ Range(c_queue') = Range(c_queue) \cup {f} /\ IsInjective(c_queue')
    BY <1>3, PushFacts DEF TypeOK, FrameExclusive, MoveToReady
  <2> QED
    BY <1>3, <2>1 DEF FrameExclusive, MoveToReady
<1>4. ASSUME NEW f \in Task, MoveToShowing(f)
      PROVE  FrameExclusive'
  <2>1. /\ Range(c_queue) = {f} \cup Range(Tail(c_queue))
        /\ IsInjective(Tail(c_queue)) /\ f \notin Range(Tail(c_queue))
    BY <1>4, PopFacts DEF TypeOK, FrameExclusive, MoveToShowing
  <2> QED
    BY <1>4, <2>1 DEF FrameExclusive, MoveToShowing
<1>5. ASSUME NEW f \in Task, MoveToFree(f)
      PROVE  FrameExclusive'
  <2>1. /\ f \notin Range(p_queue)
        /\ Range(p_queue') = Range(p_queue) \cup {f} /\ IsInjective(p_queue')
    BY <1>5, PushFacts DEF TypeOK, FrameExclusive, MoveToFree
  <2> QED
    BY <1>5, <2>1 DEF FrameExclusive, MoveToFree
<1> QED
  BY <1>1, <1>2, <1>3, <1>4, <1>5 DEF Move

(* The constructor leaves every frame in p_queue, once.                    *)
LEMMA InitialFrames ==
  Init => /\ p_queue \in Seq(Task) /\ IsInjective(p_queue)
          /\ Range(p_queue) = 1..buffer_task_size
          /\ Range(c_queue) = {} /\ IsInjective(c_queue)
          /\ Showing = {} /\ \A i \in Producer : Drawing(i) = {}
<1> SUFFICES ASSUME Init
             PROVE  /\ p_queue \in Seq(Task) /\ IsInjective(p_queue)
                    /\ Range(p_queue) = 1..buffer_task_size
                    /\ Range(c_queue) = {} /\ IsInjective(c_queue)
                    /\ Showing = {} /\ \A i \in Producer : Drawing(i) = {}
  OBVIOUS
<1>1. p_queue \in Seq(Task)
  <2>1. p_queue \in [1..buffer_task_size -> Task] /\ buffer_task_size \in Nat
    BY NumAssumption DEF Init, Task
  <2> QED
    BY <2>1, IsASeq
<1>2. IsInjective(p_queue) /\ Range(p_queue) = 1..buffer_task_size
  BY DEF Init, IsInjective, Range
<1>3. Range(c_queue) = {} /\ IsInjective(c_queue)
  BY DEF Init, IsInjective, Range
<1>4. Showing = {} /\ \A i \in Producer : Drawing(i) = {}
  BY DEF Init, Showing, Drawing
<1> QED
  BY <1>1, <1>2, <1>3, <1>4

(* The invariant holds of the object the constructor leaves.               *)
LEMMA InitInv == Init => IInv
<1> SUFFICES ASSUME Init PROVE IInv
  OBVIOUS
<1> USE NumAssumption, IdAssumption DEF Init
<1>1. TypeOK
  BY InitialFrames DEF TypeOK, ProducePc, ConsumePc, StartPc
<1>2. LockOwnership
  BY DEF LockOwnership
<1>3. HeldFrame /\ NotStarted
  BY DEF HeldFrame, NotStarted
<1>4. FrameExclusive
  BY InitialFrames DEF FrameExclusive
<1> QED
  BY <1>1, <1>2, <1>3, <1>4 DEF IInv

(* Every step of the threads keeps the invariant.                          *)
LEMMA InvStep == IInv /\ [Next]_vars => IInv'
BY LocalStep, FrameMoves, ExclusionStep DEF IInv, LocalInv

(* The invariant of the display model: m_buffer.cpp keeps its types, its   *)
(* mutexes and its frames in order for any number of threads and frames.   *)
THEOREM Invariant == Spec => []IInv
BY InitInv, InvStep, PTL DEF Spec

(* No semaphore, queue, position or local variable leaves its type.        *)
THEOREM TypeCorrect == Spec => []TypeOK
<1>1. IInv => TypeOK
  BY DEF IInv
<1> QED
  BY <1>1, Invariant, PTL

(* The queues are only touched under their mutex.                          *)
THEOREM MutualExclusion == Spec => []LockOwnership
<1>1. IInv => LockOwnership
  BY DEF IInv
<1> QED
  BY <1>1, Invariant, PTL

(* Who holds a mutex can always go on, so that a thread that waits for one *)
(* gets it: the locks of m_buffer.cpp:103-116 and 126-137 are free of      *)
(* deadlock for any number of threads and any length of a callback.        *)
THEOREM NoDeadlock == Spec => []OwnersRun
<1>1. ASSUME IInv PROVE OwnersRun
  <2>1. \A i \in Producer : p_mutex = i \/ c_mutex = i =>
          p_mutex # c_mutex /\ p_pc[i] \in {"front", "pop", "unlock", "push", "unlock_c"}
    BY <1>1 DEF IInv, LockOwnership
  <2>2. p_mutex = Consumer \/ c_mutex = Consumer =>
          p_mutex # c_mutex /\ c_pc \in {"push", "unlock_p", "front", "pop", "unlock_c"}
    BY <1>1 DEF IInv, LockOwnership
  <2> QED
    BY <2>1, <2>2 DEF OwnersRun, ProducerBlocked, ConsumerBlocked
<1> QED
  BY <1>1, Invariant, PTL

(* A frame is never in two places: no two callbacks run on one buffer.     *)
THEOREM Exclusion == Spec => []FrameExclusive
<1>1. IInv => FrameExclusive
  BY DEF IInv
<1> QED
  BY <1>1, Invariant, PTL

-----------------------------------------------------------------------------
(* No move takes a frame with both callbacks out of the cycle.             *)
LEMMA NoFrameLostStep ==
  TypeOK /\ NoFrameLost /\ Move /\ buffer_task_size' = buffer_task_size => NoFrameLost'
<1> DEFINE Kept(t) == \/ t \in Range(p_queue) \/ t \in Range(c_queue) \/ t \in Showing
                      \/ \E i \in Producer : t \in Drawing(i)
<1> SUFFICES ASSUME TypeOK, NoFrameLost, Move, buffer_task_size' = buffer_task_size,
                    NEW t \in (1..buffer_task_size) \ (NoProduce \cup NoConsume)
             PROVE  Kept(t)'
  BY DEF NoFrameLost, AllDrawing
<1>1. Kept(t)
  BY DEF NoFrameLost, AllDrawing
<1>2. CASE Stay
  BY <1>1, <1>2 DEF Stay
<1>3. ASSUME NEW i \in Producer, NEW f \in Task, MoveToDrawing(i, f)
      PROVE  Kept(t)'
  <2>1. Range(p_queue) = {f} \cup Range(p_queue')
    BY <1>3, PopFacts DEF TypeOK, MoveToDrawing
  <2> QED
    BY <1>1, <1>3, <2>1 DEF MoveToDrawing
<1>4. ASSUME NEW i \in Producer, NEW f \in Task, MoveToReady(i, f)
      PROVE  Kept(t)'
  <2>1. Range(c_queue') = Range(c_queue) \cup {f}
    BY <1>4, PushFacts DEF TypeOK, MoveToReady
  <2> QED
    BY <1>1, <1>4, <2>1 DEF MoveToReady
<1>5. ASSUME NEW f \in Task, MoveToShowing(f)
      PROVE  Kept(t)'
  <2>1. Range(c_queue) = {f} \cup Range(c_queue')
    BY <1>5, PopFacts DEF TypeOK, MoveToShowing
  <2> QED
    BY <1>1, <1>5, <2>1 DEF MoveToShowing
<1>6. ASSUME NEW f \in Task, MoveToFree(f)
      PROVE  Kept(t)'
  <2>1. Range(p_queue') = Range(p_queue) \cup {f}
    BY <1>6, PushFacts DEF TypeOK, MoveToFree
  <2> QED
    BY <1>1, <1>6, <2>1 DEF MoveToFree
<1> QED
  BY <1>2, <1>3, <1>4, <1>5, <1>6 DEF Move

(* No frame with both callbacks leaves the cycle, whatever thread loses a  *)
(* race for a mutex.                                                       *)
THEOREM NothingLost == Spec => []NoFrameLost
<1>1. Init => NoFrameLost
  BY InitialFrames DEF NoFrameLost
<1>2. IInv /\ NoFrameLost /\ [Next]_vars => NoFrameLost'
  BY NoFrameLostStep, FrameMoves DEF IInv, LocalInv
<1> QED
  BY <1>1, <1>2, Invariant, PTL DEF Spec

-----------------------------------------------------------------------------
(* A move of a frame is a step of the pipeline.                            *)
LEMMA PipelineStep ==
  TypeOK /\ FrameExclusive /\ Move => [Pipeline!Next]_(Pipeline!vars)
<1> DEFINE drawn == AllDrawing \ NoProduce
           shown == Showing \ NoConsume
<1> SUFFICES ASSUME TypeOK, FrameExclusive, Move
             PROVE  [Pipeline!Next]_(Pipeline!vars)
  OBVIOUS
<1>0. /\ \A t : t \in drawn <=> t \notin NoProduce /\ \E i \in Producer : t \in Drawing(i)
      /\ \A t : t \in drawn' <=> t \notin NoProduce /\ \E i \in Producer : t \in Drawing(i)'
  BY DEF AllDrawing
<1>1. CASE Stay
  <2>1. drawn' = drawn
    <3> HIDE DEF drawn
    <3>1. \A t : t \in drawn' <=> t \in drawn
      BY <1>0, <1>1 DEF Stay
    <3> QED
      BY <1>0, <3>1 DEF drawn
  <2>2. shown' = shown
    BY <1>1 DEF Stay
  <2> QED
    BY <1>1, <2>1, <2>2 DEF Stay, Pipeline!vars
<1>2. ASSUME NEW i \in Producer, NEW f \in Task, MoveToDrawing(i, f)
      PROVE  Pipeline!Next
  <2>1. drawn' = drawn \cup ({f} \ NoProduce)
    <3> HIDE DEF drawn
    <3>1. \A t : t \in drawn' <=> t \in drawn \/ (t = f /\ t \notin NoProduce)
      BY <1>0, <1>2 DEF MoveToDrawing
    <3> QED
      BY <3>1 DEF drawn
  <2>2. shown' = shown
    BY <1>2 DEF MoveToDrawing
  <2>3. Pipeline!Take
    BY <1>2, <2>1, <2>2 DEF MoveToDrawing, Pipeline!Take
  <2> QED
    BY <2>3 DEF Pipeline!Next
<1>3. ASSUME NEW i \in Producer, NEW f \in Task, MoveToReady(i, f)
      PROVE  Pipeline!Next
  <2>1. drawn' = drawn \ {f} /\ f \in drawn
    <3> HIDE DEF drawn
    <3>1. \A t : t \in drawn' <=> t \in drawn /\ t # f
      BY <1>0, <1>3 DEF MoveToReady, FrameExclusive
    <3>2. f \in drawn
      BY <1>0, <1>3 DEF MoveToReady
    <3> QED
      BY <3>1, <3>2 DEF drawn
  <2>2. shown' = shown
    BY <1>3 DEF MoveToReady
  <2>3. Pipeline!Finish(f)
    BY <1>3, <2>1, <2>2 DEF MoveToReady, Pipeline!Finish
  <2> QED
    BY <2>3 DEF Pipeline!Next
<1>4. ASSUME NEW f \in Task, MoveToShowing(f)
      PROVE  Pipeline!Next
  <2>1. drawn' = drawn
    BY <1>4 DEF MoveToShowing, AllDrawing
  <2>2. shown = {} /\ shown' = {f} \ NoConsume
    BY <1>4 DEF MoveToShowing
  <2>3. Pipeline!Show
    BY <1>4, <2>1, <2>2 DEF MoveToShowing, Pipeline!Show
  <2> QED
    BY <2>3 DEF Pipeline!Next
<1>5. ASSUME NEW f \in Task, MoveToFree(f)
      PROVE  Pipeline!Next
  <2>1. drawn' = drawn
    BY <1>5 DEF MoveToFree, AllDrawing
  <2>2. f \in shown /\ shown' = shown \ {f}
    BY <1>5 DEF MoveToFree
  <2>3. Pipeline!Return(f)
    BY <1>5, <2>1, <2>2 DEF MoveToFree, Pipeline!Return
  <2> QED
    BY <2>3 DEF Pipeline!Next
<1> QED
  BY <1>1, <1>2, <1>3, <1>4, <1>5 DEF Move

(* The threads of m_buffer.cpp, with their mutexes, semaphores and local   *)
(* variables, implement the frame pipeline.                                *)
THEOREM Implementation == Spec => PipelineSpec
<1>1. Init => Pipeline!Init
  <2> SUFFICES ASSUME Init PROVE Pipeline!Init
    OBVIOUS
  <2>1. AllDrawing \ NoProduce = {}
    BY InitialFrames DEF AllDrawing
  <2>2. Showing \ NoConsume = {}
    BY InitialFrames
  <2> QED
    BY <2>1, <2>2, InitialFrames
       DEF Pipeline!Init, Init, IsInjective, Pipeline!IsInjective
<1>2. IInv /\ [Next]_vars => [Pipeline!Next]_(Pipeline!vars)
  BY FrameMoves, PipelineStep DEF IInv, LocalInv
<1> QED
  BY <1>1, <1>2, Invariant, PTL DEF Spec, PipelineSpec, Pipeline!Spec
-----------------------------------------------------------------------------
(* The order of the frames.                                                *)

(* Fewer frames are drawn by the other threads than there are threads.     *)
LEMMA FewDrawnByOthers ==
  ASSUME TypeOK, NEW i \in Producer, NEW S,
         \A t \in S : \E j \in Producer \ {i} : t \in Drawing(j)
  PROVE  IsFiniteSet(S) /\ Cardinality(S) < MaxProduceThreadNum
<1> DEFINE Others == Producer \ {i}
           Held == {p_task[j] : j \in Others}
           held == [j \in Others |-> p_task[j]]
<1>1. IsFiniteSet(Others) /\ Cardinality(Others) = MaxProduceThreadNum - 1
  <2>1. IsFiniteSet(Producer) /\ Cardinality(Producer) = MaxProduceThreadNum
    BY NumAssumption, FS_Interval DEF Producer
  <2> QED
    BY <2>1, FS_RemoveElement
<1>2. held \in Surjection(Others, Held)
  BY DEF Surjection
<1>3. IsFiniteSet(Held) /\ Cardinality(Held) <= Cardinality(Others)
  <2> HIDE DEF Others, Held, held
  <2> QED
    BY <1>1, <1>2, FS_Surjection
<1>4. S \in SUBSET Held
  BY DEF Drawing
<1>5. IsFiniteSet(S) /\ Cardinality(S) <= Cardinality(Held)
  <2> HIDE DEF Held
  <2> QED
    BY <1>3, <1>4, FS_Subset
<1>6. Cardinality(S) \in Nat /\ Cardinality(Held) \in Nat
  <2> HIDE DEF Held
  <2> QED
    BY <1>3, <1>5, FS_CardinalityType
<1> QED
  BY NumAssumption, <1>1, <1>3, <1>5, <1>6

(* A part of a small set is small.                                         *)
LEMMA SmallSubset ==
  ASSUME NEW S, NEW T, IsFiniteSet(S), T \subseteq S, Cardinality(S) < MaxProduceThreadNum
  PROVE  Cardinality(T) < MaxProduceThreadNum
<1>1. IsFiniteSet(T) /\ Cardinality(T) <= Cardinality(S)
  BY FS_Subset
<1>2. Cardinality(S) \in Nat /\ Cardinality(T) \in Nat
  BY <1>1, FS_CardinalityType
<1> QED
  BY NumAssumption, <1>1, <1>2

(* Frames in the pipeline are frames, and there are finitely many.         *)
LEMMA FramesAreTasks ==
  /\ IsFiniteSet(Task)
  /\ TypeOK => InPipeline \subseteq Task /\ \A i \in Producer : Drawing(i) \subseteq Task
<1>1. IsFiniteSet(Task)
  BY NumAssumption, FS_Interval DEF Task
<1>2. \A i \in Producer : Drawing(i) \subseteq Task
  BY DEF Drawing
<1>3. AllDrawing \subseteq Task
  BY <1>2 DEF AllDrawing
<1>4. TypeOK => Range(c_queue) \subseteq Task
  <2> SUFFICES ASSUME TypeOK PROVE Range(c_queue) \subseteq Task
    OBVIOUS
  <2>1. DOMAIN c_queue = 1..Len(c_queue) /\ \A k \in 1..Len(c_queue) : c_queue[k] \in Task
    BY ElementOfSeq, LenProperties DEF TypeOK
  <2> QED
    BY <2>1 DEF Range
<1> QED
  BY <1>1, <1>2, <1>3, <1>4 DEF InPipeline

(* A move is a take, a show, or neither, for the history too.              *)
LEMMA QueueMoves ==
  ASSUME TypeOK, NEW f \in Task
  PROVE  /\ \A i \in Producer : MoveToDrawing(i, f) => Taken /\ ~Shown
         /\ \A i \in Producer : MoveToReady(i, f) => ~Taken /\ ~Shown
         /\ MoveToShowing(f) => ~Taken /\ Shown
         /\ MoveToFree(f) => ~Taken /\ ~Shown
         /\ Stay => ~Taken /\ ~Shown
<1>1. ASSUME NEW q \in Seq(Task), q # <<>>
      PROVE  Tail(q) # q /\ \A e \in Task : Tail(q) # Append(q, e)
  <2>1. Len(q) \in Nat /\ Len(Tail(q)) = Len(q) - 1
    BY <1>1, HeadTailProperties
  <2>2. \A e \in Task : Len(Append(q, e)) = Len(q) + 1
    BY AppendProperties
  <2> QED
    BY <2>1, <2>2
<1> QED
  BY <1>1 DEF TypeOK, Taken, Shown, MoveToDrawing, MoveToReady, MoveToShowing, MoveToFree, Stay
(* What a move does to the history and to the frames in the pipeline.      *)
LEMMA OrderMoves ==
  ASSUME TypeOK, FrameExclusive, before \in [Task -> SUBSET Task], Move, Remember
  PROVE  \/ /\ Stay /\ before' = before
            /\ \A t : t \in InPipeline' <=> t \in InPipeline
         \/ \E i \in Producer, f \in Task :
              /\ MoveToDrawing(i, f)
              /\ before' = [before EXCEPT ![f] = InPipeline]
              /\ InPipeline \subseteq InPipeline' /\ f \notin InPipeline
         \/ \E i \in Producer, f \in Task :
              /\ MoveToReady(i, f) /\ before' = before
              /\ \A t : t \in InPipeline' <=> t \in InPipeline
         \/ \E f \in Task :
              /\ MoveToShowing(f)
              /\ before' = [t \in Task |-> before[t] \ {f}]
              /\ \A t : t \in InPipeline' <=> t \in InPipeline \ {f}
         \/ \E f \in Task :
              /\ MoveToFree(f) /\ before' = before
              /\ \A t : t \in InPipeline' <=> t \in InPipeline
<1>0. /\ \A t : t \in InPipeline <=> \/ t \notin NoProduce /\ \E i \in Producer : t \in Drawing(i)
                                     \/ t \in Range(c_queue)
      /\ \A t : t \in InPipeline' <=> \/ t \notin NoProduce /\ \E i \in Producer : t \in Drawing(i)'
                                      \/ t \in Range(c_queue)'
  BY DEF InPipeline, AllDrawing
<1>1. CASE Stay
  <2>1. before' = before
    BY <1>1, QueueMoves DEF Remember
  <2>2. Range(c_queue)' = Range(c_queue)
    BY <1>1 DEF Stay
  <2>3. \A t : t \in InPipeline' <=> t \in InPipeline
    BY <1>0, <1>1, <2>2 DEF Stay
  <2> QED
    BY <1>1, <2>1, <2>3
<1>2. ASSUME NEW i \in Producer, NEW f \in Task, MoveToDrawing(i, f)
      PROVE  /\ before' = [before EXCEPT ![f] = InPipeline]
             /\ InPipeline \subseteq InPipeline' /\ f \notin InPipeline
  <2>1. before' = [before EXCEPT ![f] = InPipeline]
    BY <1>2, QueueMoves DEF Remember, MoveToDrawing
  <2>2. Range(c_queue)' = Range(c_queue)
    BY <1>2 DEF MoveToDrawing
  <2>3. InPipeline \subseteq InPipeline'
    BY <1>0, <1>2, <2>2 DEF MoveToDrawing
  <2>4. f \in Range(p_queue)
    BY <1>2, PopFacts DEF MoveToDrawing, TypeOK
  <2>5. f \notin InPipeline
    BY <1>0, <2>4 DEF FrameExclusive
  <2> QED
    BY <2>1, <2>3, <2>5
<1>3. ASSUME NEW i \in Producer, NEW f \in Task, MoveToReady(i, f)
      PROVE  before' = before /\ \A t : t \in InPipeline' <=> t \in InPipeline
  <2>1. before' = before
    BY <1>3, QueueMoves DEF Remember
  <2>2. Range(c_queue)' = Range(c_queue) \cup {f}
    BY <1>3, PushFacts DEF MoveToReady, TypeOK
  <2>3. \A t : t \in InPipeline' <=> t \in InPipeline
    BY <1>0, <1>3, <2>2 DEF MoveToReady
  <2> QED
    BY <2>1, <2>3
<1>4. ASSUME NEW f \in Task, MoveToShowing(f)
      PROVE  /\ before' = [t \in Task |-> before[t] \ {f}]
             /\ \A t : t \in InPipeline' <=> t \in InPipeline \ {f}
  <2>1. before' = [t \in Task |-> before[t] \ {f}]
    BY <1>4, QueueMoves DEF Remember, MoveToShowing
  <2>2. Range(c_queue) = {f} \cup Range(c_queue)' /\ f \notin Range(c_queue)'
    BY <1>4, PopFacts DEF MoveToShowing, TypeOK, FrameExclusive
  <2>3. \A i \in Producer : f \notin Drawing(i)
    BY <2>2 DEF FrameExclusive
  <2>4. \A t : t \in InPipeline' <=> t \in InPipeline \ {f}
    BY <1>0, <1>4, <2>2, <2>3 DEF MoveToShowing
  <2> QED
    BY <2>1, <2>4
<1>5. ASSUME NEW f \in Task, MoveToFree(f)
      PROVE  before' = before /\ \A t : t \in InPipeline' <=> t \in InPipeline
  <2>1. before' = before
    BY <1>5, QueueMoves DEF Remember
  <2>2. Range(c_queue)' = Range(c_queue)
    BY <1>5 DEF MoveToFree
  <2>3. \A t : t \in InPipeline' <=> t \in InPipeline
    BY <1>0, <1>5, <2>2 DEF MoveToFree
  <2> QED
    BY <2>1, <2>3
<1> QED
  BY <1>1, <1>2, <1>3, <1>4, <1>5 DEF Move
(* The frames taken before one that is drawn stay in the pipeline until    *)
(* they are shown.                                                         *)
LEMMA DrawnInOrderStep ==
  ASSUME TypeOK, FrameExclusive, OrderInv, Move, Remember
  PROVE  before' \in [Task -> SUBSET Task] /\ DrawnInOrder'
<1> USE FramesAreTasks DEF OrderInv, DrawnInOrder
<1>1. CASE Stay /\ before' = before /\ \A t : t \in InPipeline' <=> t \in InPipeline
  BY <1>1 DEF Stay
<1>2. ASSUME NEW i \in Producer, NEW f \in Task, MoveToDrawing(i, f),
             before' = [before EXCEPT ![f] = InPipeline],
             InPipeline \subseteq InPipeline', f \notin InPipeline
      PROVE  before' \in [Task -> SUBSET Task] /\ DrawnInOrder'
  <2>1. before' \in [Task -> SUBSET Task] /\ before'[f] = InPipeline
    BY <1>2
  <2>2. ASSUME NEW j \in Producer \ {i}, NEW t \in Drawing(j) \ NoProduce
        PROVE  before'[t] \subseteq InPipeline' \ {t}
    <3>1. t \in InPipeline /\ t \in Task
      BY DEF InPipeline, AllDrawing
    <3> QED
      BY <1>2, <3>1
  <2> QED
    BY <1>2, <2>1, <2>2 DEF MoveToDrawing
<1>3. ASSUME NEW i \in Producer, NEW f \in Task, MoveToReady(i, f), before' = before,
             \A t : t \in InPipeline' <=> t \in InPipeline
      PROVE  before' \in [Task -> SUBSET Task] /\ DrawnInOrder'
  BY <1>3 DEF MoveToReady
<1>4. ASSUME NEW f \in Task, MoveToShowing(f), before' = [t \in Task |-> before[t] \ {f}],
             \A t : t \in InPipeline' <=> t \in InPipeline \ {f}
      PROVE  before' \in [Task -> SUBSET Task] /\ DrawnInOrder'
  BY <1>4 DEF MoveToShowing
<1>5. ASSUME NEW f \in Task, MoveToFree(f), before' = before,
             \A t : t \in InPipeline' <=> t \in InPipeline
      PROVE  before' \in [Task -> SUBSET Task] /\ DrawnInOrder'
  BY <1>5 DEF MoveToFree
<1> QED
  BY <1>1, <1>2, <1>3, <1>4, <1>5, OrderMoves

(* A frame has passed as many frames as it ever will when it is pushed:    *)
(* those the other threads still draw.                                     *)
LEMMA QueuedInOrderStep ==
  ASSUME TypeOK, FrameExclusive, OrderInv, Move, Remember
  PROVE  QueuedInOrder'
<1>0. /\ c_queue \in Seq(Task) /\ DOMAIN c_queue = 1..Len(c_queue) /\ Len(c_queue) \in Nat
      /\ \A k \in 1..Len(c_queue) : c_queue[k] \in Task /\ c_queue[k] \in Range(c_queue)
      /\ Range(c_queue) \subseteq InPipeline
  <2>1. c_queue \in Seq(Task) /\ DOMAIN c_queue = 1..Len(c_queue) /\ Len(c_queue) \in Nat
    BY LenProperties DEF TypeOK
  <2> QED
    BY <2>1, ElementOfSeq DEF Range, InPipeline
<1>1. ASSUME c_queue' = c_queue, \A t \in Range(c_queue) : before'[t] = before[t]
      PROVE  QueuedInOrder'
  <2>1. \A k \in DOMAIN c_queue : Passed(k)' = Passed(k)
    BY <1>0, <1>1 DEF Passed
  <2> QED
    BY <1>1, <2>1 DEF OrderInv, QueuedInOrder
<1>2. ASSUME NEW i \in Producer, NEW f \in Task, MoveToDrawing(i, f),
             before' = [before EXCEPT ![f] = InPipeline], f \notin InPipeline
      PROVE  QueuedInOrder'
  BY <1>0, <1>1, <1>2 DEF MoveToDrawing, OrderInv
<1>3. ASSUME NEW i \in Producer, NEW f \in Task, MoveToReady(i, f), before' = before
      PROVE  QueuedInOrder'
  <2>1. /\ DOMAIN c_queue' = 1..(Len(c_queue) + 1)
        /\ \A k \in 1..Len(c_queue) : c_queue'[k] = c_queue[k]
        /\ c_queue'[Len(c_queue) + 1] = f
    BY <1>0, <1>3, AppendProperties, LenProperties DEF MoveToReady
  <2>2. ASSUME NEW k \in 1..Len(c_queue)
        PROVE  Passed(k)' = Passed(k)
    <3>1. \A j \in 1..(k - 1) : c_queue'[j] = c_queue[j]
      BY <1>0, <2>1
    <3> QED
      BY <1>3, <2>1, <3>1 DEF Passed
  <2>3. ASSUME NEW k, k = Len(c_queue) + 1
        PROVE  Cardinality(Passed(k)') < MaxProduceThreadNum
    <3>1. k - 1 = Len(c_queue) /\ c_queue'[k] = f
      BY <1>0, <2>1, <2>3
    <3>2. {c_queue'[j] : j \in 1..(k - 1)} = Range(c_queue)
      BY <1>0, <2>1, <3>1 DEF Range
    <3>3. Passed(k)' = before[f] \ Range(c_queue)
      BY <1>3, <3>1, <3>2 DEF Passed
    <3>4. before[f] \subseteq InPipeline \ {f}
      BY <1>3 DEF MoveToReady, OrderInv, DrawnInOrder
    <3>5. \A t \in before[f] \ Range(c_queue) : \E j \in Producer \ {i} : t \in Drawing(j)
      BY <1>3, <3>4 DEF MoveToReady, InPipeline, AllDrawing
    <3> QED
      BY <3>3, <3>5, FewDrawnByOthers
  <2>4. ASSUME NEW k \in DOMAIN c_queue'
        PROVE  Cardinality(Passed(k)') < MaxProduceThreadNum
    <3>1. CASE k = Len(c_queue) + 1
      BY <2>3, <3>1
    <3>2. CASE k # Len(c_queue) + 1
      <4>1. k \in 1..Len(c_queue)
        BY <1>0, <2>1, <3>2
      <4> QED
        BY <1>0, <2>2, <4>1 DEF OrderInv, QueuedInOrder
    <3> QED
      BY <3>1, <3>2
  <2> QED
    BY <2>4 DEF QueuedInOrder
<1>4. ASSUME NEW f \in Task, MoveToShowing(f), before' = [t \in Task |-> before[t] \ {f}]
      PROVE  QueuedInOrder'
  <2>1. /\ f = c_queue[1]
        /\ DOMAIN c_queue' = 1..(Len(c_queue) - 1)
        /\ \A k \in 1..(Len(c_queue) - 1) : c_queue'[k] = c_queue[k + 1]
    BY <1>0, <1>4, HeadTailProperties, LenProperties DEF MoveToShowing
  <2>2. ASSUME NEW k \in 1..(Len(c_queue) - 1)
        PROVE  Cardinality(Passed(k)') < MaxProduceThreadNum
    <3>1. k + 1 \in 1..Len(c_queue) /\ (k + 1) - 1 = k /\ c_queue'[k] = c_queue[k + 1]
      BY <1>0, <2>1
    <3>2. before'[c_queue'[k]] = before[c_queue[k + 1]] \ {f}
      BY <1>0, <1>4, <3>1
    <3>3. ASSUME NEW j \in 1..k
          PROVE  c_queue[j] = f \/ \E l \in 1..(k - 1) : c_queue[j] = c_queue'[l]
      <4>1. CASE j = 1
        BY <2>1, <4>1
      <4>2. CASE j # 1
        <5>1. j - 1 \in 1..(k - 1) /\ j - 1 \in 1..(Len(c_queue) - 1) /\ (j - 1) + 1 = j
          BY <1>0, <4>2
        <5> QED
          BY <2>1, <5>1
      <4> QED
        BY <4>1, <4>2
    <3>4. Passed(k)' \subseteq Passed(k + 1)
      BY <3>1, <3>2, <3>3 DEF Passed
    <3>5. IsFiniteSet(Passed(k + 1)) /\ Cardinality(Passed(k + 1)) < MaxProduceThreadNum
      <4>1. Passed(k + 1) \subseteq Task
        BY <1>0, <3>1 DEF Passed, OrderInv
      <4> QED
        BY <1>0, <3>1, <4>1, FramesAreTasks, FS_Subset DEF OrderInv, QueuedInOrder
    <3> QED
      BY <3>4, <3>5, SmallSubset
  <2> QED
    BY <2>1, <2>2 DEF QueuedInOrder
<1>5. CASE c_queue' = c_queue /\ before' = before
  BY <1>1, <1>5
<1> QED
  BY <1>2, <1>3, <1>4, <1>5, OrderMoves DEF OrderInv, Stay, MoveToFree

(* The invariant of the order, and that of the threads with it.            *)
THEOREM OrderInvariant == OrderSpec => [](IInv /\ OrderInv)
<1>1. OrderInit => IInv /\ OrderInv
  <2> SUFFICES ASSUME OrderInit PROVE IInv /\ OrderInv
    OBVIOUS
  <2>1. IInv
    BY InitInv DEF OrderInit
  <2>2. before \in [Task -> SUBSET Task]
    BY DEF OrderInit
  <2>3. DrawnInOrder
    BY InitialFrames DEF OrderInit, DrawnInOrder
  <2>4. QueuedInOrder
    BY DEF OrderInit, Init, QueuedInOrder
  <2> QED
    BY <2>1, <2>2, <2>3, <2>4 DEF OrderInv
<1>2. ASSUME IInv, OrderInv, [OrderNext]_orderVars
      PROVE  IInv' /\ OrderInv'
  <2>1. IInv'
    BY <1>2, InvStep DEF OrderNext, orderVars
  <2>2. CASE UNCHANGED orderVars
    <3>1. c_queue' = c_queue /\ before' = before /\ p_pc' = p_pc /\ p_task' = p_task
      BY <2>2 DEF orderVars, vars, queues, producers
    <3>2. \A i \in Producer : Drawing(i)' = Drawing(i)
      BY <3>1 DEF Drawing
    <3>3. InPipeline' = InPipeline
      BY <3>1, <3>2 DEF InPipeline, AllDrawing
    <3>4. \A k \in DOMAIN c_queue : Passed(k)' = Passed(k)
      BY <3>1 DEF Passed
    <3>5. DrawnInOrder'
      BY <1>2, <3>1, <3>2, <3>3 DEF OrderInv, DrawnInOrder
    <3>6. QueuedInOrder'
      BY <1>2, <3>1, <3>4 DEF OrderInv, QueuedInOrder
    <3> QED
      BY <1>2, <2>1, <3>1, <3>5, <3>6 DEF OrderInv
  <2>3. CASE OrderNext
    <3>1. Move /\ Remember
      BY <1>2, <2>3, FrameMoves DEF OrderNext, IInv, LocalInv
    <3> QED
      BY <1>2, <2>1, <3>1, DrawnInOrderStep, QueuedInOrderStep DEF IInv, OrderInv
  <2> QED
    BY <1>2, <2>1, <2>2, <2>3
<1> QED
  BY <1>1, <1>2, PTL DEF OrderSpec

(* The frame about to be shown has passed fewer frames than there are      *)
(* produce threads, however many frames and threads there are: what is     *)
(* left of the order without the sort of m_buffer.cpp:113.                 *)
THEOREM BoundedDisorder == OrderSpec => []DisorderBounded
<1>1. IInv /\ OrderInv => DisorderBounded
  <2> SUFFICES ASSUME IInv, OrderInv, c_pc = "pop"
               PROVE  Cardinality(before[c_task]) < MaxProduceThreadNum
    BY DEF DisorderBounded
  <2>1. c_queue \in Seq(Task) /\ c_queue # <<>> /\ c_task = Head(c_queue)
    BY DEF IInv, TypeOK, HeldFrame
  <2>2. 1 \in DOMAIN c_queue /\ c_task = c_queue[1]
    BY <2>1, HeadTailProperties, LenProperties
  <2>3. Passed(1) = before[c_task]
    BY <2>2 DEF Passed
  <2> QED
    BY <2>2, <2>3 DEF OrderInv, QueuedInOrder
<1> QED
  BY <1>1, OrderInvariant, PTL
=============================================================================
