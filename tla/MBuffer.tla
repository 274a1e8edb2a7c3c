------------------------------ MODULE MBuffer ------------------------------
(***************************************************************************)
(* The multi-thread, multi-buffer display model of display/m_buffer.cpp.   *)
(*                                                                         *)
(* A buffer_task (a frame) circulates between two queues.  A pool of       *)
(* produce threads takes frames from p_queue, draws them and pushes them   *)
(* to c_queue; one consume thread takes them from c_queue, shows them and  *)
(* pushes them back to p_queue.  Every thread blocks on a semaphore of its *)
(* own, which the timetick thread posts once per tick, whether or not the  *)
(* thread has used the token of the last tick.                             *)
(*                                                                         *)
(* One action is one step of a thread between two points where another     *)
(* thread can see a difference: a semaphore or mutex call, the read of a   *)
(* queue's front, the change of a queue, a callback.                       *)
(***************************************************************************)
EXTENDS Integers, Sequences, FiniteSets, Functions

CONSTANTS
  MaxProduceThreadNum,  \* MAX_PRODUCE_THREAD_NUM
  MaxTaskNum,           \* bound on bts_num, the number of frames handed in
  SemValueMax,          \* largest value of a semaphore (SEM_VALUE_MAX)
  NoProduce,            \* frames whose produce_task is NULL
  NoConsume,            \* frames whose consume_task is NULL
  Consumer,             \* the consume thread, as the owner of a mutex
  Nobody,               \* the owner of a free mutex
  NULL                  \* no frame

Producer == 1..MaxProduceThreadNum
Task == 1..MaxTaskNum

ASSUME NumAssumption ==
  /\ MaxProduceThreadNum \in Nat
  /\ MaxTaskNum \in Nat
  /\ SemValueMax \in Nat

ASSUME CallbackAssumption ==
  /\ NoProduce \subseteq Task
  /\ NoConsume \subseteq Task

ASSUME IdAssumption ==
  /\ Consumer \notin Producer
  /\ Nobody \notin Producer \cup {Consumer}
  /\ NULL \notin Task

VARIABLES
  buffer_task_size,  \* number of frames handed to the constructor
  p_queue, c_queue,  \* frames to draw, frames to show
  p_mutex, c_mutex,  \* the owner of each mutex, or Nobody
  sems, consume_sem, \* semaphore of each produce thread, of the consume thread
  p_pc, p_task,      \* position and frame of each produce thread
  c_pc, c_task,      \* position and frame of the consume thread
  t_pc,              \* whom the timetick thread posts next; 0: no such thread
  m_pc, m_i          \* position and loop index of start_m_buffer_thread

queues == <<p_queue, c_queue>>
mutexes == <<p_mutex, c_mutex>>
semaphores == <<sems, consume_sem>>
producers == <<p_pc, p_task>>
consumer == <<c_pc, c_task>>
starter == <<m_pc, m_i>>
others == <<buffer_task_size, starter>>  \* what the threads leave alone
vars == <<queues, mutexes, semaphores, producers, consumer, t_pc, others>>

ProducePc == {"none", "wait", "trylock", "front", "pop", "unlock",
              "produce", "lock_c", "push", "unlock_c"}
ConsumePc == {"none", "wait", "lock_c", "front", "pop", "unlock_c",
              "consume", "lock_p", "push", "unlock_p"}
StartPc == {"consumer", "producers", "timetick", "returned"}

TypeOK ==
  /\ buffer_task_size \in 0..MaxTaskNum
  /\ p_queue \in Seq(Task)
  /\ c_queue \in Seq(Task)
  /\ p_mutex \in Producer \cup {Consumer, Nobody}
  /\ c_mutex \in Producer \cup {Consumer, Nobody}
  /\ sems \in [Producer -> 0..SemValueMax]
  /\ consume_sem \in 0..SemValueMax
  /\ p_pc \in [Producer -> ProducePc]
  /\ p_task \in [Producer -> Task \cup {NULL}]
  /\ c_pc \in ConsumePc
  /\ c_task \in Task \cup {NULL}
  /\ t_pc \in 0..(MaxProduceThreadNum + 1)
  /\ m_pc \in StartPc
  /\ m_i \in 1..(MaxProduceThreadNum + 1)

(* The object as the constructor leaves it: every frame waits to be drawn, *)
(* in the order of the caller's array; no thread runs.                     *)
Init ==
  /\ buffer_task_size \in 0..MaxTaskNum
  /\ p_queue = [k \in 1..buffer_task_size |-> k]
  /\ c_queue = <<>>
  /\ p_mutex = Nobody
  /\ c_mutex = Nobody
  /\ sems = [i \in Producer |-> 0]
  /\ consume_sem = 0
  /\ p_pc = [i \in Producer |-> "none"]
  /\ p_task = [i \in Producer |-> NULL]
  /\ c_pc = "none"
  /\ c_task = NULL
  /\ t_pc = 0
  /\ m_pc = "consumer"
  /\ m_i = 1

-----------------------------------------------------------------------------
(* start_m_buffer_thread.  Each pthread_create may fail.                   *)

(* No frame was handed in: nothing is started.                             *)
StartRefused ==
  /\ m_pc = "consumer"
  /\ p_queue = <<>>
  /\ m_pc' = "returned"
  /\ UNCHANGED <<buffer_task_size, queues, mutexes, semaphores, producers, consumer, t_pc, m_i>>

(* Without a consume thread start gives up.                                *)
StartConsumer ==
  /\ m_pc = "consumer"
  /\ p_queue # <<>>
  /\ \/ c_pc' = "wait" /\ m_pc' = "producers"
     \/ c_pc' = "none" /\ m_pc' = "returned"
  /\ UNCHANGED <<buffer_task_size, queues, mutexes, semaphores, producers, c_task, t_pc, m_i>>

(* A produce thread that cannot be created is passed over.                 *)
StartProducer ==
  /\ m_pc = "producers"
  /\ m_i <= MaxProduceThreadNum
  /\ \/ p_pc' = [p_pc EXCEPT ![m_i] = "wait"]
     \/ UNCHANGED p_pc
  /\ m_i' = m_i + 1
  /\ UNCHANGED <<buffer_task_size, queues, mutexes, semaphores, p_task, consumer, t_pc, m_pc>>

StartProducersDone ==
  /\ m_pc = "producers"
  /\ m_i > MaxProduceThreadNum
  /\ m_pc' = "timetick"
  /\ UNCHANGED <<buffer_task_size, queues, mutexes, semaphores, producers, consumer, t_pc, m_i>>

(* If the timetick thread cannot be created, start returns an error and    *)
(* leaves the other threads behind, blocked on their semaphores.           *)
StartTimetick ==
  /\ m_pc = "timetick"
  /\ t_pc' \in {0, 1}
  /\ m_pc' = "returned"
  /\ UNCHANGED <<buffer_task_size, queues, mutexes, semaphores, producers, consumer, m_i>>

-----------------------------------------------------------------------------
(* timetick_thread_handle.                                                 *)

(* sem_post on a semaphore at its largest value fails, which the code      *)
(* ignores.                                                                *)
Posted(v) == IF v < SemValueMax THEN v + 1 ELSE v

TickProducer ==
  /\ t_pc \in Producer
  /\ sems' = [sems EXCEPT ![t_pc] = Posted(@)]
  /\ t_pc' = t_pc + 1
  /\ UNCHANGED <<queues, mutexes, consume_sem, producers, consumer, others>>

(* The consume thread comes last; the thread then sleeps until the next    *)
(* tick.                                                                   *)
TickConsumer ==
  /\ t_pc = MaxProduceThreadNum + 1
  /\ consume_sem' = Posted(consume_sem)
  /\ t_pc' = 1
  /\ UNCHANGED <<queues, mutexes, sems, producers, consumer, others>>

-----------------------------------------------------------------------------
(* produce_thread_handle, run by produce thread i.                         *)

Goes(i, from, to) == p_pc[i] = from /\ p_pc' = [p_pc EXCEPT ![i] = to]

ProduceWait(i) ==
  /\ Goes(i, "wait", "trylock")
  /\ sems[i] > 0
  /\ sems' = [sems EXCEPT ![i] = @ - 1]
  /\ p_task' = [p_task EXCEPT ![i] = NULL]
  /\ UNCHANGED <<queues, mutexes, consume_sem, consumer, t_pc, others>>

ProduceTryLock(i) ==
  /\ Goes(i, "trylock", "front")
  /\ p_mutex = Nobody
  /\ p_mutex' = i
  /\ UNCHANGED <<queues, c_mutex, semaphores, p_task, consumer, t_pc, others>>

(* Another thread is at p_queue: the token of this tick is used up and     *)
(* nothing is drawn.                                                       *)
ProduceTryLockBusy(i) ==
  /\ Goes(i, "trylock", "wait")
  /\ p_mutex # Nobody
  /\ UNCHANGED <<queues, mutexes, semaphores, p_task, consumer, t_pc, others>>

ProduceFront(i) ==
  /\ p_pc[i] = "front"
  /\ IF p_queue = <<>>
     THEN /\ p_pc' = [p_pc EXCEPT ![i] = "unlock"]
          /\ UNCHANGED p_task
     ELSE /\ p_pc' = [p_pc EXCEPT ![i] = "pop"]
          /\ p_task' = [p_task EXCEPT ![i] = Head(p_queue)]
  /\ UNCHANGED <<queues, mutexes, semaphores, consumer, t_pc, others>>

ProducePop(i) ==
  /\ Goes(i, "pop", "unlock")
  /\ p_queue' = Tail(p_queue)
  /\ UNCHANGED <<c_queue, mutexes, semaphores, p_task, consumer, t_pc, others>>

(* A frame without a draw callback is dropped here.                        *)
ProduceUnlock(i) ==
  /\ p_pc[i] = "unlock"
  /\ p_mutex' = Nobody
  /\ p_pc' = [p_pc EXCEPT ![i] =
                IF p_task[i] \in Task \ NoProduce THEN "produce" ELSE "wait"]
  /\ UNCHANGED <<queues, c_mutex, semaphores, p_task, consumer, t_pc, others>>

(* The draw callback returns.                                              *)
ProduceTask(i) ==
  /\ Goes(i, "produce", "lock_c")
  /\ UNCHANGED <<queues, mutexes, semaphores, p_task, consumer, t_pc, others>>

ProduceLockC(i) ==
  /\ Goes(i, "lock_c", "push")
  /\ c_mutex = Nobody
  /\ c_mutex' = i
  /\ UNCHANGED <<queues, p_mutex, semaphores, p_task, consumer, t_pc, others>>

(* Mutant: c_queue is a stack.                                             *)
ProducePushFront(i) ==
  /\ Goes(i, "push", "unlock_c")
  /\ c_queue' = <<p_task[i]>> \o c_queue
  /\ UNCHANGED <<p_queue, mutexes, semaphores, p_task, consumer, t_pc, others>>

ProducePush(i) ==
  /\ Goes(i, "push", "unlock_c")
  /\ c_queue' = Append(c_queue, p_task[i])
  /\ UNCHANGED <<p_queue, mutexes, semaphores, p_task, consumer, t_pc, others>>

(* Mutant: the produce thread keeps c_mutex.                               *)
ProduceKeepC(i) ==
  /\ Goes(i, "unlock_c", "wait")
  /\ UNCHANGED <<queues, mutexes, semaphores, p_task, consumer, t_pc, others>>

ProduceUnlockC(i) ==
  /\ Goes(i, "unlock_c", "wait")
  /\ c_mutex' = Nobody
  /\ UNCHANGED <<queues, p_mutex, semaphores, p_task, consumer, t_pc, others>>

-----------------------------------------------------------------------------
(* consume_thread_handle.                                                  *)

ConsumerGoes(from, to) == c_pc = from /\ c_pc' = to

(* Mutant: c_task is declared outside the loop and keeps its last frame.   *)
ConsumeWaitStale ==
  /\ ConsumerGoes("wait", "lock_c")
  /\ consume_sem > 0
  /\ consume_sem' = consume_sem - 1
  /\ UNCHANGED <<queues, mutexes, sems, producers, c_task, t_pc, others>>

ConsumeWait ==
  /\ ConsumerGoes("wait", "lock_c")
  /\ consume_sem > 0
  /\ consume_sem' = consume_sem - 1
  /\ c_task' = NULL
  /\ UNCHANGED <<queues, mutexes, sems, producers, t_pc, others>>

ConsumeLockC ==
  /\ ConsumerGoes("lock_c", "front")
  /\ c_mutex = Nobody
  /\ c_mutex' = Consumer
  /\ UNCHANGED <<queues, p_mutex, semaphores, producers, c_task, t_pc, others>>

ConsumeFront ==
  /\ c_pc = "front"
  /\ IF c_queue = <<>>
     THEN c_pc' = "unlock_c" /\ UNCHANGED c_task
     ELSE c_pc' = "pop" /\ c_task' = Head(c_queue)
  /\ UNCHANGED <<queues, mutexes, semaphores, producers, t_pc, others>>

ConsumePop ==
  /\ ConsumerGoes("pop", "unlock_c")
  /\ c_queue' = Tail(c_queue)
  /\ UNCHANGED <<p_queue, mutexes, semaphores, producers, c_task, t_pc, others>>

(* Mutant: c_mutex is kept while the callback runs.                        *)
ConsumeKeepC ==
  /\ c_pc = "unlock_c"
  /\ c_mutex' = IF c_task \in Task \ NoConsume THEN Consumer ELSE Nobody
  /\ c_pc' = IF c_task \in Task \ NoConsume THEN "consume" ELSE "wait"
  /\ UNCHANGED <<queues, p_mutex, semaphores, producers, c_task, t_pc, others>>

(* A frame without a show callback is dropped here.                        *)
ConsumeUnlockC ==
  /\ c_pc = "unlock_c"
  /\ c_mutex' = Nobody
  /\ c_pc' = IF c_task \in Task \ NoConsume THEN "consume" ELSE "wait"
  /\ UNCHANGED <<queues, p_mutex, semaphores, producers, c_task, t_pc, others>>

(* The show callback returns.                                              *)
ConsumeTask ==
  /\ ConsumerGoes("consume", "lock_p")
  /\ UNCHANGED <<queues, mutexes, semaphores, producers, c_task, t_pc, others>>

(* Mutant: trylock, as the produce threads do; the frame is forgotten when *)
(* p_mutex is busy.                                                        *)
ConsumeTryLockP ==
  /\ c_pc = "lock_p"
  /\ IF p_mutex = Nobody THEN p_mutex' = Consumer /\ c_pc' = "push"
                         ELSE UNCHANGED p_mutex /\ c_pc' = "wait"
  /\ UNCHANGED <<queues, c_mutex, semaphores, producers, c_task, t_pc, others>>

ConsumeLockP ==
  /\ ConsumerGoes("lock_p", "push")
  /\ p_mutex = Nobody
  /\ p_mutex' = Consumer
  /\ UNCHANGED <<queues, c_mutex, semaphores, producers, c_task, t_pc, others>>

(* Mutant: p_queue is a stack.                                             *)
ConsumePushFront ==
  /\ ConsumerGoes("push", "unlock_p")
  /\ p_queue' = <<c_task>> \o p_queue
  /\ UNCHANGED <<c_queue, mutexes, semaphores, producers, c_task, t_pc, others>>

ConsumePush ==
  /\ ConsumerGoes("push", "unlock_p")
  /\ p_queue' = Append(p_queue, c_task)
  /\ UNCHANGED <<c_queue, mutexes, semaphores, producers, c_task, t_pc, others>>

ConsumeUnlockP ==
  /\ ConsumerGoes("unlock_p", "wait")
  /\ p_mutex' = Nobody
  /\ UNCHANGED <<queues, c_mutex, semaphores, producers, c_task, t_pc, others>>

-----------------------------------------------------------------------------
Start == StartRefused \/ StartConsumer \/ StartProducer \/ StartProducersDone
         \/ StartTimetick
Timetick == TickProducer \/ TickConsumer
Produce(i) == \/ ProduceWait(i) \/ ProduceTryLock(i) \/ ProduceTryLockBusy(i)
              \/ ProduceFront(i) \/ ProducePop(i) \/ ProduceUnlock(i)
              \/ ProduceTask(i) \/ ProduceLockC(i) \/ ProducePush(i)
              \/ ProduceUnlockC(i)
Consume == \/ ConsumeWait \/ ConsumeLockC \/ ConsumeFront \/ ConsumePop
           \/ ConsumeUnlockC \/ ConsumeTask \/ ConsumeLockP \/ ConsumePush
           \/ ConsumeUnlockP

Next == Start \/ Timetick \/ (\E i \in Producer : Produce(i)) \/ Consume

Spec == Init /\ [][Next]_vars

(* Every thread that can run does, callbacks return, and a thread blocked  *)
(* on a mutex gets it in the end: the other threads hold it for a few      *)
(* instructions and go back to their semaphores until the next tick.       *)
Fairness ==
  /\ WF_vars(Start)
  /\ WF_vars(Timetick)
  /\ \A i \in Producer : WF_vars(Produce(i)) /\ SF_vars(ProduceLockC(i))
  /\ WF_vars(Consume) /\ SF_vars(ConsumeLockC) /\ SF_vars(ConsumeLockP)

FairSpec == Spec /\ Fairness

-----------------------------------------------------------------------------
(* Frames out of the queues: taken and not handed on yet.                  *)
Drawing(i) ==
  {t \in Task : p_task[i] = t /\ p_pc[i] \in {"unlock", "produce", "lock_c", "push"}}
AllDrawing == UNION {Drawing(i) : i \in Producer}
Showing ==
  {t \in Task : c_task = t /\ c_pc \in {"unlock_c", "consume", "lock_p", "push"}}

(* Each mutex is held by exactly the thread inside the section it guards,  *)
(* so that a std::queue, which is not thread safe, is only touched by one  *)
(* thread at a time (m_buffer.cpp:103-108, 114-116, 126-131, 135-137).     *)
LockOwnership ==
  /\ \A i \in Producer :
       /\ p_mutex = i <=> p_pc[i] \in {"front", "pop", "unlock"}
       /\ c_mutex = i <=> p_pc[i] \in {"push", "unlock_c"}
  /\ p_mutex = Consumer <=> c_pc \in {"push", "unlock_p"}
  /\ c_mutex = Consumer <=> c_pc \in {"front", "pop", "unlock_c"}

(* A thread that waits in a call: for its next tick, or for a mutex.       *)
ProducerBlocked(i) ==
  \/ p_pc[i] = "wait" /\ sems[i] = 0
  \/ p_pc[i] = "lock_c" /\ c_mutex # Nobody
ConsumerBlocked ==
  \/ c_pc = "wait" /\ consume_sem = 0
  \/ c_pc = "lock_c" /\ c_mutex # Nobody
  \/ c_pc = "lock_p" /\ p_mutex # Nobody

(* A thread that holds a mutex holds no other and waits for nothing: the   *)
(* produce threads, which go from p_queue to c_queue, and the consume      *)
(* thread, which goes the other way, never wait for each other in a        *)
(* circle, and none keeps a queue from the others until its next tick or   *)
(* while a callback runs (m_buffer.cpp:101-116, 124-137).                  *)
OwnersRun ==
  /\ \A i \in Producer :
       p_mutex = i \/ c_mutex = i =>
         /\ p_mutex # c_mutex
         /\ p_pc[i] \notin {"none", "produce"} /\ ~ProducerBlocked(i)
  /\ p_mutex = Consumer \/ c_mutex = Consumer =>
       /\ p_mutex # c_mutex
       /\ c_pc \notin {"none", "consume"} /\ ~ConsumerBlocked

(* A frame has one owner: it is in one queue once, or with one thread.  No *)
(* two draw callbacks, and no draw and show callback, ever run on the same *)
(* buffer, although the args of a frame carry no lock of their own         *)
(* (m_buffer.cpp:112, 134).                                                *)
FrameExclusive ==
  /\ IsInjective(p_queue) /\ IsInjective(c_queue)
  /\ Range(p_queue) \cap Range(c_queue) = {}
  /\ Showing \cap (Range(p_queue) \cup Range(c_queue)) = {}
  /\ \A i \in Producer :
       /\ Drawing(i) \cap (Range(p_queue) \cup Range(c_queue) \cup Showing) = {}
       /\ \A j \in Producer \ {i} : Drawing(i) \cap Drawing(j) = {}

(* No frame with both callbacks ever drops out of the cycle, whichever     *)
(* thread finds a mutex taken, a queue empty or a token missing: a lost    *)
(* frame would be one buffer less for the rest of the run.                 *)
NoFrameLost ==
  (1..buffer_task_size) \ (NoProduce \cup NoConsume)
    \subseteq Range(p_queue) \cup Range(c_queue) \cup AllDrawing \cup Showing

(* What a thread's local variable says of the frame it works on.  A frame  *)
(* read with front() is still at the head when pop() runs, a frame that    *)
(* is drawn or shown is a real one, and a thread that found its queue      *)
(* empty does not act on the frame of an earlier round, because the code   *)
(* declares p_task and c_task anew in each round (m_buffer.cpp:102, 125).  *)
HeldFrame ==
  /\ \A i \in Producer :
       /\ p_pc[i] \in {"trylock", "front"} => p_task[i] = NULL
       /\ p_pc[i] = "pop" => p_queue # <<>> /\ p_task[i] = Head(p_queue)
       /\ p_pc[i] \in {"produce", "lock_c", "push"} => p_task[i] \in Task \ NoProduce
  /\ c_pc \in {"lock_c", "front"} => c_task = NULL
  /\ c_pc = "pop" => c_queue # <<>> /\ c_task = Head(c_queue)
  /\ c_pc \in {"consume", "lock_p", "push"} => c_task \in Task \ NoConsume

(* No thread runs before start_m_buffer_thread has created it.             *)
NotStarted ==
  /\ m_pc = "consumer" => c_pc = "none" /\ m_i = 1
  /\ m_pc \in {"consumer", "producers"} =>
       \A i \in Producer : i >= m_i => p_pc[i] = "none"

(* The inductive invariant behind FrameExclusive: exclusion on the queues  *)
(* alone does not protect the frames, their path through the threads'      *)
(* local variables must be followed too.                                   *)
IInv == TypeOK /\ LockOwnership /\ HeldFrame /\ NotStarted /\ FrameExclusive

(* The threads implement the pipeline.  A frame without a callback leaves  *)
(* it as it is popped, a few steps before the code tests the pointer.      *)
Pipeline ==
  INSTANCE FramePipeline WITH
    Frame   <- Task,
    free    <- p_queue,
    ready   <- c_queue,
    drawing <- AllDrawing \ NoProduce,
    showing <- Showing \ NoConsume

(* Frames are drawn in the order they were handed back and shown in the    *)
(* order they were drawn, one at a time, each by one thread.               *)
PipelineSpec == Pipeline!Spec

(* The model runs: every thread exists, or at least one produce thread.    *)
Running == c_pc # "none" /\ t_pc # 0 /\ \E i \in Producer : p_pc[i] # "none"

(* Whatever produce threads could not be created, and however often a tick *)
(* finds p_mutex taken and is wasted (m_buffer.cpp:103), every frame with  *)
(* both callbacks is shown again and again.                                *)
EveryFrameShown ==
  \A t \in Task \ (NoProduce \cup NoConsume) :
    [](Running /\ t <= buffer_task_size => <>(c_pc = "consume" /\ c_task = t))
=============================================================================
