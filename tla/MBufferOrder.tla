---------------------------- MODULE MBufferOrder ----------------------------
(***************************************************************************)
(* The order of the frames on the screen: MBuffer with a history of the    *)
(* order in which frames are taken from p_queue to be drawn.  The produce  *)
(* threads draw in parallel and push when they are done; m_buffer.cpp:113  *)
(* leaves it to do to sort the frames before the push.                     *)
(***************************************************************************)
EXTENDS MBuffer

VARIABLE before  \* of each frame: those taken before it and not shown yet

orderVars == <<vars, before>>

(* Frames between the two queues' ends: drawn now, or drawn and waiting.   *)
InPipeline == (AllDrawing \ NoProduce) \cup Range(c_queue)

Taken == p_queue # <<>> /\ p_queue' = Tail(p_queue)
Shown == c_queue # <<>> /\ c_queue' = Tail(c_queue)

OrderInit == Init /\ before = [t \in Task |-> {}]

Remember ==
  before' = CASE Taken -> [before EXCEPT ![Head(p_queue)] = InPipeline]
              [] Shown -> [t \in Task |-> before[t] \ {Head(c_queue)}]
              [] OTHER -> before

OrderNext == Next /\ Remember

OrderSpec == OrderInit /\ [][OrderNext]_orderVars

(* What the code guarantees without sorting: the frame about to be shown   *)
(* has passed fewer frames than there are produce threads.  A thread draws *)
(* one frame at a time and c_queue is a FIFO, so that the disorder does    *)
(* not build up however far the consumer lags behind.                      *)
DisorderBounded ==
  c_pc = "pop" => Cardinality(before[c_task]) < MaxProduceThreadNum

-----------------------------------------------------------------------------
(* The inductive invariant.                                                *)

(* Of the frames taken before one that is still drawn, those not shown are *)
(* drawn by other threads or wait in c_queue.                              *)
DrawnInOrder ==
  \A i \in Producer : \A t \in Drawing(i) \ NoProduce :
    before[t] \subseteq InPipeline \ {t}

(* Of the frames taken before one in c_queue, all but a few are ahead of   *)
(* it there.                                                               *)
Passed(k) == before[c_queue[k]] \ {c_queue[j] : j \in 1..(k - 1)}

QueuedInOrder ==
  \A k \in DOMAIN c_queue : Cardinality(Passed(k)) < MaxProduceThreadNum

(* The invariant of the proofs (m_buffer.cpp:103-116).                     *)
OrderInv == before \in [Task -> SUBSET Task] /\ DrawnInOrder /\ QueuedInOrder
=============================================================================
