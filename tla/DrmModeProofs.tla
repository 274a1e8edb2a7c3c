--------------------------- MODULE DrmModeProofs ---------------------------
(***************************************************************************)
(* Proofs about DrmMode, for lists of any length and any number of         *)
(* hotplugs.                                                               *)
(***************************************************************************)
EXTENDS DrmMode, TLAPS

(* What the proofs use of the tables of the functions.                     *)
LEMMA Tables ==
  ASSUME fn \in Function
  PROVE  /\ MyBlocks \subseteq Block /\ MyLists \subseteq List
         /\ \A k \in DOMAIN Blocks[fn] : Blocks[fn][k] \in MyBlocks
         /\ \A b \in Block : ListOf(b) \in List
         /\ \A b \in MyBlocks : ListOf(b) \in MyLists
         /\ \A l \in MyLists : \E b \in MyBlocks : l = ListOf(b)
         /\ \A b \in Block : ListOf(b) = "modes" <=> b = "modes"
         /\ "modes" \in Block /\ "modes" \in List
<1>1. MyBlocks \subseteq Block
  BY DEF MyBlocks, Block
<1>2. \A k \in DOMAIN Blocks[fn] : Blocks[fn][k] \in MyBlocks
  BY DEF MyBlocks, Range
<1>3. "modes" \in Block
  <2>1. GetConnector[3] = "modes" /\ 3 \in DOMAIN GetConnector
    BY DEF GetConnector
  <2>2. "modes" \in Range(GetConnector)
    BY <2>1 DEF Range
  <2>3. "Connector" \in Function /\ Blocks["Connector"] = GetConnector
    BY DEF Function, Blocks
  <2> QED
    BY <2>2, <2>3 DEF Block
<1>4. \A b : ListOf(b) = "modes" <=> b = "modes"
  BY DEF ListOf
<1>5. "modes" \in List
  BY <1>3, <1>4 DEF List
<1> QED
  BY <1>1, <1>2, <1>3, <1>4, <1>5 DEF MyLists, List

(* The call of a function begins with the invariant.                       *)
LEMMA InitInv == Init => IInv
<1> SUFFICES ASSUME Init PROVE IInv
  OBVIOUS
<1>1. fn \in Function /\ q_pc = "first" /\ doubleFree = FALSE /\ hotplugs = 0
      /\ req = [l \in List |-> 0] /\ counts = req /\ ptr = [b \in Block |-> "null"]
      /\ filled = {} /\ kernel \in [List -> Count] /\ \A l \in List \ MyLists : kernel[l] = 0
  BY DEF Init, Called
<1>2. TypeOK
  <2>1. 0 \in Count /\ hotplugs \in 0..MaxHotplug
    BY <1>1, CountAssumption DEF Count
  <2>2. req \in [List -> Count] /\ counts \in [List -> Count]
    BY <1>1, <2>1
  <2> QED
    BY <1>1, <2>1, <2>2 DEF TypeOK
<1> QED
  BY <1>1, <1>2 DEF IInv, OnlyMine, Lengths, DanglingAfterRetry, KernelWritesOwnArrays, NoLeak,
                    FreedOnce

(* Freeing leaves no array, and frees one twice only if a pointer of the   *)
(* call was dangling.                                                      *)
LEMMA FreeFacts ==
  ASSUME NEW p \in [Block -> {"null", "live", "stack", "dangling"}], Free(p), doubleFree \in BOOLEAN
  PROVE  /\ ptr' \in [Block -> {"null", "live", "stack", "dangling"}]
         /\ \A b \in Block : ptr'[b] # "live" /\ (p[b] = "null" => ptr'[b] = "null")
         /\ doubleFree' \in BOOLEAN
         /\ doubleFree' => doubleFree \/ \E b \in MyBlocks : p[b] = "dangling"
BY DEF Free

LEMMA HotplugInv == IInv /\ Hotplug => IInv'
<1> SUFFICES ASSUME IInv, Hotplug PROVE IInv'
  OBVIOUS
<1> USE DEF IInv
<1>0. MyBlocks' = MyBlocks /\ MyLists' = MyLists /\ UNCHANGED call /\ hotplugs' > 0
  BY DEF Hotplug, call, MyBlocks, MyLists, TypeOK
<1>1. TypeOK'
  <2>1. hotplugs' \in 0..MaxHotplug
    BY CountAssumption DEF Hotplug, TypeOK
  <2>2. kernel' \in [List -> Count]
    BY DEF Hotplug, TypeOK
  <2> QED
    BY <2>1, <2>2 DEF Hotplug, call, TypeOK
<1>2. OnlyMine'
  BY <1>0, Tables DEF Hotplug, call, TypeOK, OnlyMine
<1>3. Lengths' /\ DanglingAfterRetry' /\ KernelWritesOwnArrays' /\ NoLeak' /\ FreedOnce'
  BY <1>0 DEF call, TypeOK, Lengths, DanglingAfterRetry, KernelWritesOwnArrays, NoLeak, FreedOnce,
              KeepsPointers
<1> QED
  BY <1>1, <1>2, <1>3

LEMMA FirstIoctlInv == IInv /\ FirstIoctl => IInv'
<1> SUFFICES ASSUME IInv, FirstIoctl PROVE IInv'
  OBVIOUS
<1> USE DEF IInv
<1>0. MyBlocks' = MyBlocks /\ MyLists' = MyLists /\ kernel' = kernel /\ hotplugs' = hotplugs
  BY DEF FirstIoctl, environment, MyBlocks, MyLists
<1>1. TypeOK'
  BY CountAssumption DEF FirstIoctl, environment, TypeOK, Count
<1>2. OnlyMine'
  <2>1. fn = "ConnectorCurrent" => "modes" \in MyBlocks
    <3>1. GetConnector[3] = "modes" /\ 3 \in DOMAIN GetConnector
      BY DEF GetConnector
    <3>2. "modes" \in Range(GetConnector)
      BY <3>1 DEF Range
    <3> QED
      BY <3>2 DEF MyBlocks, Blocks
  <2> QED
    BY <1>0, <2>1, Tables DEF FirstIoctl, TypeOK, OnlyMine
<1>3. Lengths' /\ DanglingAfterRetry' /\ KernelWritesOwnArrays' /\ NoLeak' /\ FreedOnce'
  BY <1>0, Tables DEF FirstIoctl, TypeOK, Lengths, DanglingAfterRetry, KernelWritesOwnArrays, NoLeak,
                      FreedOnce, KeepsPointers
<1> QED
  BY <1>1, <1>2, <1>3

LEMMA FirstIoctlFailsInv == IInv /\ FirstIoctlFails => IInv'
<1> SUFFICES ASSUME IInv, FirstIoctlFails PROVE IInv'
  OBVIOUS
<1> USE DEF IInv
<1>0. MyBlocks' = MyBlocks /\ MyLists' = MyLists
  BY DEF FirstIoctlFails, MyBlocks, MyLists
<1> QED
  BY <1>0 DEF FirstIoctlFails, environment, TypeOK, OnlyMine, Lengths, DanglingAfterRetry,
              KernelWritesOwnArrays, NoLeak, FreedOnce, KeepsPointers

(* The arrays that are allocated, and the request that goes with them.     *)
LEMMA AllocateInv == IInv /\ Allocate => IInv'
<1> SUFFICES ASSUME IInv, Allocate PROVE IInv'
  OBVIOUS
<1> USE DEF IInv
<1>0. MyBlocks' = MyBlocks /\ MyLists' = MyLists /\ kernel' = kernel /\ hotplugs' = hotplugs
      /\ fn' = fn
  BY DEF Allocate, environment, MyBlocks, MyLists
<1>1. \A b \in Block : ptr'[b] = CASE b \in MyBlocks /\ req[ListOf(b)] > 0 -> "live"
                                   [] b \in MyBlocks /\ b = "modes" /\ req["modes"] = 0 -> "stack"
                                   [] OTHER -> ptr[b]
  BY DEF Allocate, Allocated
<1>2. ptr' \in [Block -> {"null", "live", "stack", "dangling"}]
  BY Tables DEF Allocate, Allocated, TypeOK
<1>3. ptr'["modes"] = "stack" <=> "modes" \in MyBlocks /\ req["modes"] = 0
  <2>1. ListOf("modes") = "modes" /\ "modes" \in Block /\ req["modes"] \in Nat
    BY Tables, CountAssumption DEF TypeOK, Count
  <2>2. CASE "modes" \in MyBlocks
    BY <1>1, <2>1, <2>2
  <2>3. CASE "modes" \notin MyBlocks
    BY <1>1, <2>1, <2>3 DEF OnlyMine
  <2> QED
    BY <2>2, <2>3
<1>4. \A l \in List : req'[l] = IF l = "modes" /\ ptr'["modes"] = "stack" THEN 1 ELSE req[l]
  BY DEF Allocate, TypeOK
<1>5. TypeOK'
  <2>1. 1 \in Count
    BY CountAssumption DEF Count
  <2>2. req' \in [List -> Count]
    BY <2>1 DEF Allocate, TypeOK
  <2> QED
    BY <1>2, <2>2 DEF Allocate, environment, TypeOK
<1>6. OnlyMine'
  BY <1>0, <1>1, <1>3, <1>4, Tables DEF OnlyMine, TypeOK
<1>7. Lengths'
  BY <1>0, <1>3, <1>4, Tables, CountAssumption DEF Allocate, Lengths, TypeOK, Count
<1>8. KernelWritesOwnArrays'
  <2> SUFFICES ASSUME NEW b \in MyBlocks, req'[ListOf(b)] > 0
               PROVE  \/ ptr'[b] = "live" /\ req'[ListOf(b)] = counts'[ListOf(b)]
                      \/ ptr'[b] = "stack" /\ req'[ListOf(b)] = 1
    BY <1>0 DEF KernelWritesOwnArrays
  <2>1. counts' = req /\ ListOf(b) \in List /\ b \in Block /\ (ListOf(b) = "modes" <=> b = "modes")
    BY Tables DEF Allocate, TypeOK
  <2> QED
    BY <1>1, <1>3, <1>4, <2>1
<1>9. DanglingAfterRetry' /\ NoLeak' /\ FreedOnce'
  <2>1. \A b \in MyBlocks : ptr'[b] = "dangling" => ptr[b] = "dangling"
    BY <1>1, Tables DEF TypeOK
  <2> QED
    BY <1>0, <2>1 DEF Allocate, DanglingAfterRetry, NoLeak, FreedOnce, KeepsPointers
<1> QED
  BY <1>5, <1>6, <1>7, <1>8, <1>9

(* A malloc that fails, somewhere in the middle.                           *)
LEMMA AllocateFailsInv == IInv /\ AllocateFails => IInv'
<1> SUFFICES ASSUME IInv, AllocateFails PROVE IInv'
  OBVIOUS
<1> USE DEF IInv
<1>0. MyBlocks' = MyBlocks /\ MyLists' = MyLists /\ kernel' = kernel /\ hotplugs' = hotplugs
      /\ fn' = fn /\ req' = req /\ q_pc' = "failed" /\ q_pc = "alloc"
  BY DEF AllocateFails, environment, MyBlocks, MyLists, Fail
<1>1. PICK k \in DOMAIN Blocks[fn] :
        Free([Allocated({Blocks[fn][i] : i \in 1..(k - 1)}) EXCEPT ![Blocks[fn][k]] = "null"])
  BY DEF AllocateFails, Fail
<1> DEFINE bs == {Blocks[fn][i] : i \in 1..(k - 1)}
           p == [Allocated(bs) EXCEPT ![Blocks[fn][k]] = "null"]
<1>2. bs \subseteq MyBlocks
  <2>1. PICK n \in Nat : DOMAIN Blocks[fn] = 1..n
    <3>1. fn \in {"Resources", "Connector", "ConnectorCurrent", "Plane", "PlaneResources",
                 "ObjectProperties"}
      BY DEF TypeOK, Function, Blocks
    <3>2. DOMAIN Blocks[fn] \in {1..4, 1..1, 1..2}
      BY <3>1 DEF Blocks, GetResources, GetConnector, GetPlane, GetPlaneResources,
                  ObjectGetProperties
    <3> QED
      BY <3>2
  <2>2. \A i \in 1..(k - 1) : i \in DOMAIN Blocks[fn]
    BY <2>1
  <2> QED
    BY <2>2, Tables DEF TypeOK
<1>3. p \in [Block -> {"null", "live", "stack", "dangling"}]
  BY Tables DEF Allocated, TypeOK
<1>4. \A b \in Block \ MyBlocks : p[b] = "null"
  BY <1>2, Tables DEF Allocated, OnlyMine, TypeOK
<1>5. \A b \in MyBlocks : p[b] = "dangling" => ptr[b] = "dangling"
  BY Tables DEF Allocated, TypeOK
<1>6. /\ ptr' \in [Block -> {"null", "live", "stack", "dangling"}]
      /\ \A b \in Block : ptr'[b] # "live" /\ (p[b] = "null" => ptr'[b] = "null")
      /\ doubleFree' \in BOOLEAN
      /\ doubleFree' => doubleFree \/ \E b \in MyBlocks : p[b] = "dangling"
  <2> HIDE DEF p
  <2> QED
    BY <1>1, <1>3, FreeFacts DEF TypeOK, p, bs
<1>7. TypeOK'
  BY <1>0, <1>6 DEF AllocateFails, TypeOK
<1> QED
  BY <1>0, <1>4, <1>5, <1>6, <1>7 DEF OnlyMine, Lengths, DanglingAfterRetry, KernelWritesOwnArrays,
                                      NoLeak, FreedOnce, KeepsPointers

(* A second ioctl that fills everything.                                   *)
LEMMA SecondIoctlInv == IInv /\ SecondIoctl => IInv'
<1> SUFFICES ASSUME IInv, SecondIoctl PROVE IInv'
  OBVIOUS
<1> USE DEF IInv
<1>0. MyBlocks' = MyBlocks /\ MyLists' = MyLists /\ kernel' = kernel /\ hotplugs' = hotplugs
      /\ fn' = fn /\ ptr' = ptr /\ doubleFree' = doubleFree /\ counts' = counts
      /\ q_pc = "second" /\ q_pc' = "copy"
  BY DEF SecondIoctl, environment, MyBlocks, MyLists
<1>1. \A l \in List : req'[l] = IF l \in MyLists THEN kernel[l] ELSE 0
  BY DEF SecondIoctl, KernelFills
<1>2. req' \in [List -> Count]
  BY CountAssumption DEF SecondIoctl, KernelFills, TypeOK, Count
<1>3. filled' = MyLists
  <2>1. \A l \in MyLists : kernel[l] \in Nat /\ counts[l] \in Nat /\ req[l] \in Nat
    BY Tables, CountAssumption DEF TypeOK, Count
  <2>2. \A l \in MyLists : kernel[l] <= req[l]
    BY <1>0, <2>1 DEF SecondIoctl, Grown, Lengths
  <2> QED
    BY <2>2 DEF SecondIoctl, KernelFills
<1>4. TypeOK'
  BY <1>0, <1>2, <1>3, Tables DEF TypeOK
<1>5. OnlyMine'
  BY <1>0, <1>1 DEF OnlyMine
<1> QED
  BY <1>0, <1>3, <1>4, <1>5 DEF Lengths, DanglingAfterRetry, KernelWritesOwnArrays, NoLeak, FreedOnce,
                                KeepsPointers

(* A second ioctl that finds a longer list.                                *)
LEMMA RetryInv == IInv /\ Retry => IInv'
<1> SUFFICES ASSUME IInv, Retry PROVE IInv'
  OBVIOUS
<1> USE DEF IInv
<1>0. MyBlocks' = MyBlocks /\ MyLists' = MyLists /\ kernel' = kernel /\ hotplugs' = hotplugs
      /\ fn' = fn /\ counts' = counts /\ q_pc = "second"
      /\ q_pc' = IF KeepsPointers(fn) THEN "alloc" ELSE "first"
  BY DEF Retry, environment, MyBlocks, MyLists
<1>1. \A l \in List : req'[l] = IF l \in MyLists THEN kernel[l] ELSE 0
  BY DEF Retry, KernelFills
<1>2. req' \in [List -> Count] /\ filled' \subseteq List
  BY Tables, CountAssumption DEF Retry, KernelFills, TypeOK, Count
<1>3. /\ ptr' \in [Block -> {"null", "live", "stack", "dangling"}]
      /\ \A b \in Block : ptr'[b] # "live" /\ (ptr[b] = "null" => ptr'[b] = "null")
      /\ doubleFree' \in BOOLEAN
      /\ doubleFree' => doubleFree \/ \E b \in MyBlocks : ptr[b] = "dangling"
  BY FreeFacts DEF Retry, TypeOK
<1>4. hotplugs > 0
  <2>1. PICK l \in MyLists : counts[l] < kernel[l]
    BY DEF Retry, Grown
  <2>2. kernel[l] \in Nat /\ counts[l] \in Nat /\ hotplugs \in Nat
    BY Tables, CountAssumption DEF TypeOK, Count
  <2> QED
    BY <1>0, <2>1, <2>2 DEF Lengths
<1>5. TypeOK'
  BY <1>0, <1>2, <1>3 DEF TypeOK
<1>6. OnlyMine'
  BY <1>0, <1>1, <1>3, Tables DEF OnlyMine, TypeOK
<1>7. Lengths'
  BY <1>0, <1>4 DEF Lengths
<1>8. DanglingAfterRetry' /\ FreedOnce'
  BY <1>0, <1>3, <1>4 DEF DanglingAfterRetry, FreedOnce, KeepsPointers
<1>9. KernelWritesOwnArrays' /\ NoLeak'
  BY <1>0, <1>3 DEF KernelWritesOwnArrays, NoLeak
<1> QED
  BY <1>5, <1>6, <1>7, <1>8, <1>9

(* The two ways to the end that free everything.                           *)
LEMMA EndInv == IInv /\ (SecondIoctlFails \/ Copy) => IInv'
<1> SUFFICES ASSUME IInv, SecondIoctlFails \/ Copy PROVE IInv'
  OBVIOUS
<1> USE DEF IInv
<1>0. MyBlocks' = MyBlocks /\ MyLists' = MyLists /\ kernel' = kernel /\ hotplugs' = hotplugs
      /\ fn' = fn /\ req' = req /\ counts' = counts /\ filled' = filled /\ Free(ptr)
      /\ q_pc \in {"second", "copy"} /\ q_pc' \in {"done", "failed"}
      /\ (q_pc' = "done" => q_pc = "copy")
  BY DEF SecondIoctlFails, Copy, Fail, environment, MyBlocks, MyLists
<1>1. /\ ptr' \in [Block -> {"null", "live", "stack", "dangling"}]
      /\ \A b \in Block : ptr'[b] # "live" /\ (ptr[b] = "null" => ptr'[b] = "null")
      /\ doubleFree' \in BOOLEAN
      /\ doubleFree' => doubleFree \/ \E b \in MyBlocks : ptr[b] = "dangling"
  BY <1>0, FreeFacts DEF TypeOK
<1>2. TypeOK'
  BY <1>0, <1>1 DEF TypeOK
<1>3. OnlyMine' /\ NoLeak'
  BY <1>0, <1>1, Tables DEF OnlyMine, NoLeak, TypeOK
<1>4. Lengths' /\ DanglingAfterRetry' /\ KernelWritesOwnArrays' /\ FreedOnce'
  BY <1>0, <1>1 DEF Lengths, DanglingAfterRetry, KernelWritesOwnArrays, FreedOnce, KeepsPointers
<1> QED
  BY <1>2, <1>3, <1>4

-----------------------------------------------------------------------------
(* The invariant holds, whatever is plugged in and out and whatever fails, *)
(* in all six functions (xf86drmMode.c:164-256, 497-611, 1146-1319).       *)
THEOREM Invariant == Spec => []IInv
<1>1. IInv /\ [Next]_vars => IInv'
  <2> SUFFICES ASSUME IInv, [Next]_vars PROVE IInv'
    OBVIOUS
  <2>1. CASE UNCHANGED vars
    BY <2>1 DEF vars, call, environment, IInv, TypeOK, OnlyMine, Lengths, DanglingAfterRetry,
                KernelWritesOwnArrays, NoLeak, FreedOnce, MyBlocks, MyLists
  <2>2. CASE Next
    BY <2>2, HotplugInv, FirstIoctlInv, FirstIoctlFailsInv, AllocateInv, AllocateFailsInv,
       SecondIoctlInv, RetryInv, EndInv DEF Next, Query
  <2> QED
    BY <2>1, <2>2
<1> QED
  BY <1>1, InitInv, PTL DEF Spec

(* Every variable keeps its type.                                          *)
THEOREM TypeCorrect == Spec => []TypeOK
BY Invariant, PTL DEF IInv

(* The kernel only ever writes to arrays of the call that are long enough  *)
(* (xf86drmMode.c:197, 541).                                               *)
THEOREM OwnArrays == Spec => []KernelWritesOwnArrays
BY Invariant, PTL DEF IInv

(* No call leaks an array (xf86drmMode.c:249, 593).                        *)
THEOREM NothingLeaked == Spec => []NoLeak
BY Invariant, PTL DEF IInv

(* Only the connector functions can free an array twice, and only after a  *)
(* hotplug (xf86drmMode.c:514, 557).                                       *)
THEOREM DoubleFree == Spec => []FreedOnce
BY Invariant, PTL DEF IInv

(* What a successful call returns is the state of the kernel at one moment *)
(* during the call (xf86drmMode.c:204, 548, 1169, 1228, 1292).             *)
THEOREM Snapshot == Spec => SnapshotSpec
<1> DEFINE st == CASE q_pc \in {"first", "alloc", "second"} -> "asked"
                   [] q_pc = "copy" -> "answered"
                   [] q_pc = "done" -> "returned"
                   [] q_pc = "failed" -> "failed"
           an == IF q_pc \in {"copy", "done"} THEN Answered ELSE [l \in List |-> 0]
<1>1. Init => Abstract!Init
  BY DEF Init, Called, Abstract!Init, Abstract!Asked, Abstract!NoAnswer
<1>2. IInv /\ IInv' /\ [Next]_vars => [Abstract!Next]_(Abstract!vars)
  <2> SUFFICES ASSUME IInv, IInv', [Next]_vars PROVE [Abstract!Next]_(Abstract!vars)
    OBVIOUS
  <2>1. CASE UNCHANGED vars
    BY <2>1 DEF vars, call, environment, Abstract!vars, Answered, MyLists, MyBlocks
  <2>2. CASE Hotplug
    <3>1. kernel' \in [List -> Count]
      BY DEF IInv, TypeOK
    <3>2. UNCHANGED <<st, an>>
      BY <2>2 DEF Hotplug, call, Answered, MyLists, MyBlocks
    <3> QED
      BY <3>1, <3>2 DEF Abstract!Hotplug, Abstract!Next
  <2>3. CASE FirstIoctl \/ Allocate \/ Retry
    <3>1. kernel' = kernel /\ q_pc \in {"first", "alloc", "second"}
          /\ q_pc' \in {"first", "alloc", "second"}
      BY <2>3 DEF FirstIoctl, Allocate, Retry, environment
    <3> QED
      BY <3>1 DEF Abstract!vars
  <2>4. CASE FirstIoctlFails \/ AllocateFails \/ SecondIoctlFails
    <3>1. kernel' = kernel /\ q_pc \in {"first", "alloc", "second"} /\ q_pc' = "failed"
      BY <2>4 DEF FirstIoctlFails, AllocateFails, SecondIoctlFails, Fail, environment
    <3> QED
      BY <3>1 DEF Abstract!Fail, Abstract!Next, Abstract!NoAnswer
  <2>5. CASE SecondIoctl
    <3>1. kernel' = kernel /\ q_pc = "second" /\ q_pc' = "copy"
          /\ MyBlocks' = MyBlocks /\ MyLists' = MyLists
      BY <2>5 DEF SecondIoctl, environment, MyLists, MyBlocks
    <3>2. \A l \in List : req'[l] = kernel[l]
      BY <2>5 DEF SecondIoctl, KernelFills, IInv, OnlyMine
    <3>3. MyLists \subseteq filled'
      BY <3>1 DEF IInv, Lengths
    <3>4. Answered' = kernel
      <4>1. Answered' = [l \in List |-> kernel[l]]
        BY <3>1, <3>2, <3>3 DEF Answered
      <4> QED
        BY <4>1 DEF IInv, TypeOK
    <3> QED
      BY <3>1, <3>4 DEF Abstract!Answer, Abstract!Next
  <2>6. CASE Copy
    <3>1. kernel' = kernel /\ q_pc = "copy" /\ q_pc' \in {"done", "failed"}
          /\ Answered' = Answered
      BY <2>6 DEF Copy, environment, Answered, MyLists, MyBlocks
    <3> QED
      BY <3>1 DEF Abstract!Return, Abstract!Fail, Abstract!Next, Abstract!NoAnswer
  <2> QED
    BY <2>1, <2>2, <2>3, <2>4, <2>5, <2>6 DEF Next, Query
<1> QED
  BY <1>1, <1>2, Invariant, PTL DEF Spec, SnapshotSpec, Abstract!Spec

(* With the lists at rest, a step of the call keeps what it knows.         *)
LEMMA KnowsStep == IInv /\ KnowsLists /\ [Query]_vars => KnowsLists'
<1> SUFFICES ASSUME IInv, KnowsLists, [Query]_vars PROVE KnowsLists'
  OBVIOUS
<1>1. CASE UNCHANGED vars
  BY <1>1 DEF vars, call, environment, KnowsLists, Grown, MyLists, MyBlocks
<1>2. CASE FirstIoctl
  <2>1. MyLists' = MyLists /\ kernel' = kernel /\ q_pc' = "alloc"
        /\ \A l \in MyLists : req'[l] = kernel[l] /\ kernel[l] \in Int
    BY <1>2, Tables, CountAssumption
       DEF FirstIoctl, environment, MyLists, MyBlocks, IInv, TypeOK, Count
  <2> QED
    BY <2>1 DEF KnowsLists
<1>3. CASE Allocate
  <2>1. MyLists' = MyLists /\ kernel' = kernel /\ counts' = req /\ q_pc = "alloc"
        /\ q_pc' = "second" /\ \A l \in MyLists : req[l] \in Int /\ kernel[l] \in Int
    BY <1>3, Tables, CountAssumption
       DEF Allocate, environment, MyLists, MyBlocks, IInv, TypeOK, Count
  <2> QED
    BY <2>1 DEF KnowsLists, Grown
<1>4. CASE Retry
  BY <1>4 DEF Retry, KnowsLists
<1>5. CASE FirstIoctlFails \/ AllocateFails \/ SecondIoctl \/ SecondIoctlFails \/ Copy
  <2>1. q_pc' \in {"copy", "done", "failed"}
    BY <1>5 DEF FirstIoctlFails, AllocateFails, SecondIoctl, SecondIoctlFails, Copy, Fail
  <2> QED
    BY <2>1 DEF KnowsLists
<1> QED
  BY <1>1, <1>2, <1>3, <1>4, <1>5 DEF Query

(* Every retry uses the lengths of this moment: once the monitors are at   *)
(* rest, a call starts again at most once, however many lists have grown   *)
(* before (xf86drmMode.c:204-214, 549-558).                                *)
THEOREM OneRetry == Spec => OneRetryAtRest
<1>1. IInv /\ [Next]_vars => [Retry => KnowsLists']_vars
  <2> SUFFICES ASSUME IInv, Retry PROVE KnowsLists'
    OBVIOUS
  <2>1. MyLists' = MyLists /\ kernel' = kernel /\ q_pc' \in {"alloc", "first"}
        /\ \A l \in MyLists : req'[l] = kernel[l] /\ kernel[l] \in Int
    BY Tables, CountAssumption
       DEF Retry, KernelFills, environment, MyLists, MyBlocks, IInv, TypeOK, Count
  <2> QED
    BY <2>1 DEF KnowsLists
<1>2. IInv /\ (hotplugs = MaxHotplug /\ KnowsLists) /\ [Next]_vars
        => (hotplugs = MaxHotplug /\ KnowsLists)'
  <2> SUFFICES ASSUME IInv, hotplugs = MaxHotplug, KnowsLists, [Next]_vars
               PROVE  hotplugs' = MaxHotplug /\ KnowsLists'
    OBVIOUS
  <2>1. [Query]_vars
    BY CountAssumption DEF Next, Hotplug
  <2>2. hotplugs' = hotplugs
    BY <2>1 DEF Query, FirstIoctl, FirstIoctlFails, Allocate, AllocateFails, SecondIoctl, Retry,
                SecondIoctlFails, Copy, environment, vars
  <2> QED
    BY <2>1, <2>2, KnowsStep
<1> QED
  BY <1>1, <1>2, Invariant, PTL DEF Spec, OneRetryAtRest
=============================================================================
