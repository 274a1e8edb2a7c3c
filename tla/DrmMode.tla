------------------------------ MODULE DrmMode ------------------------------
(***************************************************************************)
(* The query functions of libdrm's xf86drmMode.c: those the demos call     *)
(* (drmModeGetResources, drmModeGetConnector) and their siblings.  Each    *)
(* asks the kernel twice: a first ioctl for the lengths of some lists and, *)
(* after it has allocated an array for each, a second one for the entries. *)
(* Monitors come and go meanwhile, and the kernel does not fill an array   *)
(* that is too short, so that the call starts again when a list has grown. *)
(*                                                                         *)
(* A list is represented by its length.  A pointer is "null", "live"       *)
(* (allocated by this call), "stack" (&stack_mode) or "dangling" (its      *)
(* block was freed).  Every ioctl and every malloc may fail.  drmIoctl     *)
(* repeats an interrupted ioctl, which changes nothing.                    *)
(***************************************************************************)
EXTENDS Integers, Sequences, Functions

CONSTANTS MaxCount,   \* bound on the length of a list
          MaxHotplug  \* bound on the changes of the kernel's lists

ASSUME CountAssumption == MaxCount \in Nat \ {0} /\ MaxHotplug \in Nat

(* The array pointers of each function, in the order of their allocation.  *)
GetResources        == <<"fbs", "crtcs", "connectors", "encoders">>
GetConnector        == <<"props", "prop_values", "modes", "conn_encoders">>
GetPlane            == <<"formats">>
GetPlaneResources   == <<"planes">>
ObjectGetProperties == <<"obj_props", "obj_prop_values">>

Blocks ==
  [Resources |-> GetResources, Connector |-> GetConnector,
   ConnectorCurrent |-> GetConnector, Plane |-> GetPlane,
   PlaneResources |-> GetPlaneResources, ObjectProperties |-> ObjectGetProperties]

Function == DOMAIN Blocks
Block == UNION {Range(Blocks[f]) : f \in Function}

(* The list an array is for: a property's id and value come together.      *)
ListOf(b) == CASE b = "prop_values" -> "props"
               [] b = "obj_prop_values" -> "obj_props"
               [] OTHER -> b
List == {ListOf(b) : b \in Block}

(* drmModeGetConnector and drmModeGetConnectorCurrent start again after    *)
(* the first ioctl, with the pointers of the attempt before; the others    *)
(* start from the beginning and clear the request.                         *)
KeepsPointers(f) == f \in {"Connector", "ConnectorCurrent"}

VARIABLES
  fn,          \* the function that is called
  q_pc,        \* its position
  req,         \* the lengths in the request it shares with the kernel
  counts,      \* its copy of the lengths, made before the allocations
  ptr,         \* its pointers
  filled,      \* lists that the second ioctl has filled in completely
  doubleFree,  \* it has freed a pointer twice
  kernel,      \* length of each list in the kernel
  hotplugs     \* number of changes so far

call == <<fn, q_pc, req, counts, ptr, filled, doubleFree>>
environment == <<kernel, hotplugs>>
vars == <<call, environment>>

Count == 0..MaxCount
MyBlocks == Range(Blocks[fn])
MyLists == {ListOf(b) : b \in MyBlocks}

TypeOK ==
  /\ fn \in Function
  /\ q_pc \in {"first", "alloc", "second", "copy", "done", "failed"}
  /\ req \in [List -> Count] /\ counts \in [List -> Count]
  /\ ptr \in [Block -> {"null", "live", "stack", "dangling"}]
  /\ filled \subseteq List /\ doubleFree \in BOOLEAN
  /\ kernel \in [List -> Count] /\ hotplugs \in 0..MaxHotplug

(* A call of f begins.                                                     *)
Called(f) ==
  /\ fn = f /\ q_pc = "first"
  /\ req = [l \in List |-> 0] /\ counts = req
  /\ ptr = [b \in Block |-> "null"]
  /\ filled = {} /\ doubleFree = FALSE

(* Lists the function does not ask for are left empty.                     *)
Init ==
  /\ \E f \in Function : Called(f)
  /\ kernel \in [List -> Count] /\ \A l \in List \ MyLists : kernel[l] = 0
  /\ hotplugs = 0

-----------------------------------------------------------------------------
(* A monitor is plugged in or out, a framebuffer or a property comes or    *)
(* goes: one list has another length.                                      *)
Hotplug ==
  /\ hotplugs < MaxHotplug /\ hotplugs' = hotplugs + 1
  /\ \E l \in MyLists, n \in Count : kernel' = [kernel EXCEPT ![l] = n]
  /\ UNCHANGED call

-----------------------------------------------------------------------------
(* drmFree of every pointer of the call but &stack_mode.                   *)
Free(p) ==
  /\ ptr' = [b \in Block |-> IF p[b] = "live" THEN "dangling" ELSE p[b]]
  /\ doubleFree' = (doubleFree \/ \E b \in MyBlocks : p[b] = "dangling")

(* err_allocs: everything is freed and NULL returned.                      *)
Fail(p) == Free(p) /\ q_pc' = "failed"

(* Mutant: the request is not cleared.                                     *)
FirstIoctlUncleared ==
  /\ q_pc = "first" /\ q_pc' = "alloc"
  /\ req' = [l \in List |-> IF l \in MyLists THEN kernel[l] ELSE 0]
  /\ UNCHANGED <<fn, counts, filled, doubleFree, ptr, environment>>

(* The lengths.  drmModeGetConnectorCurrent asks for one mode in           *)
(* stack_mode, lest the kernel probes the monitor.                         *)
FirstIoctl ==
  /\ q_pc = "first" /\ q_pc' = "alloc"
  /\ req' = [l \in List |-> IF l \in MyLists THEN kernel[l] ELSE 0]
  /\ ptr' = [b \in Block |->
               IF b = "modes" /\ fn = "ConnectorCurrent" THEN "stack" ELSE "null"]
  /\ UNCHANGED <<fn, counts, filled, doubleFree, environment>>

FirstIoctlFails ==
  /\ q_pc = "first" /\ q_pc' = "failed"
  /\ UNCHANGED <<fn, req, counts, ptr, filled, doubleFree, environment>>

(* The pointers when the arrays bs have been allocated: an empty list      *)
(* leaves its pointer alone, but no modes are asked for in stack_mode.     *)
Allocated(bs) ==
  [b \in Block |-> CASE b \in bs /\ req[ListOf(b)] > 0 -> "live"
                     [] b \in bs /\ b = "modes" /\ req["modes"] = 0 -> "stack"
                     [] OTHER -> ptr[b]]

(* Mutant: each array gets room for one more.                              *)
AllocateOneMore ==
  /\ q_pc = "alloc" /\ q_pc' = "second"
  /\ counts' = [l \in List |-> req[l] + 1]
  /\ ptr' = Allocated(MyBlocks)
  /\ req' = IF ptr'["modes"] = "stack" THEN [req EXCEPT !["modes"] = 1] ELSE req
  /\ UNCHANGED <<fn, filled, doubleFree, environment>>

(* Mutant: the values are left without an array of their own.              *)
AllocateIdsOnly ==
  /\ q_pc = "alloc" /\ q_pc' = "second"
  /\ counts' = req
  /\ ptr' = Allocated(MyBlocks \ {"prop_values"})
  /\ req' = IF ptr'["modes"] = "stack" THEN [req EXCEPT !["modes"] = 1] ELSE req
  /\ UNCHANGED <<fn, filled, doubleFree, environment>>

Allocate ==
  /\ q_pc = "alloc" /\ q_pc' = "second"
  /\ counts' = req
  /\ ptr' = Allocated(MyBlocks)
  /\ req' = IF ptr'["modes"] = "stack" THEN [req EXCEPT !["modes"] = 1] ELSE req
  /\ UNCHANGED <<fn, filled, doubleFree, environment>>

(* The k-th malloc returns NULL.                                           *)
AllocateFails ==
  /\ q_pc = "alloc"
  /\ \E k \in DOMAIN Blocks[fn] :
       LET missing == Blocks[fn][k]
       IN /\ req[ListOf(missing)] > 0
          /\ Fail([Allocated({Blocks[fn][i] : i \in 1..(k - 1)}) EXCEPT ![missing] = "null"])
  /\ counts' = req
  /\ UNCHANGED <<fn, req, filled, environment>>

(* Mutant: as the others do with a NULL array, the modes are skipped.      *)
GrownButModes == {l \in MyLists \ {"modes"} : counts[l] < kernel[l]}

(* Mutant: a list of the same length is taken for one that has grown.      *)
GrownOrSame == {l \in MyLists : counts[l] <= kernel[l]}

(* Lists that have grown since the first ioctl.                            *)
Grown == {l \in MyLists : counts[l] < kernel[l]}

(* What the kernel does to the request.                                    *)
KernelFills ==
  /\ req' = [l \in List |-> IF l \in MyLists THEN kernel[l] ELSE 0]
  /\ filled' = {l \in MyLists : kernel[l] <= req[l]}

SecondIoctl ==
  /\ q_pc = "second" /\ Grown = {} /\ q_pc' = "copy"
  /\ KernelFills
  /\ UNCHANGED <<fn, counts, ptr, doubleFree, environment>>

(* Mutant: the array of the values is forgotten.                           *)
RetryLeaking ==
  /\ q_pc = "second" /\ Grown # {}
  /\ q_pc' = IF KeepsPointers(fn) THEN "alloc" ELSE "first"
  /\ KernelFills
  /\ ptr' = [b \in Block |-> IF ptr[b] = "live" /\ b # "prop_values" THEN "dangling" ELSE ptr[b]]
  /\ UNCHANGED <<fn, counts, doubleFree, environment>>

(* The arrays are freed and the call starts again.                         *)
Retry ==
  /\ q_pc = "second" /\ Grown # {}
  /\ q_pc' = IF KeepsPointers(fn) THEN "alloc" ELSE "first"
  /\ KernelFills
  /\ Free(ptr)
  /\ UNCHANGED <<fn, counts, environment>>

SecondIoctlFails ==
  /\ q_pc = "second"
  /\ Fail(ptr)
  /\ UNCHANGED <<fn, req, counts, filled, environment>>

(* The arrays are copied into the result, of the lengths in req, and       *)
(* freed; a malloc for the result may fail, which undoes it.               *)
Copy ==
  /\ q_pc = "copy"
  /\ q_pc' \in {"done", "failed"}
  /\ Free(ptr)
  /\ UNCHANGED <<fn, req, counts, filled, environment>>

-----------------------------------------------------------------------------
Query == \/ FirstIoctl \/ FirstIoctlFails \/ Allocate \/ AllocateFails
         \/ SecondIoctl \/ Retry \/ SecondIoctlFails \/ Copy

Next == Query \/ Hotplug

Spec == Init /\ [][Next]_vars

(* The calling thread runs.  Nothing is assumed of the monitors, but that  *)
(* they do not come and go for ever.                                       *)
FairSpec == Spec /\ WF_vars(Query)

-----------------------------------------------------------------------------
(* The kernel only writes to arrays that belong to the call and are as     *)
(* long as the request says, whatever a retry has left in the pointers     *)
(* (xf86drmMode.c:199, 543).                                               *)
KernelWritesOwnArrays ==
  q_pc = "second" =>
    \A b \in MyBlocks : LET n == req[ListOf(b)] IN
      n > 0 => \/ ptr[b] = "live" /\ n = counts[ListOf(b)]
               \/ ptr[b] = "stack" /\ n = 1

(* What the call is about to return: a list that the kernel did not fill   *)
(* in completely is Garbage, whatever length it is returned with.          *)
Garbage == -1
Answered ==
  [l \in List |-> IF l \in MyLists /\ req[l] > 0 /\ l \notin filled THEN Garbage ELSE req[l]]

Abstract ==
  INSTANCE DrmQuery
  WITH Count <- Count,
       lists <- kernel,
       status <- CASE q_pc \in {"first", "alloc", "second"} -> "asked"
                   [] q_pc = "copy" -> "answered"
                   [] q_pc = "done" -> "returned"
                   [] q_pc = "failed" -> "failed",
       answer <- IF q_pc \in {"copy", "done"} THEN Answered ELSE [l \in List |-> 0]

(* Although it asks twice and tries again, a call that succeeds returns    *)
(* all its lists as they were at one moment: never a new length with       *)
(* entries the kernel has not filled in, nor lists of different moments    *)
(* (xf86drmMode.c:202-205, 546-549).                                       *)
SnapshotSpec == Abstract!Spec

(* However often a call starts again and wherever it fails, no array is    *)
(* still allocated when it returns or is forgotten when it tries again.    *)
NoLeak == q_pc \notin {"second", "copy"} => \A b \in Block : ptr[b] # "live"

(* An array is freed once, with one exception, which is in the code: the   *)
(* connector functions start again with the pointers they have freed       *)
(* (xf86drmMode.c:514, 558), and free them once more when a malloc of the  *)
(* second attempt fails or a list has become empty.                        *)
FreedOnce == doubleFree => KeepsPointers(fn) /\ hotplugs > 0

(* The call returns when the monitors come to rest.                        *)
CallReturns == <>(q_pc \in {"done", "failed"})

(* The lengths the call knows are no shorter than the kernel's: its next   *)
(* second ioctl will not start it again.                                   *)
KnowsLists ==
  /\ q_pc = "alloc" => \A l \in MyLists : req[l] >= kernel[l]
  /\ q_pc = "second" => Grown = {}

(* Trying again always helps: every retry, and every call from its start,  *)
(* uses the lengths of this moment, so that once the monitors are at rest  *)
(* a call starts again at most once (xf86drmMode.c:204-214, 549-558).      *)
OneRetryAtRest ==
  /\ [][Retry => KnowsLists']_vars
  /\ [](hotplugs = MaxHotplug /\ KnowsLists => []KnowsLists)

-----------------------------------------------------------------------------
(* The inductive invariant.                                                *)

(* A function has nothing to do with the lists and arrays of the others.   *)
OnlyMine ==
  /\ \A l \in List \ MyLists : kernel[l] = 0 /\ req[l] = 0
  /\ \A b \in Block \ MyBlocks : ptr[b] = "null"

(* Without a hotplug the lengths are those of the kernel, and what has     *)
(* been allocated is what the kernel is asked to fill.                     *)
Lengths ==
  /\ q_pc = "alloc" /\ hotplugs = 0 => \A l \in MyLists : req[l] = kernel[l]
  /\ q_pc = "second" => \A l \in MyLists : /\ counts[l] <= req[l]
                                           /\ hotplugs = 0 => counts[l] = kernel[l]
  /\ q_pc \in {"copy", "done"} => MyLists \subseteq filled

(* Freed pointers are only around after a retry.                           *)
DanglingAfterRetry ==
  q_pc \in {"alloc", "second", "copy"} /\ (\E b \in MyBlocks : ptr[b] = "dangling")
    => KeepsPointers(fn) /\ hotplugs > 0

(* The invariant of the proofs: what a call knows about its arrays and the *)
(* kernel's lists at each position (xf86drmMode.c:164-256, 497-601).       *)
IInv == /\ TypeOK /\ OnlyMine /\ Lengths /\ DanglingAfterRetry
        /\ KernelWritesOwnArrays /\ NoLeak /\ FreedOnce
=============================================================================
