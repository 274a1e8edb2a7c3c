# Verification of dsui

dsui draws and shows frames on embedded Linux devices without a window system. Its working parts are a
multi-thread, multi-buffer display model (`src/src/display/m_buffer.cpp`), a hot-plug aware input reader
(`src/src/inputs/input_reader.c`), and, under `src/src/examples/input_show`, a demo that joins the two with libdrm and
the experiments the display model grew out of. This directory holds TLA+ models of these parts and of the libdrm
functions the demo starts with, the TLC runs that check them on small instances, and TLAPS proofs about each of them for
every instance. Paths below are relative to the repository's root; `m_buffer.cpp:103` means line 103 of that file.

    tlc -workers 2 -config MCMBufferOrder_safety.cfg MCMBufferOrder   # any run: <module> with <module>_<run>.cfg
    tlapm MBufferProofs.tla                                           # any *Proofs module

## 1. Inventory

| Component | State | Operations | Interacts through | Status |
|---|---|---|---|---|
| `M_buffer` (`display/m_buffer.{h,cpp}`) | `p_queue`, `c_queue`, a mutex for each, a semaphore per thread, locals `p_task` and `c_task` | constructor, `start_m_buffer_thread`, produce threads, consume thread, timetick thread, destructor | callbacks `produce_task`, `consume_task` on caller's buffers | modelled but for the destructor and a NULL task array |
| `input_reader` (`inputs/input_reader.{h,c}`) | `g_his` slots, descriptor table, epoll set, inotify queue | `init_input`, change listener (`add_his`, `remove_his`), input listener | callbacks `event_callback`, `input_callback`; the kernel | modelled |
| `m_buffer_input_show_test.cpp` | position of `main`, buffers of the frames, frame on the screen, `g_mp`, `g_color`, `trend_flag` | `main`, `create_fb`, `test_input_callback`, `draw_fb`, `consume_frame_buffer` | M_buffer, input_reader, libdrm | modelled but for the pixels |
| libdrm, `xf86drmMode.c` | lengths, arrays and pointers of a call | `drmModeGetResources`, `drmModeGetConnector[Current]`, `drmModeGetPlane`, `drmModeGetPlaneResources`, `drmModeObjectGetProperties` | ioctls | these modelled; the rest wraps one ioctl each |
| `product_consume_model.c` | ring with `in`, `out`, `count`; two semaphores, a mutex | producer, consumer | stand-alone | modelled |
| `triple_buffer_model.c` | `count`, `prod_count`, `cons_count`, a mutex, two condition variables | producer, consumer | stand-alone | modelled |
| `display/flash_fb.c` | boxes with `is_displayed` and a serial, two global serials, a semaphore per thread | fill threads, flash thread, time tick | stand-alone | modelled |
| `input_show/flash_buffer.c` | ring of buffers with a mutex each, front and back pointer | fill threads, flash thread, time tick | stand-alone | modelled |
| `input_show.c`, `input_show_.c` | earlier demos | | libdrm | not modelled; their mouse arithmetic is a reference in `Demo` |
| `input_reader copy.c` | a copy of `input_reader.c` with other logging | | | not modelled: same state machine |
| `ds_log.h`, `ds_error_code.h` | none | macros | | not modelled |
| rest of `third/` | vendored libdrm, 87 000 of the repository's lines | | | not modelled |

What is hard in this code, by part (the full list, line by line, is `hazards` in `PROJECT.json`):

- **M_buffer.** Up to ten produce threads, a consume thread and a tick share two queues. A frame's buffer carries
  no lock: what protects it is that its pointer is in one place at a time, along a path that leads through the
  local variables of threads that hold no lock. Produce threads only *try* the mutex of `p_queue` and give up the
  tick when it is taken. Ticks a slow thread misses pile up in its semaphore. They finish in any order. Any thread
  may fail to start.
- **input_reader.** Devices come and go between any two system calls; events are handled late; descriptors are
  closed by one thread while the other still holds their numbers; any call may fail halfway; two functions end
  without a return statement on some paths and their results are used.
- **The demo.** `main` uses the result of each query before it tests it and looks at no result of `create_fb`, so that a
  failed call shows up later and in another thread; the mouse position is unsigned and its movements signed; the colour
  is stepped by all produce threads without a lock; the frame on the screen goes back to the free frames at once.
- **libdrm's queries.** The kernel is asked twice, for lengths and for entries, and monitors come and go in between; a
  retry starts with what the attempt before has left in lengths and pointers.
- **The earlier display models.** `flash_fb.c` has no lock at all: a flag hands a box over, without keeping it from
  being filled while it is on show, and all fill threads increment one counter. `flash_buffer.c` has locks, but its
  threads use pointers that move on meanwhile.
- **The two bounded buffers.** Who waits for whom, and whether the counters that decide it agree.

What makes each part correct: no frame in two places, none lost, order as far as it is promised, every frame shown
(M_buffer); slots, descriptors, epoll set and what the application was told agree with `/dev/input`, every input is read
(input_reader); but for undefined behaviour only a failed call crashes it, the screen shows a frame nobody draws as long
as there is another, colour and mouse stay in range (demo); lists of one moment, arrays neither leaked nor overrun
(libdrm); each frame taken once and before its box is filled again, and no serial lost (flash_fb); no buffer drawn while
it is shown (flash_buffer); a FIFO queue whose items are all consumed (product_consume); no slot read before it is
written, everything written is read, producers go on (triple_buffer).

## 2. Modules

| Module | Models | Correspondence |
|---|---|---|
| `FramePipeline` | abstract promise of M_buffer | four places a frame can be in (free, drawing, ready, showing) and the four moves between them; no threads or locks |
| `MBuffer` | `m_buffer.cpp` | variables named as in the code; one action per semaphore, mutex, queue or callback step; `p_pc`, `c_pc`, `t_pc`, `m_pc` are the positions of the produce, consume, timetick and starting thread |
| `MBufferOrder` | the same, with a history of the frames in flight | for the order on the screen |
| `InputReader` | `input_reader.c` and the kernel it talks to | `l_*` is the change listener, `i_*` the input listener; `add_his` and `remove_his` are split at their system calls |
| `DrmQuery` | abstract promise of a libdrm query | it fails, or answers with the lists of one moment |
| `DrmMode` | six query functions of `xf86drmMode.c` | one action per ioctl and per round of allocations; `ptr` says what each array pointer is |
| `Demo` | `m_buffer_input_show_test.cpp`, composed of `DrmQuery` and `FramePipeline` | `main_pc` is the position of `main`, `draw` that of each `draw_fb`, `event` the call of `test_input_callback`; the actions of the two instances are conjoined with what the demo does in them |
| `FlashFb` | `flash_fb.c` | `f_*` a fill thread, `s_*` the flash thread, `t_*` the tick |
| `FlashBuffer` | `flash_buffer.c` | the same |
| `BoundedQueue` | abstract FIFO queue of N items | |
| `ProductConsume` | `product_consume_model.c` | one action per call, and two for each critical section |
| `TripleBuffer` | `triple_buffer_model.c` | a critical section is one step, because all of it runs under the one mutex |
| `*Proofs` | theorems about the module they are named after | section 5 |
| `MC*` | instances for TLC | with the `.cfg` of each run |

How they fit: `MBuffer` implements `FramePipeline` and `DrmMode` implements `DrmQuery`; `Demo` is built from the two
abstract modules and so speaks of the program as a whole without the steps of either. The input reader reaches the demo
through one callback, which `Demo` lets come with any movement at any time after `init_input`; the slots of
`InputReader` are not part of the composition, since the demo ignores which device an event is from.

An operator whose comment begins with "Mutant" is a plausible bug in the operation defined after it. It belongs to no
specification; replacing the operation by it makes a named property fail (`mutants` in `PROJECT.json`), which shows
that the property depends on the code.

### Choices in MBuffer

- A frame is a number, its place in the caller's array. `buffer_task_size` is chosen in `Init`, 0 included. What a
  callback draws is left out; that it takes any time at all is kept (`ProduceTask` may be arbitrarily late).
- `front()` and `pop()` are two steps although the mutex is held: a lost lock then shows as a frame taken twice.
- `p_task` is declared inside the loop, so `ProduceWait` resets it; `ConsumeWait` resets `c_task`. A thread keeps its
  value after pushing the frame, as the code does, until the next round.
- A semaphore stays at its largest value when it is posted there: `sem_post` fails and the code ignores it.
- Each `pthread_create` may fail; the code gives up without a consume thread, passes over produce threads, and leaves
  the others behind when the timetick thread is missing.
- `start_m_buffer_thread` tests the queue before any thread runs; calling it twice is not modelled.

### Choices in InputReader

- The kernel is external: nodes of the directory, the inotify queue with its limit, the descriptor table (lowest free
  number first), and readiness as epoll reports it. `Plug`, `Unplug` and `InputEvent` may happen at any time.
- A device that is gone keeps its descriptors open with an error condition, which epoll reports until they are closed.
- A descriptor's `input` says that at least one event waits on it. A descriptor with several is one for which another
  `InputEvent` follows the read.
- Names that do not start with `event`, directories and `stat` failures only filter the scan and are left out; so is
  the sleep before a retry, and what the callbacks do. The application passes both callbacks.
- The result of a function that ends without a return statement is a free choice between success and failure.
- A failing `epoll_create1`, which `init_epoll_fd` reports and `init_input` ignores, is the case in which every
  `epoll_ctl` fails.
- Histories (`missed`, `faulted`, `undefined`, `reused`) are read by properties only.

### Choices in DrmMode and Demo

- A list is its length: entries are only told apart by whether the kernel has filled them in. The kernel writes nothing
  to an array that is shorter than its list and reports the new length, which is what `drm_mode_getresources` and its
  siblings do and what the retry loops are written for.
- `drmMalloc` of no bytes and of too little memory both give NULL; each allocation may fail. A failed ioctl leaves the
  request alone.
- The single mode of `stack_mode` (`xf86drmMode.c:504-507`), which spares a probe of the connector, is kept: its address
  is in the request of the second ioctl unless an array has taken its place.
- `Hotplug` is bounded by `MaxHotplug`; lengths by `MaxCount`.
- In `Demo`, a query that fails makes `main` dereference NULL: `printf` of line 331 and 338 comes before any test. What
  `connectors[1]` and `crtcs[1]` are when there are fewer is undefined; the model remembers it in `failed`.
- `create_fb` may leave a frame without a mapping or without a framebuffer identifier; drawing on the first ends the
  process, showing the second is refused or shows another frame.
- `g_color` is loaded, stored and tested in steps of their own; `Take` may begin a second draw at any time, as M_buffer
  with ten produce threads does. One axis is checked; both have the same code, and the proofs cover any number.
- `main` never returns from its last loop.
- From `init_input` on the program runs into code whose behaviour C++ leaves undefined, and `Undefined` may end any run
  there: `test_input_callback`, `test_event_callback` and `consume_frame_buffer` end without a return statement
  (117, 121, 323), and the demo, compiled for one produce thread (29), reserves less room for `m_buffer` (379) than the
  constructor, compiled for ten (`m_buffer.h:10`, `:30`), writes, so that it writes into the stack frame of `main`.
  The other actions are what the program does when this happens to do no harm, as with the compiler and the options
  of the Makefile, which does not optimise; no property promises that it does none.

### Choices in FlashFb and FlashBuffer

- `flash_fb.h` also declares a C++ class (from line 46 on) whose types it does not include, so that `flash_fb.c` does not
  compile as it stands and no Makefile builds it; the model follows its C functions.
- `g_ready_fb_serial++` is a read and a write, and the serial of the box is then either the counter read again or the
  value still in a register: both are what compilers make of lines 82-83. Other accesses are taken in program order; a
  processor that reorders the stores of lines 83 and 72 is not modelled.
- The test of a flag is one step with what follows it where nobody else could change the flag in between
  (`FlashDisplayed`), or where acting later is the same as the woken thread running later (`FillWait`, `TickFill`).
- A fill thread that cannot be created is passed over by the code; without the flash thread or the tick the program
  ends. `Init` therefore chooses which fill threads exist.
- The semaphores and mutexes of both programs are static and never initialised, which on Linux is the same as
  initialised to 0 and unlocked.
- `raced` and `stale` in `FlashFb` are histories: no action reads them in a guard.

## 3. Runs

| Run | Checks | Shows |
|---|---|---|
| `mbuffer_safety` | `IInv`, `OwnersRun`, `FrameExclusive`, `NoFrameLost`, `OrderInv`, `DisorderBounded`, `PipelineSpec` | no thread waits or runs a callback while it holds a mutex, frames never collide or get lost, a frame overtakes at most one frame per other produce thread, and the threads implement `FramePipeline` |
| `mbuffer_live` | `EveryFrameShown` | no frame and no thread starves |
| `demo` | `IInv`, `CrashExplained`, `OnScreenLast`, `ColourInRange`, `MouseStep` | but for undefined behaviour, which needs a connector with a mode, only failed calls crash the demo; the frame on the screen is only drawn over when none is free; the colour keeps its range unless draws meet; unsigned arithmetic moves the mouse right but over two edges |
| `drm_queries` | `IInv`, `KernelWritesOwnArrays`, `NoLeak`, `FreedOnce`, `SnapshotSpec`, `CallReturns` | the queries implement `DrmQuery`, leak nothing, and free twice only where the code does (section 4) |
| `input_safety` | `IInv`, `SlotsOwnFiles`, `Settled`, `LiveOnce`, `AppInformed`, `BlocksOnlyOnReuse` | slots, descriptors, epoll set, directory and application agree, whatever fails |
| `input_missed` | `NoDeviceMissed`, violated | devices that appear between scan and watch stay unknown (finding 1) |
| `input_live` | `InputRead` | inputs are read, or the thread is stuck on a reused descriptor |
| `product_consume_queue` | `IInv`, `SlotsAccounted`, `RingIsQueue`, `EveryItemConsumed` | the ring implements `BoundedQueue` and nothing starves |
| `triple_buffer_drain` | `IInv`, `ReadOnceAfterWrite`, `AllConsumed` | the first ten items are each read once |
| `triple_buffer_full` | `ProducesAfterFull`, violated | the producers then stop for good (finding 2) |
| `flash_fb_serials` | `IInv`, `FrameTakenOnce`, `NoSerialLost`, `DisplayGoesOn` | no frame is filled over before it is taken and none is taken twice, unless one of two races has happened; the display stops only after a serial was lost to one of two races |
| `flash_buffer_locks` | `IInv`, `NotDrawnOnShow`, `EveryBufferDrawn` | draw and show exclude each other, and no fill thread starves |

`IInv` is in each module the inductive invariant of its proofs, and `OrderInv` what `MBufferOrder` adds to it: the runs
check both, and the proofs show them for all values of the constants. The first conjunct of `IInv` is the type invariant.

Bounds, and why they are enough:

- *MBuffer.* Two produce threads are the fewest that compete for `p_queue` and for `c_queue`; a third plays the same
  part. Four frames, one without a draw and one without a show callback, leave two complete ones, which is as many as
  two threads can exchange. A semaphore limit of 2 lets one token wait while another is used and
  reaches the limit (1 in the liveness run). All sizes are arbitrary in the proofs.
- *InputReader.* Two devices and two slots, so that a third open (a duplicate) overflows; three descriptors, so that
  inotify and two devices use them up, and leaks and reuse happen; four changes give plug, unplug, plug, unplug of one
  device or two of each; two scans give one repetition after a failed set-up. The queue of three events, with reads of
  two, lets events wait, be split over reads, and be dropped. The liveness run leaves failures out and has three
  changes. The devices are symmetric in the safety run; no symmetry is used with liveness.
- *DrmMode.* Lists of up to two entries grow, shrink and become empty, and have one entry, for which the connector
  functions use `stack_mode`; two hotplugs make two retries of a call, after which the third attempt starts like
  the second.
- *Demo.* Two frames, one fewer than `BUFFER_TASK_SIZE` (line 30), let two draws meet, and one be drawn while the other
  is on the screen; three take too many states, and the proofs are for any number. Lists of up to two, because
  index 1 is what `main` reads; words of 8 values and a screen of 0 to 3 with movements of both signs that pass either
  edge and the width of the word; a colour that turns at 1 and 4 of 8, so that it can pass either end and wrap.
- *ProductConsume.* Two slots and three producers, so that more threads than slots compete and `in` and `out` wrap
  round three times; two items for each producer, after which it stops, a limit the code does not have and the reason
  why deadlock is not checked.
- *TripleBuffer.* The real three producers, one consumer and ten slots. The code cannot produce more than ten items.
- *FlashFb.* The real three boxes; three serials let every box be filled once, or one be shown and filled again while
  others wait, and are enough for both races. `MaxSerial` stops the fill threads.
- *FlashBuffer.* Two buffers, because the fill threads only meet the flash thread and the tick, never each other; two
  tokens for each semaphore.

Deadlock is checked in the runs of `TripleBuffer`, `FlashFb` and `FlashBuffer` (where a spurious wake-up or a tick is
always possible, so that it says little) and off elsewhere: `M_buffer` stops when a thread could not be created, the
input reader when no device is left and no more changes are allowed, a query when it has returned, the demo when
`main` has crashed, left or become undefined.

### Fairness

Safety runs assume none. The liveness runs assume that

- a thread that can run does in the end (`WF` of each thread), including the callbacks: they return;
- a thread that waits for a mutex or a semaphore gets it if it is free again and again (`SF` of the lock, and of
  `WaitEmpty`; `FlashFb` needs none). This is an assumption: the default mutexes of Linux do not hand over to the waiter
  they wake, so that another thread may take the mutex first. It is a mild one, because sections are a few instructions
  long and their owners go back to a semaphore that is posted once a tick, which leaves the mutex free most of the time.
  No such assumption is made of `trylock`: a thread may find the mutex taken for ever. That frames are shown
  nevertheless is the point of `EveryFrameShown`, and holds because whoever holds the mutex at that time takes the
  frame;
- in `DrmMode`, `WF` of the calling thread; `MaxHotplug` says that monitors come to rest, without which the retry loop
  need not end;
- in `InputReader`, `WF` of each of the two threads as a whole and none of the environment. `EveryFrameShown` only
  speaks of runs in which the consume thread, the timetick and at least one produce thread could be created.

## 4. Findings

1. `input_reader.c:98` and `:138` promise that the nodes of `/dev/input` are found and their changes followed. The
   watch is added after the scan (line 149), so that a device appearing between the two is missed until it is plugged
   in again. The removal counterpart leaves a dead slot, and, after the device comes back and goes again, makes
   `remove_his` close the wrong slot; `Settled` and `LiveOnce` therefore except devices that changed in the gap.
   What a missed device can still hope for is `MissedForGood` in section 5.
2. `triple_buffer_model.c:24` says that producers go on when an item has been consumed. `count` is never
   decremented: after ten items they wait for ever (`FullForEver` in section 5: for every size of the buffer).

The models show more that no comment, test or assertion of the code denies, and that is therefore stated as the
exception of a property:

- The input thread can block in `read` (line 210) for as long as a device is silent when a descriptor of its batch was
  closed and reused; `BlocksOnlyOnReuse` says that this is the only way. The results of `add_his` and `remove_his` are
  undefined on the paths of lines 76 and 94, so that the application may be told of devices that do not exist;
  `AppInformed` holds on all other paths.
- In `flash_fb.c` a serial can be lost in two ways, after which the flash thread waits for it for ever: two increments
  meet (lines 82-83), or a box that was never filled is filled between the tests of lines 59 and 60; `NoSerialLost` and
  `DisplayGoesOn` say that there is no third. In `flash_buffer.c` the tick wakes the fill thread and the flash thread of
  one buffer together, and the flash thread may be first and show what was drawn a round before.
- `m_buffer.cpp:113` leaves it to do to sort the frames before the push: `DisorderBounded` says how far out of order
  they can get without it. Line 136 hands the frame on the screen back while it is scanned out: `OnScreenLast` says that
  it is taken last.
- `_drmModeGetConnector` frees its arrays and starts again with their addresses (`xf86drmMode.c:514`, `:557`): a `malloc`
  that fails next, or a list that has become empty, frees them once more. `FreedOnce` says that nothing else does.
- The demo dereferences the answer of `drmModeGetConnector` before it tests it (line 338), leaks the connector of each
  iteration but the last (337), uses index 1 of lists that may be shorter (335-336) and looks at no result in `create_fb`
  (187-195). It also runs into undefined behaviour whenever it gets as far as starting the input and M_buffer (29 and
  379, 117, 121, 323), which need not show. `CrashExplained` says that, that code apart, nothing else brings it down. Its
  mouse jumps to the opposite edge when it
  passes the left or the upper one (100-102), which `MouseStep` excepts; two draws that meet take the colour out of its
  range (226-237), which `ColourInRange` excepts.

## 5. Proofs

All are for every value of the constants. The assumptions only say what kind of value each constant is (numbers,
distinct names), and, in `Demo`, that the screen is less than half as wide as the word is large.

| Module | Theorems |
|---|---|
| `MBufferProofs` | `Invariant`, `MutualExclusion`, `NoDeadlock`, `Exclusion`, `NothingLost`; `Implementation`: M_buffer implements `FramePipeline`; `OrderInvariant`, `BoundedDisorder`: about `MBufferOrder` |
| `InputReaderProofs` | `Invariant`, `OwnFiles`, `Informed`, `SettledDown`, `Once`, `BlocksOnReuse`: every safety property of the input reader; `Missed`, `MissedForGood`: what becomes of a device it misses |
| `DrmModeProofs` | `Invariant`, `OwnArrays`, `NothingLeaked`, `DoubleFree`; `OneRetry`: an action and a temporal property; `Snapshot`: the queries implement `DrmQuery` |
| `DemoProofs` | `Invariant`, `OrderlyEnd`, `ScreenKept`, `ColourKept`; `MouseMoves`: an action property about modular arithmetic; `Circulates`: the demo implements `FramePipeline` |
| `ProductConsumeProofs` | `Invariant`, `Accounted`, `DeadlockFree`; `Implementation`: the ring implements `BoundedQueue` |
| `TripleBufferProofs` | `Invariant`, `NothingOverwritten`, `SignalsSuffice`; `FullForEver`: why producers stop |
| `FlashFbProofs` | `Invariant`, `TakenOnce`, `SerialsKept` |
| `FlashBufferProofs` | `Invariant`, `Exclusion`, `ScreenBlocks`, `Together` |

The inductive invariants, and why they are needed:

- *MBuffer.* `FrameExclusive` is not inductive: a produce thread about to push would break it if its `p_task` were a
  frame of an earlier round, or if two threads were between `front()` and `pop()`. `IInv` adds `LockOwnership` (a thread
  is in a section if and only if it holds the mutex), `HeldFrame` (what a local variable means at each position) and
  `NotStarted` (a thread is created once). The argument has two layers. `LocalStep` proves, action by action, that
  the local part of `IInv` is kept. `FrameMoves` proves, under the local part, that every step moves at most one frame,
  and in one of five ways (`Move`): out of `p_queue` or `c_queue` to a thread or out of the cycle, from a thread to the
  other queue, or not at all. `ExclusionStep`, `NoFrameLostStep` and `PipelineStep` then only reason about the five moves
  and not about the thirty actions.
- *MBufferOrder.* `OrderInv` counts what a frame has passed when it is pushed: the frames taken before it and not shown
  are ahead of it in `c_queue` or drawn by the other threads, one each (`DrawnInOrder`, `FewDrawnByOthers`). While it
  waits that set only shrinks (`QueuedInOrder`). The proof uses the five moves again.
- *InputReader.* `Settled` only speaks of the moment when the listener has caught up. What holds at all others is
  `InStep`: the events of a device that still wait, wherever they are (`Pending`: in hand, read, or in the kernel's
  queue), alternate between create and delete, the last of them says whether the device is there now, the first only
  creates when no slot has the device, and when none is left the slot is right. A change of the directory appends one
  event of the opposite kind to the last (`AppendOwn`); reading and taking events only moves them (`PendingMoves`);
  handling one removes the first (`TailKeeps`, `HeadOwn`); an open that fails because the device is gone again is made
  good by the delete event that must follow. `Owns` is `SlotsOwnFiles` with its sets written as quantifiers.
- *DrmMode.* `Lengths` says at each position how the request, the copy made before the allocations and the kernel's
  lists compare; `DanglingAfterRetry` that freed pointers are only around after a retry.
- *Demo.* One conjunct for each thread: `SetupInv`, `MouseInv`, `ColourInv`, and `PlacesInv` with `ScreenInv` for the
  frames. `ColourInv` follows the one draw that steps the colour; `MouseMoves` needs `MouseInv` and two facts about
  sums modulo an even number.
- *ProductConsume.* The ring's slots between `out` and `in`, less the one being read and with the one just written, are
  a sequence (`Waiting`); each step leaves it, appends to it or takes its head, which is what the abstract queue does.
- *FlashFb.* A thread that fills a box has found its flag set, and nobody but it clears it (`FillsFlagged`).
  `FrameTakenOnce` follows from this and from `FlagMeansShown`: the flag is set exactly when the display has got as far
  as the box's serial. That in turn needs that the display is never ahead of the serials handed out (`DisplayBehind`) and
  that a serial is with one box. `FrameTakenOnce` does not say that a box is not filled while it is on show: line 50
  sets the flag before line 51 shows the box, and a state with `s_pc = "show"`, `s_i = b` and `f_pc[b] = "read"` is
  reachable. `NoSerialLost` needs `CounterFollowed`: unless two increments met, at most one thread has read the counter
  and not used it yet, what it has read is still the counter's value, and no box carries a serial that was not handed
  out.
- *TripleBuffer.* The mutex is held by exactly the thread inside the section. `NoWakeupLost` says that a thread that
  waits for a signal still has its reason to.
- *FlashBuffer.* Each mutex is held by exactly the thread inside the section, and the two pointers move together.

Other results that follow from these invariants (only `NoDeadlock` states a property that a run checks, `OwnersRun`):

- *Nobody waits in a circle.* `NoDeadlock` (a thread of M_buffer that holds a mutex holds no other and waits for
  nothing, although the threads pass the two queues in opposite directions), `ScreenBlocks` (a fill thread of
  `flash_buffer.c` only waits while its buffer is shown) and `DeadlockFree` (the threads of the ring are never all in a
  call that waits; the proof counts slots when all producers wait for one). They are the safety half of the liveness
  runs: a mutex always has an owner that runs on, as the fairness of section 3 takes for granted.
- *The two findings that the runs show on one instance each* hold in general. `FullForEver`: with any number of producers
  and any size, a buffer that is full once stays full with `prod_count` equal to its size. `Missed` and `MissedForGood`:
  when the listener has caught up, a device without a slot has no event under way and no open descriptor, and that
  stays so until it is unplugged.
- *OneRetry* is the safety half of `CallReturns`: a retry always starts from the lengths of that moment, also where the
  connector functions skip the first ioctl, so that a call starts again at most once after the last change.
- *Circulates.* `Demo` is written with M_buffer's threads reduced to the callbacks and what happens to a frame between
  them. That this is no other system than `MBuffer`'s is shown by a second refinement of `FramePipeline`: until `main`
  has started M_buffer all frames count as free, and the end of the process, in whatever way, is a stutter.

Model-checked only: liveness (`EveryFrameShown`, `CallReturns`, `InputRead`, `EveryItemConsumed`, `AllConsumed`,
`DisplayGoesOn`, `EveryBufferDrawn`), which the prover does not reach. Every safety property and every refinement of
a passing run is proved. Under fairness the provers cannot use `ENABLED`, and the counts of fair steps these properties
need are inductions over data. What the provers can say of them is the safety half above.

## 6. Not modelled

- The destructor of `M_buffer` and its constructor with a NULL array: no caller in the repository runs the one or passes
  the other, and both end in undefined behaviour at once (freed mutexes of running threads, unset pointers).
- What the demo does once its behaviour is undefined (`Undefined`): the model stops there.
- Pixels and geometry of frames; time (a tick is a step that may come at any moment, which covers 15 ms).
- Memory models weaker than sequential consistency: all shared state of `m_buffer.cpp` and the two bounded buffers is
  accessed under a mutex or a semaphore, the two threads of the input reader share only kernel objects, and `flash_fb.c`,
  the pointers of `flash_buffer.c` and the colour of the demo are modelled step by step under sequential consistency
  with the exceptions named above.
- libdrm apart from the mode queries. It makes up nearly all lines of the repository (87 000 of 88 000) and is vendored
  unchanged: drivers for GPUs the demos do not name, tables of formats, register decoders, one-ioctl wrappers, tests.
  Models of it would say nothing about dsui.
- `input_show.c` and `input_show_.c`, earlier versions of the demo; `input_reader copy.c`, a copy.

## 7. Plan

Done, in the order of importance: the display model, its abstract specification and proofs; the order of its frames;
hot-plug and input with all safety properties proved; the demo composed of display, libdrm and mouse; libdrm's mode
queries; the ring that implements a queue; the earlier display models; proofs of every safety property.

Left, should the code or the tools change: proofs of liveness; the destructor of `M_buffer`, once a caller uses it; a
composition of the demo with the slots of the input reader, once the demo tells devices apart.
