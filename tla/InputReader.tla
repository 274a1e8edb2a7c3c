----------------------------- MODULE InputReader -----------------------------
(***************************************************************************)
(* The input reader of inputs/input_reader.c.  The change listener scans   *)
(* /dev/input for devices, then follows the directory with inotify, and    *)
(* keeps one slot of g_his, one descriptor and one epoll registration per  *)
(* device.  The input listener waits on epoll and reads one event from     *)
(* each ready descriptor.  The two threads share the descriptor table and  *)
(* the epoll set and use no lock.                                          *)
(*                                                                         *)
(* Devices come and go between any two system calls.                       *)
(***************************************************************************)
EXTENDS Integers, Sequences, FiniteSets

CONSTANTS
  Device,     \* names of input devices: event0, event1, ...
  MaxEvents,  \* MAX_EVENTS, the number of slots of g_his
  MaxFd,      \* descriptors the process may still open
  ReadSize,   \* inotify events that fit into one read
  QueueSize,  \* inotify events the kernel queues before it drops some
  MaxPlugs,   \* bound on the number of times a device comes or goes
  MaxScans,   \* bound on the number of scans of the directory
  Faults,     \* what may fail: subset of {"open", "epoll", "inotify", "overflow"}
  NULL

Slot == 1..MaxEvents
Fd == 1..MaxFd

ASSUME SizeAssumption == /\ {MaxEvents, MaxFd, ReadSize} \subseteq Nat \ {0}
                         /\ {QueueSize, MaxPlugs, MaxScans} \subseteq Nat \ {0}
                         /\ NULL \notin Device

VARIABLES
  nodes, plugs,      \* nodes of /dev/input; changes of it so far
  watching, queue,   \* is the directory watched; inotify events to be read
  files, epoll,      \* descriptor table; descriptors registered with epoll
  g_his,             \* the slots
  l_pc,              \* position of the change listener
  scans,             \* scans of the directory so far
  l_entries, l_seen, \* names readdir must still return, names it has returned
  l_dev, l_slot,     \* the device and the slot it works on
  l_back,            \* where add_his was called: in the scan or for an event
  l_events,          \* inotify events read and not handled yet
  i_pc, i_batch,     \* position of the input listener; ready descriptors to read
  i_fd, i_dev,       \* the descriptor and the device a read blocks on
  told,              \* "added" less "removed" callbacks, of each device
  missed,            \* history: devices that changed between opendir and the watch
  faulted,           \* history: a system call failed or inotify lost an event
  undefined,         \* history: add_his or remove_his returned no value
  reused             \* history: descriptors closed since epoll_wait returned

kernel == <<nodes, plugs, watching, queue>>
table == <<files, epoll>>
scan == <<scans, l_entries, l_seen>>
work == <<l_dev, l_slot, l_back>>
listener == <<l_pc, scan, work, l_events>>
reader == <<i_pc, i_batch, i_fd, i_dev>>
app == told
marks == <<missed, undefined, reused>>
history == <<faulted, marks>>
vars == <<kernel, table, g_his, listener, reader, app, history>>

(* What a descriptor is open on.  "gone": its device was unplugged; input:  *)
(* at least one event is waiting.                                          *)
Closed == [kind |-> "closed", device |-> NULL, input |-> FALSE]
Inotify == [kind |-> "inotify", device |-> NULL, input |-> FALSE]
Opened(d) == [kind |-> "device", device |-> d, input |-> FALSE]
File == [kind : {"closed", "inotify", "device", "gone"}, device : Device \cup {NULL},
         input : BOOLEAN]

Event == [mask : {"create", "delete"}, name : Device]
FreeSlot == [is_avaiable |-> FALSE, device_name |-> NULL, fd |-> NULL]

ListenerPc == {"opendir", "scan", "add", "epoll_add", "add_callback", "inotify_init",
               "add_watch", "read", "events", "remove", "close", "remove_callback"}

TypeOK ==
  /\ nodes \subseteq Device /\ plugs \in 0..MaxPlugs
  /\ watching \in BOOLEAN /\ queue \in Seq(Event) /\ Len(queue) <= QueueSize
  /\ files \in [Fd -> File] /\ epoll \subseteq Fd
  /\ g_his \in [Slot -> [is_avaiable : BOOLEAN, device_name : Device \cup {NULL},
                         fd : Fd \cup {NULL}]]
  /\ scans \in 0..MaxScans
  /\ l_pc \in ListenerPc /\ l_entries \subseteq Device /\ l_seen \subseteq Device
  /\ l_dev \in Device \cup {NULL} /\ l_slot \in Slot \cup {NULL}
  /\ l_back \in {"scan", "events"} /\ l_events \in Seq(Event)
  /\ i_pc \in {"wait", "next", "blocked"} /\ i_batch \subseteq Fd
  /\ i_fd \in Fd \cup {NULL} /\ i_dev \in Device \cup {NULL}
  /\ told \in [Device -> Int]
  /\ missed \subseteq Device /\ faulted \in BOOLEAN /\ undefined \in BOOLEAN
  /\ reused \subseteq Fd

(* init_input has created both threads.                                    *)
Init ==
  /\ nodes \in SUBSET Device /\ plugs = 0 /\ watching = FALSE /\ queue = <<>>
  /\ files = [fd \in Fd |-> Closed] /\ epoll = {}
  /\ g_his = [s \in Slot |-> FreeSlot]
  /\ l_pc = "opendir" /\ scans = 0 /\ l_entries = {} /\ l_seen = {}
  /\ l_dev = NULL /\ l_slot = NULL /\ l_back = "scan" /\ l_events = <<>>
  /\ i_pc = "wait" /\ i_batch = {} /\ i_fd = NULL /\ i_dev = NULL
  /\ told = [d \in Device |-> 0]
  /\ missed = {} /\ faulted = FALSE /\ undefined = FALSE /\ reused = {}

MayFail(what) == what \in Faults

-----------------------------------------------------------------------------
(* The kernel.  A change of the directory is queued if it is watched, and  *)
(* dropped when the queue is full.                                         *)

Notify(mask, d) ==
  LET full == Len(queue) = QueueSize
  IN /\ watching /\ full => MayFail("overflow")
     /\ queue' = IF ~watching \/ full THEN queue
                 ELSE Append(queue, [mask |-> mask, name |-> d])
     /\ faulted' = (faulted \/ (watching /\ full))
     /\ missed' = IF ~watching /\ l_pc # "opendir" THEN missed \cup {d} ELSE missed

Plug(d) ==
  /\ d \notin nodes /\ plugs < MaxPlugs
  /\ nodes' = nodes \cup {d} /\ plugs' = plugs + 1
  /\ Notify("create", d)
  /\ UNCHANGED <<watching, table, g_his, listener, reader, app, undefined, reused>>

(* Descriptors of a device that is gone stay open; a read that blocks on   *)
(* one returns ENODEV.                                                     *)
Unplug(d) ==
  /\ d \in nodes /\ plugs < MaxPlugs
  /\ nodes' = nodes \ {d} /\ plugs' = plugs + 1
  /\ Notify("delete", d)
  /\ files' = [fd \in Fd |-> IF files[fd].kind = "device" /\ files[fd].device = d
                             THEN [files[fd] EXCEPT !.kind = "gone", !.input = FALSE]
                             ELSE files[fd]]
  /\ l_entries' = l_entries \ {d}
  /\ IF i_dev = d THEN i_pc' = "next" /\ i_fd' = NULL /\ i_dev' = NULL
                  ELSE UNCHANGED <<i_pc, i_fd, i_dev>>
  /\ UNCHANGED <<watching, epoll, g_his, l_pc, scans, l_seen, work, l_events, i_batch, app,
                 undefined, reused>>

(* Every open description of the device gets the event; a read that blocks *)
(* on one returns it at once.                                              *)
InputEvent(d) ==
  LET readers == {fd \in Fd : files[fd].kind = "device" /\ files[fd].device = d}
  IN /\ d \in nodes /\ (readers # {} \/ i_dev = d)
     /\ files' = [fd \in Fd |-> IF fd \in readers \ {i_fd}
                                THEN [files[fd] EXCEPT !.input = TRUE] ELSE files[fd]]
     /\ IF i_dev = d THEN i_pc' = "next" /\ i_fd' = NULL /\ i_dev' = NULL
                     ELSE UNCHANGED <<i_pc, i_fd, i_dev>>
     /\ UNCHANGED <<kernel, epoll, g_his, listener, i_batch, app, history>>

FreeFds == {fd \in Fd : files[fd].kind = "closed"}
LowestFd == CHOOSE fd \in FreeFds : \A other \in FreeFds : fd <= other

-----------------------------------------------------------------------------
(* event_change_listener.  When opendir fails the thread sleeps and tries  *)
(* again: nothing changes.                                                 *)

OpenDir ==
  /\ l_pc = "opendir" /\ l_pc' = "scan"
  /\ scans < MaxScans /\ scans' = scans + 1
  /\ l_entries' = nodes /\ l_seen' = {}
  /\ UNCHANGED <<kernel, table, g_his, work, l_events, reader, app, history>>

(* readdir returns every node that stays, once, in any order, and perhaps  *)
(* some that appear meanwhile; stat succeeds.                              *)
ReadEntry(d) ==
  /\ l_pc = "scan" /\ l_pc' = "add"
  /\ d \in nodes \ l_seen
  /\ l_seen' = l_seen \cup {d} /\ l_entries' = l_entries \ {d} /\ UNCHANGED scans
  /\ l_dev' = d /\ l_back' = "scan"
  /\ UNCHANGED <<kernel, table, g_his, l_slot, l_events, reader, app, history>>

CloseDir ==
  /\ l_pc = "scan" /\ l_pc' = "inotify_init"
  /\ l_entries = {}
  /\ UNCHANGED <<kernel, table, g_his, scan, work, l_events, reader, app, history>>

InotifyInit ==
  /\ l_pc = "inotify_init" /\ l_pc' = "add_watch"
  /\ FreeFds # {}
  /\ files' = [files EXCEPT ![LowestFd] = Inotify]
  /\ UNCHANGED <<kernel, epoll, g_his, scan, work, l_events, reader, app, history>>

(* Back to the scan, which adds the devices it finds once more.            *)
InotifyInitFails ==
  /\ l_pc = "inotify_init" /\ l_pc' = "opendir"
  /\ FreeFds = {} \/ MayFail("inotify")
  /\ faulted' = TRUE
  /\ UNCHANGED <<kernel, table, g_his, scan, work, l_events, reader, app, marks>>

AddWatch ==
  /\ l_pc = "add_watch" /\ l_pc' = "read"
  /\ watching' = TRUE
  /\ UNCHANGED <<nodes, plugs, queue, table, g_his, scan, work, l_events, reader, app, history>>

(* Back to the scan; the inotify descriptor stays open.                    *)
AddWatchFails ==
  /\ l_pc = "add_watch" /\ l_pc' = "opendir"
  /\ MayFail("inotify")
  /\ faulted' = TRUE
  /\ UNCHANGED <<kernel, table, g_his, scan, work, l_events, reader, app, marks>>

(* Mutant: only the first event of the buffer is handled.                  *)
ReadFirstEvent ==
  LET n == IF Len(queue) < ReadSize THEN Len(queue) ELSE ReadSize
  IN /\ l_pc = "read" /\ l_pc' = "events"
     /\ queue # <<>>
     /\ l_events' = SubSeq(queue, 1, 1) /\ queue' = SubSeq(queue, n + 1, Len(queue))
     /\ UNCHANGED <<nodes, plugs, watching, table, g_his, scan, work, reader, app, history>>

ReadEvents ==
  LET n == IF Len(queue) < ReadSize THEN Len(queue) ELSE ReadSize
  IN /\ l_pc = "read" /\ l_pc' = "events"
     /\ queue # <<>>
     /\ l_events' = SubSeq(queue, 1, n) /\ queue' = SubSeq(queue, n + 1, Len(queue))
     /\ UNCHANGED <<nodes, plugs, watching, table, g_his, scan, work, reader, app, history>>

NextEvent ==
  /\ l_pc = "events"
  /\ IF l_events = <<>>
     THEN l_pc' = "read" /\ UNCHANGED <<l_dev, l_events, l_back>>
     ELSE /\ l_pc' = IF Head(l_events).mask = "create" THEN "add" ELSE "remove"
          /\ l_dev' = Head(l_events).name /\ l_back' = "events"
          /\ l_events' = Tail(l_events)
  /\ UNCHANGED <<kernel, table, g_his, scan, l_slot, reader, app, history>>

AddCallback ==
  /\ l_pc = "add_callback" /\ l_pc' = l_back
  /\ told' = [told EXCEPT ![l_dev] = @ + 1]
  /\ UNCHANGED <<kernel, table, g_his, scan, work, l_events, reader, history>>

RemoveCallback ==
  /\ l_pc = "remove_callback" /\ l_pc' = "events"
  /\ told' = [told EXCEPT ![l_dev] = @ - 1]
  /\ UNCHANGED <<kernel, table, g_his, scan, work, l_events, reader, history>>

-----------------------------------------------------------------------------
(* add_his, for the device l_dev.                                          *)

Available == {s \in Slot : g_his[s].is_avaiable}
First(slots) == CHOOSE s \in slots : \A other \in slots : s <= other

(* No slot is left: the function ends without a return statement and the   *)
(* caller reads an arbitrary value as its result.                          *)
AddOverflow ==
  /\ l_pc = "add" /\ l_pc' \in {"add_callback", l_back}
  /\ Available = Slot
  /\ faulted' = TRUE /\ undefined' = TRUE
  /\ UNCHANGED <<kernel, table, g_his, scan, work, l_events, reader, app, missed, reused>>

(* Mutant: the loop over the slots runs one too far.                       *)
AddOpenOneTooFar ==
  LET s == First((1..(MaxEvents + 1)) \ Available)
  IN /\ l_pc = "add" /\ l_pc' = "epoll_add"
     /\ l_dev \in nodes /\ FreeFds # {}
     /\ files' = [files EXCEPT ![LowestFd] = Opened(l_dev)]
     /\ l_slot' = s
     /\ UNCHANGED <<kernel, epoll, g_his, scan, l_dev, l_back, l_events, reader, app, history>>

AddOpen ==
  LET s == First(Slot \ Available)
  IN /\ l_pc = "add" /\ l_pc' = "epoll_add"
     /\ Available # Slot /\ l_dev \in nodes /\ FreeFds # {}
     /\ files' = [files EXCEPT ![LowestFd] = Opened(l_dev)]
     /\ g_his' = [g_his EXCEPT ![s].device_name = l_dev, ![s].fd = LowestFd]
     /\ l_slot' = s
     /\ UNCHANGED <<kernel, epoll, scan, l_dev, l_back, l_events, reader, app, history>>

(* Mutant: the caller does not look at the result.                         *)
AddOpenFailsUnnoticed ==
  /\ l_pc = "add" /\ l_pc' = "add_callback"
  /\ Available # Slot /\ (l_dev \notin nodes \/ FreeFds = {} \/ MayFail("open"))
  /\ faulted' = (faulted \/ l_dev \in nodes)
  /\ UNCHANGED <<kernel, table, g_his, scan, work, l_events, reader, app, marks>>

(* The device is gone again, or there is no memory for its name, no free   *)
(* descriptor or no right.                                                 *)
AddOpenFails ==
  LET s == First(Slot \ Available)
  IN /\ l_pc = "add" /\ l_pc' = l_back
     /\ Available # Slot /\ (l_dev \notin nodes \/ FreeFds = {} \/ MayFail("open"))
     /\ \/ g_his' = [g_his EXCEPT ![s].device_name = l_dev, ![s].fd = NULL]
        \/ g_his[s].device_name = NULL /\ MayFail("open") /\ UNCHANGED g_his  \* no memory
     /\ faulted' = (faulted \/ l_dev \in nodes)
     /\ UNCHANGED <<kernel, table, scan, work, l_events, reader, app, marks>>

EpollAdd ==
  /\ l_pc = "epoll_add" /\ l_pc' = "add_callback"
  /\ epoll' = epoll \cup {g_his[l_slot].fd}
  /\ g_his' = [g_his EXCEPT ![l_slot].is_avaiable = TRUE]
  /\ UNCHANGED <<kernel, files, scan, work, l_events, reader, app, history>>

(* Mutant: the descriptor is not closed.                                   *)
EpollAddFailsOpen ==
  /\ l_pc = "epoll_add" /\ l_pc' = l_back
  /\ MayFail("epoll")
  /\ faulted' = TRUE
  /\ UNCHANGED <<kernel, table, g_his, scan, work, l_events, reader, app, marks>>

EpollAddFails ==
  /\ l_pc = "epoll_add" /\ l_pc' = l_back
  /\ MayFail("epoll")
  /\ files' = [files EXCEPT ![g_his[l_slot].fd] = Closed]
  /\ faulted' = TRUE
  /\ UNCHANGED <<kernel, epoll, g_his, scan, work, l_events, reader, app, marks>>

(* Mutant: the path is compared from the wrong offset and never matches.   *)
SlotsOfNone(d) == {}

(* remove_his, for the device l_dev: the first slot of that name.          *)
SlotsOf(d) == {s \in Available : g_his[s].device_name = d}

(* No such slot: again there is no return statement.                       *)
RemoveUnknown ==
  /\ l_pc = "remove" /\ l_pc' \in {"remove_callback", "events"}
  /\ SlotsOf(l_dev) = {}
  /\ undefined' = TRUE
  /\ UNCHANGED <<kernel, table, g_his, scan, work, l_events, reader, app, missed, faulted, reused>>

EpollDel ==
  LET s == First(SlotsOf(l_dev))
  IN /\ l_pc = "remove" /\ l_pc' = "close"
     /\ SlotsOf(l_dev) # {}
     /\ l_slot' = s
     /\ epoll' = epoll \ {g_his[s].fd}
     /\ UNCHANGED <<kernel, files, g_his, scan, l_dev, l_back, l_events, reader, app, history>>

EpollDelFails ==
  /\ l_pc = "remove" /\ l_pc' = "events"
  /\ SlotsOf(l_dev) # {} /\ MayFail("epoll")
  /\ faulted' = TRUE
  /\ UNCHANGED <<kernel, table, g_his, scan, work, l_events, reader, app, marks>>

(* A read that blocks on the descriptor goes on.                           *)
CloseDevice ==
  LET fd == g_his[l_slot].fd
  IN /\ l_pc = "close" /\ l_pc' = "remove_callback"
     /\ files' = [files EXCEPT ![fd] = Closed]
     /\ g_his' = [g_his EXCEPT ![l_slot].is_avaiable = FALSE]
     /\ i_fd' = IF i_fd = fd THEN NULL ELSE i_fd
     /\ reused' = reused \cup {fd}
     /\ UNCHANGED <<kernel, epoll, scan, work, l_events, i_pc, i_batch, i_dev, app,
                    missed, faulted, undefined>>

-----------------------------------------------------------------------------
(* event_input_listener.                                                   *)

Ready == {fd \in epoll : files[fd].kind = "gone" \/ files[fd].input}

(* Mutant: one descriptor at a time.                                       *)
EpollWaitOne ==
  /\ i_pc = "wait" /\ i_pc' = "next"
  /\ Ready # {}
  /\ i_batch' = {First(Ready)}
  /\ reused' = {}
  /\ UNCHANGED <<kernel, table, g_his, listener, i_fd, i_dev, app, missed, faulted, undefined>>

EpollWait ==
  /\ i_pc = "wait" /\ i_pc' = "next"
  /\ Ready # {}
  /\ i_batch' = Ready
  /\ reused' = {}
  /\ UNCHANGED <<kernel, table, g_his, listener, i_fd, i_dev, app, missed, faulted, undefined>>

(* Mutant: the loop does not move on after a read.                         *)
ReadInputAgain(fd) ==
  /\ i_pc = "next" /\ fd \in i_batch
  /\ IF files[fd].kind = "device" /\ ~files[fd].input
     THEN i_pc' = "blocked" /\ i_fd' = fd /\ i_dev' = files[fd].device
     ELSE UNCHANGED <<i_pc, i_fd, i_dev>>
  /\ files' = [files EXCEPT ![fd].input = FALSE]
  /\ UNCHANGED <<kernel, epoll, i_batch, g_his, listener, app, history>>

(* One event is read from a descriptor of the batch and handed to          *)
(* input_callback; a descriptor with more is ready again, as if a new      *)
(* event came (InputEvent).  A descriptor that is closed or whose device   *)
(* is gone yields an error, one without an event blocks the thread.        *)
ReadInput(fd) ==
  /\ i_pc = "next" /\ fd \in i_batch
  /\ i_batch' = i_batch \ {fd}
  /\ IF files[fd].kind = "device" /\ ~files[fd].input
     THEN i_pc' = "blocked" /\ i_fd' = fd /\ i_dev' = files[fd].device
     ELSE UNCHANGED <<i_pc, i_fd, i_dev>>
  /\ files' = [files EXCEPT ![fd].input = FALSE]
  /\ UNCHANGED <<kernel, epoll, g_his, listener, app, history>>

BatchDone ==
  /\ i_pc = "next" /\ i_pc' = "wait"
  /\ i_batch = {}
  /\ UNCHANGED <<kernel, table, g_his, listener, i_batch, i_fd, i_dev, app, history>>

-----------------------------------------------------------------------------
Environment == \E d \in Device : Plug(d) \/ Unplug(d) \/ InputEvent(d)
Listen ==
  \/ OpenDir \/ (\E d \in Device : ReadEntry(d)) \/ CloseDir
  \/ InotifyInit \/ InotifyInitFails \/ AddWatch \/ AddWatchFails
  \/ ReadEvents \/ NextEvent \/ AddCallback \/ RemoveCallback
  \/ AddOverflow \/ AddOpen \/ AddOpenFails \/ EpollAdd \/ EpollAddFails
  \/ RemoveUnknown \/ EpollDel \/ EpollDelFails \/ CloseDevice
ReadInputs == EpollWait \/ (\E fd \in Fd : ReadInput(fd)) \/ BatchDone

Next == Environment \/ Listen \/ ReadInputs
Spec == Init /\ [][Next]_vars
FairSpec == Spec /\ WF_vars(Listen) /\ WF_vars(ReadInputs)

-----------------------------------------------------------------------------
InHand == IF l_pc \in {"epoll_add", "close"} THEN {l_slot} ELSE {}

(* Every slot in use owns a descriptor of its own, open on a device of its *)
(* name and registered with epoll, and nothing else is: whatever fails in  *)
(* add_his or remove_his, no device descriptor leaks and none is left in   *)
(* epoll after its slot (input_reader.c:60-71, 84-89).                     *)
SlotsOwnFiles ==
  LET busy == Available \cup InHand
  IN /\ \A s, t \in busy : g_his[s].fd = g_his[t].fd => s = t
     /\ \A s \in busy : files[g_his[s].fd].device = g_his[s].device_name
     /\ {g_his[s].fd : s \in busy} = {fd \in Fd : files[fd].kind \in {"device", "gone"}}
     /\ epoll = {g_his[s].fd : s \in Available \ InHand}

Live(d) == {s \in Available : g_his[s].device_name = d /\ files[g_his[s].fd].kind = "device"}

(* Once the listener has caught up, and unless a call failed, the slots    *)
(* with a working descriptor are exactly the nodes of /dev/input, each     *)
(* once, apart from devices that changed between opendir and the watch     *)
(* (input_reader.c:108-149): a device that comes, goes and comes back      *)
(* while its events wait in the queue is opened for the wrong event,       *)
(* closed and opened again, and still ends up right.                       *)
CaughtUp == watching /\ l_pc = "read" /\ queue = <<>>

Settled ==
  CaughtUp /\ ~faulted =>
    \A d \in Device \ missed : /\ Cardinality(SlotsOf(d)) = (IF d \in nodes THEN 1 ELSE 0)
                               /\ Live(d) = SlotsOf(d)

(* The scan initialises the nodes of /dev/input (the comment on line 98)   *)
(* and the listener follows the changes of the directory (the comment on   *)
(* line 138): together they leave no device out.                           *)
NoDeviceMissed == CaughtUp /\ ~faulted => \A d \in nodes : Live(d) # {}

(* No device is listened to twice, which would deliver each of its inputs  *)
(* twice, even while events are handled, unless it changed unseen before   *)
(* the watch, the set-up failed and was repeated (input_reader.c:143-154)  *)
(* or inotify lost an event.  A removal that was not seen is enough: the   *)
(* next one then closes the wrong slot, the first of that name.            *)
LiveOnce == ~faulted => \A d \in Device \ missed : Cardinality(Live(d)) <= 1

(* The application has been told of exactly the devices in the slots,      *)
(* unless a function without a return statement was called for a result    *)
(* (input_reader.c:76, 95).                                                *)
AppInformed ==
  undefined \/ \A d \in Device :
    told[d] = Cardinality(SlotsOf(d))
              + (IF l_dev # d THEN 0
                 ELSE IF l_pc = "add_callback" THEN -1
                 ELSE IF l_pc = "remove_callback" THEN 1 ELSE 0)

(* The input listener only blocks in read if the descriptor epoll_wait     *)
(* returned was closed and given to another device in the meantime.        *)
BlocksOnlyOnReuse == i_pc = "blocked" => i_fd = NULL \/ i_fd \in reused

(* An input that waits on a registered descriptor is read in the end, or   *)
(* discarded with its device, or the thread is stuck in a read on a reused *)
(* descriptor.  Descriptors of devices that are gone, which epoll reports  *)
(* over and over, do not keep the thread from it.                          *)
InputRead ==
  \A fd \in Fd :
    [](fd \in epoll /\ files[fd].input => <>(~files[fd].input \/ i_pc = "blocked"))

-----------------------------------------------------------------------------
(* The inductive invariant.                                                *)

(* What the change listener works on.                                      *)
AtWork ==
  /\ l_pc \in {"add", "epoll_add", "add_callback", "remove", "close", "remove_callback"} =>
       l_dev \in Device
  /\ l_pc = "epoll_add" => l_slot \in Slot \ Available
  /\ l_pc = "close" => l_slot \in Available
  /\ l_pc \in {"epoll_add", "close"} => g_his[l_slot].device_name = l_dev

(* Every descriptor still to be read was closed since epoll_wait returned, *)
(* or belongs to a slot and has something to be read.                      *)
BatchReady ==
  \A fd \in i_batch \ reused :
    /\ \E s \in Available : g_his[s].fd = fd
    /\ files[fd].kind = "gone" \/ files[fd].input

(* The scan comes before the watch and the events after it.                *)
Phases ==
  /\ l_pc \in {"opendir", "scan", "inotify_init", "add_watch"} => ~watching
  /\ l_pc \in {"read", "events", "remove", "close", "remove_callback"} => watching
  /\ l_pc \in {"add", "epoll_add", "add_callback"} => (watching <=> l_back = "events")
  /\ ~watching => queue = <<>> /\ l_events = <<>>
  /\ l_pc = "read" => l_events = <<>>
  /\ l_pc \in {"inotify_init", "add_watch"} => l_entries = {}
  /\ watching => l_entries = {}

(* What the listener has to do, the first of it being done.                *)
InWork ==
  IF l_pc \in {"add", "epoll_add"} THEN <<[mask |-> "create", name |-> l_dev]>>
  ELSE IF l_pc \in {"remove", "close"} THEN <<[mask |-> "delete", name |-> l_dev]>>
  ELSE <<>>
Pending == InWork \o (l_events \o queue)

(* The events of a device among others: they alternate, and the last says  *)
(* whether the device is there; Opens: the first opens it.                 *)
Own(events, d) == {k \in DOMAIN events : events[k].name = d}
Alternate(events, d) ==
  \A j, k \in Own(events, d) :
    j < k /\ events[j].mask = events[k].mask => \E i \in Own(events, d) : j < i /\ i < k
LastSays(events, d, present) ==
  \A k \in Own(events, d) :
    (\A j \in Own(events, d) : j <= k) => (events[k].mask = "create" <=> d \in present)
Opens(events, d) ==
  \E k \in Own(events, d) : events[k].mask = "create" /\ \A j \in Own(events, d) : k <= j

(* The devices the scan still has to find.                                 *)
Unscanned == IF l_pc = "opendir" THEN Device ELSE l_entries

(* The events of a device end with what it is now; it is only opened when  *)
(* it is in no slot; when it has no events its slot is right.              *)
InStep(d) ==
  /\ \A s, t \in SlotsOf(d) : s = t
  /\ Alternate(Pending, d) /\ LastSays(Pending, d, nodes)
  /\ Opens(Pending, d) => SlotsOf(d) = {}
  /\ Own(Pending, d) # {} => d \notin Unscanned
  /\ Own(Pending, d) = {} =>
       IF d \in nodes \ Unscanned THEN SlotsOf(d) # {} /\ Live(d) = SlotsOf(d) ELSE SlotsOf(d) = {}
  /\ l_pc = "epoll_add" /\ l_dev = d /\ Own(Pending, d) = {1} =>
       files[g_his[l_slot].fd].kind = "device"
  /\ ~watching /\ l_pc # "opendir" /\ d \in nodes \ l_seen => d \in l_entries

(* The invariant of the proofs (input_reader.c:46-216).                    *)
IInv == /\ TypeOK /\ AtWork /\ SlotsOwnFiles /\ AppInformed /\ BatchReady
        /\ BlocksOnlyOnReuse /\ Phases
        /\ ~faulted => \A d \in Device \ missed : InStep(d)

-----------------------------------------------------------------------------
(* A device of the directory that no descriptor is open on and no event    *)
(* tells of.                                                               *)
Unheard(d) ==
  /\ watching /\ d \in nodes /\ Own(Pending, d) = {}
  /\ \A fd \in Fd : files[fd].kind = "device" => files[fd].device # d

(* Once the listener has caught up, a device it has missed is unheard, and *)
(* it stays so, whatever else is plugged, read or reported, until it is    *)
(* unplugged: neither the scan nor any time-out looks at the directory     *)
(* again (input_reader.c:108-149, 156-212).                                *)
MissedIsUnheard == CaughtUp => \A d \in nodes : Live(d) = {} => Unheard(d)
UnheardStays == [][\A d \in Device : Unheard(d) /\ d \in nodes' => Unheard(d)']_vars
=============================================================================
